------------------------------- MODULE Explore -------------------------------
(***************************************************************************)
(* The worst-case search of "loadforge explore" (explore/search.cpp) and   *)
(* the exit code of the command (main/explore_command.cpp): the reference  *)
(* is run to anchor the search, the candidates are run in passes with the  *)
(* reference between them, the better part is eliminated after each round, *)
(* and the one that is left is run again for the claim.  Any trial may     *)
(* find a fault, end unfinished, have no reading, or fail; a signal may    *)
(* come at any time.  A score stands for the drift-corrected score of its  *)
(* trial (Drift.tla): Bracketed is why it does not change afterwards.      *)
(***************************************************************************)
EXTENDS Integers, FiniteSets

CONSTANTS NCandidates, BaseReplicates, EliminationFactor, FinalReplicates,
          InterleaveEvery, ReferenceReplicates,
          Scores          \* small naturals, the worse the higher

Candidates == 1 .. NCandidates
Reference == 0
None == "none"
Verdicts == {"clean", "corrected_errors", "findings", "incomplete"}
Failures == {"failed", "no_reading", "child"}     \* child: a worker whose exec failed
Unscored == {"findings", "incomplete"}

VARIABLES phase, then,    \* what the search does next, and after a reference trial
          state,          \* states_: of each candidate
          which, pass, target, rounds,
          fresh,          \* fresh replicates begun
          since,          \* since_reference_
          references,     \* how many, and the trials that were the first and the last
          corrected,      \* scored trials with corrected errors
          referenceStop, trials,
          asked,          \* a signal has come
          stopped,        \* stopped_
          error, exit,
          found           \* history: who found a fault

vars == <<phase, then, state, which, pass, target, rounds, fresh, since, references, corrected,
          referenceStop, trials, asked, stopped, error, exit, found>>

(* A candidate's observations, as their number and their sum; the fresh    *)
(* ones by themselves; the trials that were the first and the last.        *)
NoObservations == [alive |-> TRUE, fate |-> "survivor", rounds |-> 0, n |-> 0, sum |-> 0,
                   chosen |-> 0, first |-> 0, last |-> 0]

Init ==
  /\ phase = "anchor" /\ then = None
  /\ state = [c \in Candidates |-> NoObservations]
  /\ which = 1 /\ pass = 0 /\ target = BaseReplicates /\ rounds = 0 /\ fresh = 0
  /\ since = 0 /\ references = [n |-> 0, first |-> 0, last |-> 0] /\ corrected = 0
  /\ referenceStop = None /\ trials = 0
  /\ asked = FALSE /\ stopped = FALSE /\ error = None /\ exit = None
  /\ found = {}

Alive == {c \in Candidates : state[c].alive}
Survivor == CHOOSE c \in Alive : TRUE

(* What a signal, or a failure, does to the search: no more trials.        *)
Fail(what) ==
  /\ error' = what /\ phase' = "report"
  /\ UNCHANGED <<then, state, which, pass, target, rounds, fresh, since, references, corrected,
                 referenceStop, exit, found>>

EnoughInAll == state[Survivor].n >= FinalReplicates
Enough == fresh >= FinalReplicates

(* Some trial is next.                                                     *)
TrialIsNext ==
  \/ phase \in {"anchor", "reference"}
  \/ phase = "pass" /\ which \in Alive
  \/ phase = "fresh" /\ Alive # {} /\ ~Enough

(* measure, when a signal has come before the trial: not run.              *)
AskedBefore ==
  /\ TrialIsNext /\ asked
  /\ stopped' = TRUE /\ Fail("failed") /\ UNCHANGED <<trials, asked>>

(* measure, when the trial runs; a signal may come while it does.          *)
Runs(signal) ==
  /\ ~asked /\ asked' = signal /\ trials' = trials + 1

(* A trial that fails because of the signal is no fault of the trial.      *)
TrialFails(what, signal) ==
  /\ TrialIsNext /\ Runs(signal)
  /\ stopped' = (signal /\ what # "no_reading")
  /\ Fail(what)

-----------------------------------------------------------------------------
(* reference_trial: of the anchor, between the candidates, closing a round *)

Counted(verdict) == IF verdict = "corrected_errors" THEN 1 ELSE 0
Resumed == IF phase = "anchor" THEN IF references.n + 1 = ReferenceReplicates THEN "next" ELSE "anchor"
           ELSE then

ReferenceTrial(verdict, signal) ==
  /\ phase \in {"anchor", "reference"}
  /\ Runs(signal)
  /\ IF verdict \in Unscored
     THEN /\ referenceStop' = verdict /\ error' = "reference" /\ phase' = "report"
          /\ found' = found \union {r \in {Reference} : verdict = "findings"}
          /\ UNCHANGED <<since, references, corrected>>
     ELSE /\ references' = [n |-> references.n + 1, last |-> trials + 1,
                            first |-> IF references.n = 0 THEN trials + 1 ELSE references.first]
          /\ since' = 0 /\ corrected' = corrected + Counted(verdict)
          /\ phase' = Resumed
          /\ UNCHANGED <<referenceStop, error, found>>
  /\ UNCHANGED <<then, state, which, pass, target, rounds, fresh, stopped, exit>>

(* candidate_trial: a fault or an unfinished trial takes the candidate out *)
(* of the search; a score counts towards the next reference.               *)
Gone(c, verdict) == [state EXCEPT ![c].alive = FALSE, ![c].fate = verdict]
Scored(c, score) == [state EXCEPT ![c].n = @ + 1, ![c].sum = @ + score, ![c].last = trials + 1,
                                  ![c].first = IF @ = 0 THEN trials + 1 ELSE @]

CandidateTrial(c, verdict, score, signal, after) ==
  /\ Runs(signal)
  /\ IF verdict \in Unscored
     THEN /\ state' = Gone(c, verdict) /\ phase' = after
          /\ found' = found \union {d \in {c} : verdict = "findings"}
          /\ UNCHANGED <<since, then, corrected>>
     ELSE /\ state' = Scored(c, score) /\ corrected' = corrected + Counted(verdict)
          /\ since' = since + 1
          /\ IF since' >= InterleaveEvery THEN phase' = "reference" /\ then' = after
             ELSE phase' = after /\ UNCHANGED then
          /\ UNCHANGED found
  /\ UNCHANGED <<target, rounds, references, referenceStop, stopped, error, exit>>

(* close_reference                                                         *)
IsClosed == since = 0
Close(after) == IF IsClosed THEN phase' = after /\ UNCHANGED then
                ELSE phase' = "reference" /\ then' = after

-----------------------------------------------------------------------------
(* execute: a round, while more than one is left                           *)

NextRound ==
  /\ phase = "next" /\ Cardinality(Alive) > 1
  /\ phase' = "pass" /\ which' = 1
  /\ UNCHANGED <<then, state, pass, target, rounds, fresh, since, references, corrected,
                 referenceStop, trials, asked, stopped, error, exit, found>>

PassTrial(verdict, score, signal) ==
  /\ phase = "pass" /\ which \in Alive
  /\ CandidateTrial(which, verdict, score, signal, "pass")
  /\ which' = which + 1 /\ UNCHANGED <<pass, fresh>>

PassSkips ==
  /\ phase = "pass" /\ which \in Candidates \ Alive
  /\ which' = which + 1
  /\ UNCHANGED <<phase, then, state, pass, target, rounds, fresh, since, references, corrected,
                 referenceStop, trials, asked, stopped, error, exit, found>>

IsLastPass == pass + 1 >= target

PassEnds ==
  /\ phase = "pass" /\ which > NCandidates
  /\ pass' = pass + 1
  /\ IF IsLastPass THEN UNCHANGED which /\ Close("eliminate")
     ELSE which' = 1 /\ UNCHANGED <<phase, then>>
  /\ UNCHANGED <<state, target, rounds, fresh, since, references, corrected, referenceStop, trials,
                 asked, stopped, error, exit, found>>

(* eliminate keeps the worse ceil(n / factor), the earlier of two equals.  *)
Above(c, d) == state[c].sum * state[d].n > state[d].sum * state[c].n
Before(c, d) == Above(c, d) \/ (~Above(d, c) /\ c < d)
RoundedDown == Cardinality(Alive) \div EliminationFactor
Keep == Cardinality(Alive) \div EliminationFactor
        + (IF Cardinality(Alive) % EliminationFactor # 0 THEN 1 ELSE 0)
Kept == {c \in Alive : Cardinality({d \in Alive : Before(d, c)}) < Keep}

Eliminate ==
  /\ phase = "eliminate" /\ phase' = "next"
  /\ state' = [c \in Candidates |->
                 IF c \notin Alive THEN state[c]
                 ELSE IF c \in Kept THEN [state[c] EXCEPT !.rounds = @ + 1]
                 ELSE [state[c] EXCEPT !.rounds = @ + 1, !.alive = FALSE, !.fate = "eliminated"]]
  /\ target' = target * EliminationFactor /\ rounds' = rounds + 1
  /\ UNCHANGED <<then, which, pass, fresh, since, references, corrected, referenceStop, trials,
                 asked, stopped, error, exit, found>>

(* fresh_replicates of the survivor, if there is one                       *)
Choose ==
  /\ phase = "next" /\ Cardinality(Alive) <= 1
  /\ phase' = "fresh"
  /\ state' = [c \in Candidates |-> IF c \in Alive THEN [state[c] EXCEPT !.chosen = @ + state[c].n]
                                    ELSE state[c]]
  /\ UNCHANGED <<then, which, pass, target, rounds, fresh, since, references, corrected,
                 referenceStop, trials, asked, stopped, error, exit, found>>

FreshTrial(verdict, score, signal) ==
  /\ phase = "fresh" /\ Alive # {} /\ ~Enough
  /\ CandidateTrial(Survivor, verdict, score, signal, "fresh")
  /\ fresh' = fresh + 1 /\ UNCHANGED <<which, pass>>

FreshEnds ==
  /\ phase = "fresh" /\ (Alive # {} => Enough)
  /\ Close("report")
  /\ UNCHANGED <<state, which, pass, target, rounds, fresh, since, references, corrected,
                 referenceStop, trials, asked, stopped, error, exit, found>>

-----------------------------------------------------------------------------
(* run, report and the command's exit code                                 *)

HasReport == error \in {None, "reference"} \/ stopped
EndedEarly == referenceStop # None \/ stopped
Fates == {IF state[c].alive /\ EndedEarly THEN "stopped" ELSE state[c].fate : c \in Candidates}
Winner == IF EndedEarly THEN {} ELSE Alive

Faulty == "findings" \in Fates \/ referenceStop = "findings" \/ corrected > 0
Unfinished == "incomplete" \in Fates \/ referenceStop = "incomplete"
ReportExit == IF Faulty THEN "fault" ELSE IF stopped THEN "signal"
              ELSE IF Unfinished THEN "not_verified" ELSE "ok"
ErrorExit == IF error = "no_reading" THEN "not_verified" ELSE "trial_failed"

Report ==
  /\ phase = "report" /\ phase' = "done"
  /\ exit' = IF error = "child" THEN "child" ELSE IF HasReport THEN ReportExit ELSE ErrorExit
  /\ UNCHANGED <<then, state, which, pass, target, rounds, fresh, since, references, corrected,
                 referenceStop, trials, asked, stopped, error, found>>

Done == phase = "done" /\ UNCHANGED vars

Search ==
  \/ AskedBefore
  \/ \E signal \in BOOLEAN :
       \/ \E what \in Failures : TrialFails(what, signal)
       \/ \E verdict \in Verdicts :
            \/ ReferenceTrial(verdict, signal)
            \/ \E score \in Scores : PassTrial(verdict, score, signal) \/ FreshTrial(verdict, score, signal)
  \/ NextRound \/ PassSkips \/ PassEnds \/ Eliminate \/ Choose \/ FreshEnds \/ Report

Next == Search \/ Done

Spec == Init /\ [][Next]_vars
FairSpec == Spec /\ WF_vars(Search)

-----------------------------------------------------------------------------
(* The variables keep their types.                                         *)
TypeOK ==
  /\ phase \in {"anchor", "next", "pass", "eliminate", "fresh", "reference", "report", "done"}
  /\ then \in {None, "pass", "eliminate", "fresh", "report"}
  /\ state \in [Candidates -> [alive : BOOLEAN, fate : {"survivor", "eliminated"} \union Unscored,
                               rounds : Nat, n : Nat, sum : Nat, chosen : Nat, first : Nat, last : Nat]]
  /\ which \in 1 .. NCandidates + 1 /\ pass \in 0 .. target /\ {target, rounds, trials} \subseteq Nat
  /\ fresh \in 0 .. FinalReplicates /\ since \in 0 .. InterleaveEvery
  /\ references \in [n : Nat, first : Nat, last : Nat] /\ corrected \in 0 .. trials
  /\ referenceStop \in {None} \union Unscored
  /\ {asked, stopped} \subseteq BOOLEAN
  /\ error \in {None, "reference"} \union Failures
  /\ exit \in {None, "ok", "fault", "signal", "not_verified", "trial_failed", "child"}
  /\ found \subseteq Candidates \union {Reference}

(* Candidates are ranked on equal evidence: at every elimination each one  *)
(* still in the search has been scored the same number of times, whoever   *)
(* left it in the middle of a pass.                                        *)
EqualEvidence == phase = "eliminate" => \A c \in Alive : state[c].n = target

(* Every score that ranks a candidate or goes into the claim lies between  *)
(* two readings of the reference, so no later reading changes how much     *)
(* drift is taken out of it.                                               *)
Bracketed ==
  phase = "eliminate" \/ (phase \in {"report", "done"} /\ error = None) =>
    \A c \in Alive : state[c].n > 0 => /\ references.first < state[c].first
                                      /\ state[c].last < references.last

(* The claim is about a candidate that never found a fault and was never   *)
(* cut short, and rests on replicates that took no part in choosing it, as *)
(* many as were asked for.                                                 *)
ClaimIsFresh ==
  phase = "done" /\ HasReport => \A c \in Winner :
    /\ state[c].n - state[c].chosen = FinalReplicates
    /\ c \notin found /\ \A d \in Candidates \ {c} : state[d].fate # "survivor"

(* An elimination keeps the worst: nobody who leaves scored worse than one *)
(* who stays, and whoever was in the search, someone stays.                *)
KeepsTheWorst ==
  [][phase = "eliminate" /\ phase' = "next" =>
       /\ Alive # {} => Alive' # {}
       /\ \A c \in Alive \ Alive' : \A d \in Alive' : ~Above(c, d)]_vars

(* A search that reports says what it found: whatever ended it, a fault in *)
(* any trial that came back is the exit code.                              *)
FoundIsReported == phase = "done" /\ HasReport /\ error # "child" /\ found # {} => exit = "fault"

(* The search ends, however its trials go.                                 *)
SearchEnds == <>(phase = "done")

(* The design record's exit codes: 5 a trial found a fault, 6 a trial held *)
(* no reading of the objective, 5 when both apply.                         *)
FaultIsFive == phase = "done" /\ error = "no_reading" /\ found # {} => exit = "fault"

(* What the search concludes rests on equal, bracketed and fresh evidence, *)
(* and a fault outranks it.                                                *)
SearchIsTrue == EqualEvidence /\ Bracketed /\ ClaimIsFresh /\ FoundIsReported
=============================================================================
