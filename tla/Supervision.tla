---------------------------- MODULE Supervision ----------------------------
(***************************************************************************)
(* One run of the controller (controller/orchestration.cpp): it forks its  *)
(* workers, watches their beats, climbs the stop ladder, drains their      *)
(* record pipes, reaps them, and reports a fate for each.  The workers,    *)
(* the kernel and the user take steps between any two of its own: what a   *)
(* look at a worker found may be over when the signal is sent.             *)
(*                                                                         *)
(* A worker is what its supervisor can tell apart: beating, hung, or       *)
(* stopped (not even SIGTERM ends it); the records it wrote are "finished",*)
(* "torn" (a frame cut by its death) and "bad" (one that does not verify). *)
(* A process doomed by a signal or leaving by exit is "exiting" until the  *)
(* kernel has torn it down, then a zombie until it is reaped.  Time is     *)
(* counted in whole units, as ages that stop at the largest bound on them. *)
(***************************************************************************)
EXTENDS Fate, Sequences, SequencesExt

CONSTANTS Plans,          \* the runs there may be: [workers, duration, mishaps, signals], the
                          \* last two bounds on what goes wrong outside the controller and
                          \* on the SIGINTs and SIGTERMs the user sends
          StaleAfter,     \* stale_after_ns
          StopGrace,      \* Grace::stop_ns
          KillGrace,      \* Grace::kill_ns
          Ceiling         \* whether a temperature ceiling may stop the run

ASSUME RunAssumption ==
  /\ Plans \subseteq [workers : Nat \ {0}, duration : Nat, mishaps : Nat, signals : Nat]
  /\ {StaleAfter, StopGrace, KillGrace} \subseteq Nat
  /\ Ceiling \in BOOLEAN

VARIABLES pc,         \* where the controller is
          scan,       \* the slot its loop has come to
          call,       \* the signal send() is about to send
          run,        \* its workers, stop_requested_, stop_signal_, elapsed time
          tracked,    \* what the controller holds about each worker
          proc,       \* the worker processes
          pipe,       \* record pipes: what is written and not yet read
          oom,        \* the kernel's OOM-kill record
          world,      \* pending user signals; what is left to go wrong
          fate        \* the report

vars == <<pc, scan, call, run, tracked, proc, pipe, oom, world, fate>>
outside == <<proc, pipe, oom, world>>

(* The workers, in slot order                                              *)
N == run.plan.workers
Workers == 1 .. N

Capped(age, most) == IF age < most THEN age + 1 ELSE age
Longest(a, b) == IF a > b THEN a ELSE b

Init ==
  /\ pc = "spawn" /\ scan = 1
  /\ call = [signal |-> "none", stale |-> FALSE, from |-> "watch"]
  /\ run \in [plan : Plans, stop : {FALSE}, signal : {FALSE}, forced : {FALSE}, elapsed : {0}]
  /\ tracked = [w \in Workers |->
                  [step |-> "none", age |-> 0, reaped |-> FALSE, open |-> FALSE,
                   evidence |-> [status |-> "none", attempted |-> "none",
                                 stale |-> FALSE, finished |-> FALSE,
                                 corrupt |-> FALSE, truncated |-> FALSE,
                                 oom |-> "not consulted"]]]
  /\ proc = [w \in Workers |-> [life |-> "unborn", mode |-> "well", beat |-> 0,
                                said |-> FALSE, status |-> "none",
                                by |-> "nobody", left |-> "nothing"]]
  /\ pipe = [w \in Workers |-> <<>>]
  /\ oom = [record |-> "unread", count |-> 0]
  /\ world = [pending |-> 0, signals |-> 0, mishaps |-> 0]
  /\ fate = [w \in Workers |-> "none"]

-----------------------------------------------------------------------------
(* The kernel                                                              *)

(* A fatal signal decides how a running process ends when it is sent; one  *)
(* that is stopped is reached only by SIGKILL.  To a process already       *)
(* ending it does nothing, and kill(2) still answers success.              *)
Reaches(p, signal) == p.life = "running" /\ (p.mode # "stopped" \/ signal = "SIGKILL")

Doomed(p, signal, by) ==
  IF Reaches(p, signal)
  THEN [p EXCEPT !.life = "exiting", !.status = signal, !.by = by]
  ELSE p

(* The process is torn down: its pipe ends close, and it can be reaped.    *)
ExitDone(w) ==
  /\ proc[w].life = "exiting"
  /\ proc' = [proc EXCEPT ![w].life = "zombie"]
  /\ UNCHANGED <<pc, scan, call, run, tracked, pipe, oom, world, fate>>

(* End of file: the worker is gone and nothing it started holds the pipe.  *)
Ended(w) == proc[w].life \in {"zombie", "reaped"} /\ proc[w].left = "nothing"

-----------------------------------------------------------------------------
(* The workers, the user and the rest of the machine                       *)

Controller == <<pc, scan, call, run, tracked, fate>>

Over == pc \in {"done", "aborted"}

Mishap ==
  /\ ~Over /\ world.mishaps < run.plan.mishaps
  /\ world' = [world EXCEPT !.mishaps = @ + 1]

Running(w) == proc[w].life = "running"
Well(w) == Running(w) /\ proc[w].mode = "well"

Beat(w) ==
  /\ Well(w) /\ proc[w].beat > 0
  /\ proc' = [proc EXCEPT ![w].beat = 0]
  /\ UNCHANGED <<Controller, pipe, oom, world>>

(* It was told to stop, its own duration passed, or its runner ended.      *)
Finish(w) ==
  /\ Well(w) /\ ~proc[w].said
  /\ pipe' = [pipe EXCEPT ![w] = Append(@, "finished")]
  /\ proc' = [proc EXCEPT ![w].said = TRUE]
  /\ UNCHANGED <<Controller, oom, world>>

Exit(w) ==
  /\ Well(w) /\ proc[w].said
  /\ proc' = [proc EXCEPT ![w].life = "exiting", ![w].status = "exit0",
                          ![w].by = "itself"]
  /\ UNCHANGED <<Controller, pipe, oom, world>>

Refuse(w, code) ==
  /\ Well(w) /\ ~proc[w].said /\ Mishap
  /\ proc' = [proc EXCEPT ![w].life = "exiting", ![w].status = code,
                          ![w].by = "itself"]
  /\ UNCHANGED <<Controller, pipe, oom>>

(* It spins, waits for ever, or is stopped by a debugger or job control.   *)
Hang(w, mode) ==
  /\ Well(w) /\ Mishap
  /\ proc' = [proc EXCEPT ![w].mode = mode]
  /\ UNCHANGED <<Controller, pipe, oom>>

(* A frame its corrupted memory garbled.                                   *)
Garble(w) ==
  /\ Well(w) /\ Mishap
  /\ pipe' = [pipe EXCEPT ![w] = Append(@, "bad")]
  /\ UNCHANGED <<Controller, proc, oom>>

(* Its own fault, somebody's kill, the OOM killer; perhaps inside a frame. *)
Die(w, signal, by, torn) ==
  /\ Reaches(proc[w], signal) /\ Mishap
  /\ proc' = [proc EXCEPT ![w] = Doomed(@, signal, by)]
  /\ pipe' = [pipe EXCEPT ![w] = IF torn THEN Append(@, "torn") ELSE @]
  /\ oom' = [oom EXCEPT !.count = IF by = "oom killer" THEN @ + 1 ELSE @]
  /\ UNCHANGED Controller

(* The cgroup loses a process that is not one of the workers.              *)
OomElsewhere ==
  /\ Mishap
  /\ oom' = [oom EXCEPT !.count = @ + 1]
  /\ UNCHANGED <<Controller, proc, pipe>>

(* It leaves a process of its own holding the record pipe, in its group    *)
(* or in a session of its own.                                             *)
Leave(w, where) ==
  /\ pc # "spawn" /\ Well(w) /\ proc[w].left = "nothing" /\ Mishap
  /\ proc' = [proc EXCEPT ![w].left = where]
  /\ UNCHANGED <<Controller, pipe, oom>>

UserSignal ==
  /\ ~Over /\ world.signals < run.plan.signals
  /\ world' = [world EXCEPT !.signals = @ + 1, !.pending = @ + 1]
  /\ UNCHANGED <<Controller, proc, pipe, oom>>

Environment ==
  \/ \E w \in Workers :
       \/ Beat(w) \/ Finish(w) \/ Exit(w) \/ ExitDone(w) \/ Garble(w)
       \/ \E code \in ExitErrors : Refuse(w, code)
       \/ \E mode \in {"hung", "stopped"} : Hang(w, mode)
       \/ \E torn \in BOOLEAN :
            \/ Die(w, "SIGSEGV", "itself", torn)
            \/ Die(w, "SIGKILL", "oom killer", torn)
            \/ \E signal \in Signals : Die(w, signal, "somebody", torn)
       \/ \E where \in {"group", "session"} : Leave(w, where)
  \/ OomElsewhere
  \/ UserSignal

-----------------------------------------------------------------------------
(* Spawn, and the ways out that report nothing                             *)

(* Every pid the pool has not cleared is sent SIGKILL.                     *)
SignalAll == [w \in Workers |-> Doomed(proc[w], "SIGKILL", "controller")]

Fork ==
  /\ pc = "spawn"
  /\ proc' = [proc EXCEPT ![scan].life = "running"]
  /\ IF scan < N
     THEN pc' = pc /\ scan' = scan + 1 /\ UNCHANGED tracked
     ELSE /\ pc' = "tick" /\ scan' = 1
          /\ tracked' = [w \in Workers |-> [tracked[w] EXCEPT !.open = TRUE]]
  /\ UNCHANGED <<call, run, pipe, oom, world, fate>>

(* The fork is refused, or the clock after it: what was started is killed. *)
ForkFails(forked) ==
  /\ pc = "spawn" /\ Mishap
  /\ proc' = [w \in Workers |->
                IF w = scan /\ forked
                THEN Doomed([proc[w] EXCEPT !.life = "running"], "SIGKILL", "controller")
                ELSE SignalAll[w]]
  /\ pc' = "unwind"
  /\ UNCHANGED <<scan, call, run, tracked, pipe, oom, fate>>

(* A call the controller needs is refused: teardown kills the groups of    *)
(* the unreaped workers, and the workers.                                  *)
Fails ==
  /\ pc \in {"tick", "look", "kill", "drain", "signals", "reap", "after death"}
  /\ Mishap
  /\ proc' = [w \in Workers |->
                IF tracked[w].reaped THEN proc[w]
                ELSE [SignalAll[w] EXCEPT !.left = IF @ = "group" THEN "nothing" ELSE @]]
  /\ pc' = "unwind"
  /\ UNCHANGED <<scan, call, run, tracked, pipe, oom, fate>>

(* wait_for_next until none is live.                                       *)
WaitNext ==
  /\ pc = "unwind"
  /\ \/ /\ \E w \in Workers : /\ proc[w].life = "zombie"
                              /\ proc' = [proc EXCEPT ![w].life = "reaped"]
        /\ pc' = pc
     \/ /\ \A w \in Workers : proc[w].life \in {"unborn", "reaped"}
        /\ pc' = "aborted" /\ UNCHANGED proc
  /\ UNCHANGED <<scan, call, run, tracked, pipe, oom, world, fate>>

-----------------------------------------------------------------------------
(* One tick                                                                *)

(* The wait between two ticks; every clock the controller compares with    *)
(* its next reading moves on.                                              *)
TimePasses ==
  /\ pc = "tick"
  /\ run' = [run EXCEPT !.elapsed = Capped(@, run.plan.duration)]
  /\ tracked' = [w \in Workers |->
                   IF tracked[w].step \notin {"requested", "terminated"} THEN tracked[w]
                   ELSE [tracked[w] EXCEPT !.age = Capped(@, Longest(StopGrace, KillGrace))]]
  /\ proc' = [w \in Workers |-> [proc[w] EXCEPT !.beat = Capped(@, StaleAfter + 1)]]
  /\ UNCHANGED <<pc, scan, call, pipe, oom, world, fate>>

(* request_stop: a Stop to every worker still unasked; the EPIPE of one    *)
(* already dead is no error.                                               *)
Asked == [w \in Workers |->
            IF tracked[w].reaped \/ tracked[w].step # "none" THEN tracked[w]
            ELSE [tracked[w] EXCEPT !.step = "requested", !.age = 0]]

(* The clock is read; the deadline, or the ceiling, asks for the stop.     *)
Tick ==
  /\ pc = "tick"
  /\ \/ /\ ~run.stop /\ (run.elapsed >= run.plan.duration \/ Ceiling)
        /\ run' = [run EXCEPT !.stop = TRUE] /\ tracked' = Asked
     \/ /\ run.stop \/ run.elapsed < run.plan.duration
        /\ UNCHANGED <<run, tracked>>
  /\ pc' = "watch" /\ scan' = 1
  /\ UNCHANGED <<call, outside, fate>>

(* send() was called; it will go back to the loop it came from.            *)
Send(signal, stale) ==
  /\ call' = [signal |-> signal, stale |-> stale, from |-> pc]
  /\ pc' = "look" /\ UNCHANGED scan

Onward ==
  /\ pc' = call.from /\ scan' = scan + 1
  /\ call' = [signal |-> "none", stale |-> FALSE, from |-> "watch"]

(* A SIGKILL is for what the SIGTERM before it was for.                    *)
StaleStill(t) == t.evidence.stale

(* The judgement of one worker: SIGTERM for a stale beat, or the next      *)
(* rung of the ladder when its grace is over.                              *)
Watch ==
  /\ pc = "watch"
  /\ IF scan > N THEN pc' = "drain" /\ scan' = 1 /\ UNCHANGED call
     ELSE LET t == tracked[scan]
              stale == proc[scan].beat > StaleAfter
              due == escalation_due(t.step, t.age, StopGrace, KillGrace) IN
          \/ /\ t.reaped
             /\ scan' = scan + 1 /\ UNCHANGED <<pc, call>>
          \/ /\ ~t.reaped /\ stale /\ t.step \in {"none", "requested"}
             /\ Send("SIGTERM", TRUE)
          \/ /\ ~t.reaped /\ ~(stale /\ t.step \in {"none", "requested"})
             /\ IF due # "none" THEN Send(due, StaleStill(t))
                ELSE scan' = scan + 1 /\ UNCHANGED <<pc, call>>
  /\ UNCHANGED <<run, tracked, outside, fate>>

(* has_exited: a worker found dead is not signalled, and nothing recorded. *)
FoundExited(w) == proc[w].life = "zombie"

Look ==
  /\ pc = "look"
  /\ IF FoundExited(scan) THEN Onward ELSE pc' = "kill" /\ UNCHANGED <<scan, call>>
  /\ UNCHANGED <<run, tracked, outside, fate>>

(* send_signal, and what it is recorded as.                                *)
Kill ==
  /\ pc = "kill"
  /\ proc' = [proc EXCEPT ![scan] = Doomed(@, call.signal, "controller")]
  /\ \E torn \in BOOLEAN :
       pipe' = [pipe EXCEPT ![scan] =
                  IF torn /\ Reaches(proc[scan], call.signal) THEN Append(@, "torn") ELSE @]
  /\ tracked' = [tracked EXCEPT
       ![scan].step = step_after(call.signal), ![scan].age = 0,
       ![scan].evidence.attempted = call.signal,
       ![scan].evidence.stale = call.stale]
  /\ Onward
  /\ UNCHANGED <<run, oom, world, fate>>

-----------------------------------------------------------------------------
(* The record pipes                                                        *)

Before(records, r) ==
  LET at == {i \in DOMAIN records : records[i] = r} IN
  IF at = {} THEN records
  ELSE SubSeq(records, 1, (CHOOSE i \in at : \A j \in at : i <= j) - 1)

(* All that is in the pipe: whole records to the first that does not       *)
(* verify, then the end, or a frame still incomplete.                      *)
Drained(w, t) ==
  LET whole == Before(pipe[w], "bad")
      corrupt == whole # pipe[w]
      ended == ~corrupt /\ Ended(w) IN
  [t EXCEPT !.evidence.finished = @ \/ Contains(whole, "finished"),
            !.evidence.corrupt = @ \/ corrupt,
            !.evidence.truncated = @ \/ (ended /\ Contains(whole, "torn")),
            !.open = ~corrupt /\ ~ended]

Rest(w) == IF Contains(pipe[w], "torn") THEN <<"torn">> ELSE <<>>

Drain ==
  /\ pc = "drain"
  /\ IF scan > N THEN pc' = "signals" /\ UNCHANGED <<scan, tracked, pipe>>
     ELSE /\ IF tracked[scan].open
             THEN /\ tracked' = [tracked EXCEPT ![scan] = Drained(scan, @)]
                  /\ pipe' = [pipe EXCEPT ![scan] = Rest(scan)]
             ELSE UNCHANGED <<tracked, pipe>>
          /\ scan' = scan + 1 /\ UNCHANGED pc
  /\ UNCHANGED <<call, run, proc, oom, world, fate>>

-----------------------------------------------------------------------------
(* The user's signals: the first asks for the stop, any later one kills.   *)

TakeSignal ==
  /\ pc = "signals" /\ world.pending > 0
  /\ world' = [world EXCEPT !.pending = @ - 1]
  /\ IF ~run.signal
     THEN /\ run' = [run EXCEPT !.signal = TRUE, !.stop = TRUE]
          /\ tracked' = IF run.stop THEN tracked ELSE Asked
          /\ UNCHANGED <<pc, scan>>
     ELSE /\ run' = [run EXCEPT !.forced = TRUE]
          /\ pc' = "insist" /\ scan' = 1 /\ UNCHANGED tracked
  /\ UNCHANGED <<call, proc, pipe, oom, fate>>

SignalsTaken ==
  /\ pc = "signals" /\ world.pending = 0
  /\ pc' = "reap"
  /\ UNCHANGED <<scan, call, run, tracked, outside, fate>>

(* Whom a second signal kills: every worker not reaped and not yet killed. *)
AllUnkilled(w) == tracked[w].step # "killed"
Insisted(w) == ~tracked[w].reaped /\ tracked[w].step # "killed"

Insist ==
  /\ pc = "insist"
  /\ IF scan > N THEN pc' = "signals" /\ UNCHANGED <<scan, call>>
     ELSE IF Insisted(scan) THEN Send("SIGKILL", FALSE)
     ELSE scan' = scan + 1 /\ UNCHANGED <<pc, call>>
  /\ UNCHANGED <<run, tracked, outside, fate>>

-----------------------------------------------------------------------------
(* The end                                                                 *)

(* One worker reaped, its group killed and its control pipe closed.        *)
Reap(w) ==
  /\ pc = "reap" /\ proc[w].life = "zombie"
  /\ proc' = [proc EXCEPT ![w].life = "reaped",
                          ![w].left = IF @ = "group" THEN "nothing" ELSE @]
  /\ tracked' = [tracked EXCEPT ![w].reaped = TRUE,
                                ![w].evidence.status = proc[w].status]
  /\ UNCHANGED <<pc, scan, call, run, pipe, oom, world, fate>>

KilledIsGone == {w \in Workers : ~tracked[w].reaped /\ tracked[w].step # "killed"}
Live == {w \in Workers : ~tracked[w].reaped}

ReapDone ==
  /\ pc = "reap"
  /\ \A w \in Workers : proc[w].life # "zombie"
  /\ pc' = IF Live # {} THEN "tick" ELSE "after death"
  /\ scan' = 1
  /\ UNCHANGED <<call, run, tracked, outside, fate>>

(* A channel still open is drained to its end; one that something else     *)
(* holds open past the grace is cut.                                       *)
GiveUp(w, t) == IF t.open THEN [t EXCEPT !.evidence.truncated = TRUE, !.open = FALSE]
                ELSE t

DrainAfterDeath ==
  /\ pc = "after death"
  /\ IF scan > N THEN pc' = "report" /\ UNCHANGED <<scan, tracked, pipe>>
     ELSE /\ IF tracked[scan].open
             THEN /\ tracked' = [tracked EXCEPT ![scan] = GiveUp(scan, Drained(scan, @))]
                  /\ pipe' = [pipe EXCEPT ![scan] = <<>>]
             ELSE UNCHANGED <<tracked, pipe>>
          /\ scan' = scan + 1 /\ UNCHANGED pc
  /\ UNCHANGED <<call, run, proc, oom, world, fate>>

Candidates == {w \in Workers : oom_candidate(tracked[w].evidence)}

(* attribute_oom_kills: there is no record to consult, one that could not  *)
(* be read before or after, or one that was; a candidate's evidence gains  *)
(* the verdict.                                                            *)
Attributed(w, record) ==
  IF record = "none" \/ w \notin Candidates THEN tracked[w].evidence
  ELSE [tracked[w].evidence EXCEPT !.oom =
          judge_oom_kills(record = "readable", oom.count, Cardinality(Candidates))]

Report ==
  /\ pc = "report"
  /\ \E record \in {"none", "unreadable", "readable"} :
       /\ oom' = [oom EXCEPT !.record = record]
       /\ tracked' = [w \in Workers |->
                        [tracked[w] EXCEPT !.evidence = Attributed(w, record)]]
       /\ fate' = [w \in Workers |-> classify(Attributed(w, record))]
  /\ pc' = "done"
  /\ UNCHANGED <<scan, call, run, proc, pipe, world>>

Finished == pc \in {"done", "aborted"} /\ UNCHANGED vars

Step ==
  \/ Fork \/ (\E forked \in BOOLEAN : ForkFails(forked)) \/ Fails \/ WaitNext
  \/ Tick \/ Watch \/ Look \/ Kill \/ Drain \/ TakeSignal \/ SignalsTaken \/ Insist
  \/ (\E w \in Workers : Reap(w)) \/ ReapDone \/ DrainAfterDeath \/ Report

Next == Step \/ TimePasses \/ Environment \/ Finished

Spec == Init /\ [][Next]_vars

MostWorkers == Max({plan.workers : plan \in Plans})

(* The controller keeps running, its clock advances between its ticks, and *)
(* the kernel finishes tearing down what is ending.  Nothing is assumed of *)
(* a worker: it may hang, spin or never read its control pipe.             *)
FairSpec ==
  /\ Spec
  /\ WF_vars(Step)
  /\ SF_vars(TimePasses)
  /\ \A w \in 1 .. MostWorkers : WF_vars(w \in Workers /\ ExitDone(w))

-----------------------------------------------------------------------------
(* The variables keep their types.                                         *)
TypeOK ==
  /\ pc \in {"spawn", "unwind", "tick", "watch", "look", "kill", "drain",
            "signals", "insist", "reap", "after death", "report", "done", "aborted"}
  /\ scan \in 1 .. N + 1
  /\ call \in [signal : Signals \cup {"none"}, stale : BOOLEAN,
              from : {"watch", "insist"}]
  /\ run \in [plan : Plans, stop : BOOLEAN, signal : BOOLEAN, forced : BOOLEAN,
             elapsed : 0 .. run.plan.duration]
  /\ tracked \in [Workers -> [step : StopSteps, age : Nat, reaped : BOOLEAN,
                              open : BOOLEAN, evidence : Evidence]]
  /\ proc \in [Workers -> [life : {"unborn", "running", "exiting", "zombie", "reaped"},
                           mode : {"well", "hung", "stopped"},
                           beat : 0 .. StaleAfter + 1, said : BOOLEAN,
                           status : Statuses \cup {"none"},
                           by : {"nobody", "itself", "controller", "somebody",
                                 "oom killer"},
                           left : {"nothing", "group", "session"}]]
  /\ pipe \in [Workers -> Seq({"finished", "torn", "bad"})]
  /\ oom \in [record : {"unread", "none", "unreadable", "readable"}, count : Nat]
  /\ world \in [pending : Nat, signals : Nat, mishaps : Nat]
  /\ fate \in [Workers -> Fates \cup {"none"}]

(* A pid is signalled only while it names a worker not yet reaped: after   *)
(* the reap the kernel may give the number to somebody else.               *)
SignalsOnlyChildren ==
  pc \in {"look", "kill"} =>
    /\ ~tracked[scan].reaped
    /\ proc[scan].life \in {"running", "exiting", "zombie"}

(* However a run ends, reported or aborted in the middle of the spawn, no  *)
(* worker outlives it, and none is left a zombie.                          *)
NoWorkerLeft ==
  Over => \A w \in Workers : proc[w].life \in {"unborn", "reaped"}

(* A worker reported completed did all of it: it wrote its finished record,*)
(* left by exit(0), and every byte it wrote was read to the end of file.   *)
CompletedIsTrue ==
  \A w \in Workers : fate[w] = "completed" =>
    /\ proc[w].status = "exit0" /\ proc[w].said
    /\ pipe[w] = <<>> /\ proc[w].left = "nothing"

(* When the kernel's count could be read, a worker the OOM killer ended is *)
(* never put down to the controller's own stop or to a stale beat, even    *)
(* when the controller's SIGKILL met it already dying.                     *)
OomNotBlamedOnController ==
  oom.record = "readable" =>
    \A w \in Workers : proc[w].by = "oom killer" =>
      fate[w] \in {"none", "oom killed", "killed", "channel corrupt"}

(* A worker reported as stopped by the controller had been asked to stop;  *)
(* one signalled for its stale beat is reported as that, to the last rung. *)
StoppedMeansAsked ==
  \A w \in Workers : fate[w] = "stopped by controller" => run.stop

(* The ladder is climbed in order: SIGKILL follows a SIGTERM whose grace   *)
(* has passed, unless the user insisted; SIGTERM follows a Stop whose      *)
(* grace has passed, or a stale beat.                                      *)
LadderInOrder ==
  [][\A w \in Workers : tracked'[w].step # tracked[w].step =>
       CASE tracked'[w].step = "killed" ->
              \/ run.forced
              \/ tracked[w].step = "terminated" /\ tracked[w].age >= KillGrace
         [] tracked'[w].step = "terminated" ->
              \/ tracked'[w].evidence.stale
              \/ tracked[w].step = "requested" /\ tracked[w].age >= StopGrace
         [] OTHER -> run'.stop]_vars

(* Every run ends, whatever its workers do: a worker that ignores the Stop *)
(* and is deaf even to SIGTERM is killed in the end.                       *)
EveryRunEnds == <>Over

(* What the report says of a worker is what happened to it: completed, the *)
(* victim of the OOM killer, stopped on request or timed out.              *)
FatesAreTrue == CompletedIsTrue /\ OomNotBlamedOnController /\ StoppedMeansAsked
=============================================================================
