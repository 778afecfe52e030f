------------------------------- MODULE Worker -------------------------------
(***************************************************************************)
(* One worker from the fork to its exit (platform/process.cpp,             *)
(* worker/entry.cpp, worker/verified_run.cpp, worker/scheduler.cpp), under *)
(* a controller that may die, or stop beating and reading, at any point.   *)
(*                                                                         *)
(* The kernel sends the parent-death signal when the controller dies, if   *)
(* it was armed by then, and the worker goes on until it is delivered.     *)
(* Time is counted in beats the controller is late with.                   *)
(***************************************************************************)
EXTENDS Naturals, Sequences, SequencesExt

CONSTANTS StaleAfter,      \* stale_after_ns
          Room,            \* records the record pipe holds
          MaxUnits,        \* bound: units tried
          MaxMessages,     \* bound: messages on the control pipe
          MaxMishaps,      \* bound: silences, failed calls, damaged messages
          LongestStep      \* bound: how long a tick takes

VARIABLES controller,   \* the process: running, silent or dead
          clock,        \* ages: of its beat, and of the worker's last look at it
          worker,       \* the process: where it is, what it holds
          run,          \* the Ticker: the runner's total and its next unit,
                        \* runner_counted_, carried_, next_index_
          control,      \* the control pipe
          queued,       \* records in the pipe of a silent controller
          said,         \* what the worker's records said
          done,         \* the units that were run
          left          \* what is left of the bounds

vars == <<controller, clock, worker, run, control, queued, said, done, left>>

Plain == {"pause", "resume", "duty"}
Replacing == {"switch", "rebind"}
Launching == {"arm", "check", "exec"}
Zero == [computed |-> 0, checked |-> 0]
Plus(a, b) == [computed |-> a.computed + b.computed, checked |-> a.checked + b.checked]

Init ==
  /\ controller = [is |-> "running", torn |-> FALSE]
  /\ clock = [beat |-> 0, read |-> 0]
  /\ \E verifies \in BOOLEAN :
       worker = [at |-> "arm", armed |-> FALSE, orphan |-> FALSE, verifies |-> verifies,
                 paused |-> FALSE, inbox |-> <<>>, lost |-> "no", code |-> "none", result |-> Zero]
  /\ run = [runner |-> Zero, counted |-> FALSE, carried |-> Zero, index |-> 0, next |-> 0]
  /\ control = <<>> /\ queued = 0
  /\ said = [tally |-> Zero, unchecked |-> FALSE, finished |-> FALSE]
  /\ done = [tried |-> 0, units |-> Zero]
  /\ left = [messages |-> MaxMessages, mishaps |-> MaxMishaps]

-----------------------------------------------------------------------------
(* The controller, the kernel and time                                     *)

(* What it writes on the control pipe the worker sees when it looks, so    *)
(* that is when it is written.                                             *)
ControllerSends(message) ==
  /\ worker.at = "look" /\ controller.is = "running" /\ left.messages > 0
  /\ control' = Append(control, message)
  /\ left' = [left EXCEPT !.messages = @ - 1]
  /\ UNCHANGED <<controller, clock, worker, run, queued, said, done>>

MessageDamaged ==
  /\ worker.at = "look" /\ controller.is = "running" /\ left.mishaps > 0
  /\ control' = Append(control, "junk")
  /\ left' = [left EXCEPT !.mishaps = @ - 1]
  /\ UNCHANGED <<controller, clock, worker, run, queued, said, done>>

(* It is stopped, wedged or taken off the core, inside a publish or not,   *)
(* with some records still to read.                                        *)
ControllerStops(torn, unread) ==
  /\ controller.is = "running" /\ left.mishaps > 0
  /\ controller' = [is |-> "silent", torn |-> torn] /\ queued' = unread
  /\ left' = [left EXCEPT !.mishaps = @ - 1]
  /\ UNCHANGED <<clock, worker, run, control, said, done>>

(* It beats again, and reads what there is.                                *)
ControllerGoesOn ==
  /\ controller.is = "silent"
  /\ controller' = [is |-> "running", torn |-> FALSE] /\ queued' = 0
  /\ clock' = [clock EXCEPT !.beat = 0]
  /\ UNCHANGED <<worker, run, control, said, done, left>>

ControllerDies ==
  /\ controller.is # "dead"
  /\ controller' = [controller EXCEPT !.is = "dead"] /\ queued' = 0
  /\ worker' = [worker EXCEPT !.orphan = ~worker.armed]
  /\ UNCHANGED <<clock, run, control, said, done, left>>

(* The parent-death signal, SIGKILL, is delivered.                         *)
DeathSignal ==
  /\ controller.is = "dead" /\ worker.armed /\ ~worker.orphan /\ worker.at # "gone"
  /\ worker' = [worker EXCEPT !.at = "gone", !.code = "killed"]
  /\ UNCHANGED <<controller, clock, run, control, queued, said, done, left>>

Older(age) == IF age <= StaleAfter THEN age + 1 ELSE age

TimePasses ==
  /\ worker.at \notin Launching \cup {"attach", "prepare", "start", "give up", "gone"}
  /\ controller.is # "running" \/ clock.read < LongestStep
  /\ clock' = [beat |-> IF controller.is = "running" THEN 0 ELSE Older(clock.beat),
               read |-> Older(clock.read)]
  /\ clock' # clock
  /\ UNCHANGED <<controller, worker, run, control, queued, said, done, left>>

Environment ==
  /\ worker.at # "gone"
  /\ \/ MessageDamaged \/ ControllerGoesOn \/ ControllerDies
     \/ DeathSignal \/ TimePasses
     \/ \E message \in Plain \cup Replacing \cup {"stop"} : ControllerSends(message)
     \/ \E torn \in BOOLEAN, unread \in 0 .. Room : ControllerStops(torn, unread)

-----------------------------------------------------------------------------
(* What a step of the worker comes to                                      *)

(* The whole run's tally: a runner that is closed has its total in         *)
(* carried_ already.                                                       *)
CountedTwice(r) == Plus(r.carried, r.runner)
Tally(r) == IF r.counted THEN r.carried ELSE Plus(r.carried, r.runner)

(* Ticker::leave: nobody is listening.                                     *)
Leaves(r) == [worker EXCEPT !.at = "give up", !.code = "controller lost", !.result = Tally(r)]

Exits(code) == [worker EXCEPT !.at = "gone", !.code = code]

(* A frame is written: the pipe takes it, or has no reader.  A write into  *)
(* a pipe that a silent controller left full waits.                        *)
Taken == \/ controller.is = "running" /\ UNCHANGED queued
         \/ controller.is = "silent" /\ queued < Room /\ queued' = queued + 1
Broken == controller.is = "dead" /\ UNCHANGED queued

-----------------------------------------------------------------------------
(* WorkerLauncher::become_worker, after the fork                           *)

Arm ==
  /\ worker.at = "arm"
  /\ worker' = [worker EXCEPT !.at = "check", !.armed = TRUE]
  /\ UNCHANGED <<controller, clock, run, control, queued, said, done, left>>

(* A parent that died before is no parent now.                             *)
NotAsked == TRUE
ParentIsThere == controller.is # "dead"

Check ==
  /\ worker.at = "check"
  /\ worker' = IF ParentIsThere THEN [worker EXCEPT !.at = "exec"]
              ELSE Exits("parent died before arming")
  /\ UNCHANGED <<controller, clock, run, control, queued, said, done, left>>

Exec ==
  /\ worker.at = "exec"
  /\ worker' = [worker EXCEPT !.at = "attach"]
  /\ UNCHANGED <<controller, clock, run, control, queued, said, done, left>>

(* The signal cannot be armed, a descriptor kept or the image replaced;    *)
(* or the arguments, SIGPIPE or the region fail: no record pipe as yet.    *)
LaunchFails ==
  /\ worker.at \in {"arm", "exec", "attach"} /\ left.mishaps > 0
  /\ left' = [left EXCEPT !.mishaps = @ - 1]
  /\ worker' = Exits(IF worker.at = "attach" THEN "setup failed" ELSE "launch failed")
  /\ UNCHANGED <<controller, clock, run, control, queued, said, done>>

(* worker::run up to its loop: the started record, the placement, the      *)
(* first runner, what was done about locking, the first reading of the     *)
(* clock.                                                                  *)
Started ==
  /\ worker.at = "attach"
  /\ \/ /\ Taken
        /\ worker' = [worker EXCEPT !.at = IF worker.verifies THEN "prepare" ELSE "start"]
     \/ Broken /\ worker' = Exits("controller lost")
  /\ UNCHANGED <<controller, clock, run, control, said, done, left>>

Prepare ==
  /\ worker.at = "prepare"
  /\ \/ Taken /\ worker' = [worker EXCEPT !.at = "start"]
     \/ Broken /\ worker' = Leaves(run)
  /\ UNCHANGED <<controller, clock, run, control, said, done, left>>

Start ==
  /\ worker.at = "start"
  /\ worker' = [worker EXCEPT !.at = "tick"]
  /\ clock' = [clock EXCEPT !.read = 0]
  /\ UNCHANGED <<controller, run, control, queued, said, done, left>>

-----------------------------------------------------------------------------
(* Ticker::once, and the null workload's loop                              *)

(* ControllerWatch::gone                                                   *)
NeverOfTorn == ~controller.torn /\ clock.beat > StaleAfter
UnreadableAtOnce == controller.torn \/ clock.beat > StaleAfter
Gone == IF controller.torn THEN clock.read > StaleAfter ELSE clock.beat > StaleAfter

Ends == IF worker.verifies THEN [worker EXCEPT !.at = "conclude"] ELSE [worker EXCEPT !.at = "finish"]

(* The duration has passed, the controller is gone, or a look at the pipe. *)
Tick ==
  /\ worker.at = "tick"
  /\ \/ worker' = Ends /\ UNCHANGED clock
     \/ Gone /\ worker' = Leaves(run) /\ UNCHANGED clock
     \/ /\ ~Gone /\ worker' = [worker EXCEPT !.at = "look"]
        /\ clock' = IF controller.torn THEN clock ELSE [clock EXCEPT !.read = 0]
  /\ UNCHANGED <<controller, run, control, queued, said, done, left>>

(* Everything on the pipe up to what is not a message; that comes last.    *)
Junk == SelectInSeq(control, LAMBDA m : m = "junk")

Look ==
  /\ worker.at = "look" /\ control # <<>>
  /\ worker' = CASE Junk = 0 -> [worker EXCEPT !.at = "handle", !.inbox = control]
                 [] Junk = 1 -> [Leaves(run) EXCEPT !.lost = "broken"]
                 [] OTHER -> [worker EXCEPT !.at = "handle", !.lost = "broken",
                                            !.inbox = SubSeq(control, 1, Junk - 1)]
  /\ control' = <<>>
  /\ UNCHANGED <<controller, clock, run, queued, said, done, left>>

(* Nothing there: the writer is gone; or there is no slice to run, since   *)
(* the worker is paused, in the idle part of its duty cycle, or runs none. *)
FindNothing ==
  /\ worker.at = "look" /\ control = <<>>
  /\ worker' = IF controller.is = "dead" THEN Leaves(run) ELSE [worker EXCEPT !.at = "tick"]
  /\ UNCHANGED <<controller, clock, run, control, queued, said, done, left>>

Works ==
  /\ worker.at = "look" /\ control = <<>> /\ controller.is # "dead"
  /\ worker.verifies /\ ~worker.paused

(* A unit is tried: computed or not, then compared or not.                 *)
Slice(unit) ==
  /\ Works /\ done.tried < MaxUnits
  /\ worker' = [worker EXCEPT !.at = "report"]
  /\ run' = [run EXCEPT !.runner = Plus(@, unit), !.index = @ + 1, !.next = run.index + 1]
  /\ done' = [tried |-> done.tried + 1, units |-> Plus(done.units, unit)]
  /\ UNCHANGED <<controller, clock, control, queued, said, left>>

(* The runner has ended the run itself.                                    *)
RunnerStopped ==
  /\ Works /\ done.tried > 0
  /\ worker' = Ends
  /\ UNCHANGED <<controller, clock, run, control, queued, said, done, left>>

Report ==
  /\ worker.at = "report"
  /\ \/ /\ Taken /\ worker' = [worker EXCEPT !.at = "tick"]
        /\ said' = [said EXCEPT !.tally = Tally(run)]
     \/ Broken /\ worker' = Leaves(run) /\ UNCHANGED said
  /\ UNCHANGED <<controller, clock, run, control, done, left>>

-----------------------------------------------------------------------------
(* The messages, each answered once                                        *)

Message == Head(worker.inbox)

(* After the last message comes what was wrong with the pipe.              *)
Handled(w) ==
  IF Len(w.inbox) > 1 THEN [w EXCEPT !.at = "handle", !.inbox = Tail(@)]
  ELSE IF w.lost = "broken" THEN [Leaves(run) EXCEPT !.inbox = <<>>]
       ELSE [w EXCEPT !.at = "tick", !.inbox = <<>>]

(* Stop, and what is obeyed or refused with nothing else to do.            *)
Answer ==
  /\ worker.at = "handle"
  /\ \/ /\ Taken
        /\ \/ Message = "stop" /\ worker' = Ends
           \/ Message \in Plain /\ worker' = Handled(
                [worker EXCEPT !.paused = CASE Message = "pause" -> worker.verifies
                                            [] Message = "resume" -> FALSE
                                            [] OTHER -> @])
           \/ Message \in Replacing /\ ~worker.verifies /\ worker' = Handled(worker)
           \/ Message = "switch" /\ worker.verifies /\ worker' = Handled(worker)
     \/ /\ Broken /\ worker' = Leaves(run)
        /\ Message \in Replacing => Message = "switch" \/ ~worker.verifies
  /\ UNCHANGED <<controller, clock, run, control, said, done, left>>

(* close_runner: the runner's total is carried, its last word sent.  It    *)
(* says that nothing was checked if the runner checked nothing, which is   *)
(* kept if the run is over and checked nothing.                            *)
StatesZero(over) == run.runner.checked = 0 /\ over /\ Tally(run).checked = 0

LastWord(over, at) ==
  /\ run' = [run EXCEPT !.carried = Tally(run), !.counted = TRUE]
  /\ \/ /\ Taken /\ worker' = [worker EXCEPT !.at = at, !.result = IF over THEN Tally(run) ELSE @]
        /\ said' = [said EXCEPT !.tally = Tally(run), !.unchecked = @ \/ StatesZero(over)]
     \/ Broken /\ worker' = Leaves(run') /\ UNCHANGED said
  /\ UNCHANGED <<controller, clock, control, done, left>>

Close ==
  /\ worker.at = "handle" /\ worker.verifies /\ Message \in Replacing
  /\ LastWord(FALSE, "make")

(* The new runner, or after a refusal the old one again, from the next     *)
(* unit; then the locking is told.                                         *)
Make ==
  /\ worker.at = "make"
  /\ run' = [run EXCEPT !.runner = Zero, !.counted = FALSE, !.index = run.next]
  /\ worker' = [worker EXCEPT !.at = "tell"]
  /\ UNCHANGED <<controller, clock, control, queued, said, done, left>>

Tell ==
  /\ worker.at \in {"tell", "reply"}
  /\ \/ Taken /\ worker' = IF worker.at = "tell" THEN [worker EXCEPT !.at = "reply"]
                           ELSE Handled(worker)
     \/ Broken /\ worker' = Leaves(run)
  /\ UNCHANGED <<controller, clock, run, control, said, done, left>>

-----------------------------------------------------------------------------
(* The end                                                                 *)

Conclude == worker.at = "conclude" /\ LastWord(TRUE, "finish")

Finish ==
  /\ worker.at = "finish"
  /\ \/ Taken /\ worker' = Exits("completed") /\ said' = [said EXCEPT !.finished = TRUE]
     \/ Broken /\ worker' = Exits("controller lost") /\ UNCHANGED said
  /\ UNCHANGED <<controller, clock, run, control, done, left>>

(* give_up: the error record, and whether it was taken is not asked.       *)
GiveUp ==
  /\ worker.at = "give up"
  /\ Taken \/ Broken
  /\ worker' = Exits(worker.code)
  /\ UNCHANGED <<controller, clock, run, control, said, done, left>>

(* A call the worker makes fails: the clock, the heartbeat, a placement,   *)
(* a runner that cannot be made or made again, a poll, a write.            *)
Fails ==
  /\ left.mishaps > 0
  /\ \/ /\ worker.at \in {"prepare", "start", "tick", "look", "handle", "report", "make", "tell",
                         "reply", "conclude"}
        /\ worker' = [worker EXCEPT !.at = "give up", !.code = "setup failed"]
     \/ worker.at = "finish" /\ worker' = Exits("setup failed")
  /\ left' = [left EXCEPT !.mishaps = @ - 1]
  /\ UNCHANGED <<controller, clock, run, control, queued, said, done>>

Over == worker.at = "gone" /\ UNCHANGED vars

Units == [computed : {0}, checked : {0}] \cup [computed : {1}, checked : {0, 1}]

Step ==
  \/ Arm \/ Check \/ Exec \/ LaunchFails \/ Started \/ Prepare \/ Start \/ Tick \/ Look
  \/ FindNothing \/ RunnerStopped \/ Report \/ Answer \/ Close \/ Make
  \/ Tell \/ Conclude \/ Finish \/ GiveUp \/ Fails
  \/ \E unit \in Units : Slice(unit)

Next == Environment \/ Step \/ Over

Spec == Init /\ [][Next]_vars

FairSpec == Spec /\ WF_vars(Step) /\ WF_vars(DeathSignal) /\ WF_vars(TimePasses)

-----------------------------------------------------------------------------
(* The variables keep their types.                                         *)
TypeOK ==
  /\ controller \in [is : {"running", "silent", "dead"}, torn : BOOLEAN]
  /\ clock \in [beat : 0 .. StaleAfter + 1, read : 0 .. StaleAfter + 1]
  /\ queued \in 0 .. Room /\ done.tried \in 0 .. MaxUnits
  /\ left \in [messages : 0 .. MaxMessages, mishaps : 0 .. MaxMishaps]

(* A worker whose controller died before the death signal was armed, which *)
(* the kernel will never tell, does not become a worker: it finds out by   *)
(* asking for its parent after arming (become_worker).                     *)
OrphanNeverRuns == worker.orphan => worker.at \in Launching \cup {"gone"}

(* No worker outlives its controller, nor one that stays silent: it sees   *)
(* the stale beat, or the slot it cannot read.  What it cannot get away    *)
(* from is a write into a record pipe that a silent controller left full.  *)
Blocked == queued = Room /\ controller.is = "silent"
LeavesWithController ==
  /\ controller.is = "dead" ~> worker.at = "gone"
  /\ <>[](controller.is = "silent") => <>[](worker.at = "gone" \/ Blocked)

(* Whatever is paused, replaced, refused or cut short, the tally sent and  *)
(* the one the exit states count every unit once, over all runners; a unit *)
(* is tried once, in order; and "nothing was checked" is said of a run     *)
(* that is over and checked nothing, and of no other.                      *)
RunIsAccounted ==
  /\ worker.at \notin {"report", "give up", "gone"} => said.tally = done.units
  /\ worker.code \in {"controller lost", "completed"} => worker.result = done.units
  /\ worker.at # "make" => run.index = done.tried
  /\ said.unchecked => done.units.checked = 0
  /\ said.finished /\ worker.verifies => (said.unchecked <=> done.units.checked = 0)

Lost == worker'.code = "controller lost" /\ worker.code # "controller lost"

(* A controller is called lost if it is dead, its pipe carries what is not *)
(* a message, or it has been silent for the allowance, but for the time    *)
(* since the worker last looked (ControllerWatch::gone counts from there). *)
LeftForCause ==
  [][Lost => \/ controller.is = "dead" \/ worker'.lost = "broken"
             \/ clock.beat + LongestStep > StaleAfter]_vars
=============================================================================
