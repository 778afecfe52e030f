-------------------------------- MODULE Plan --------------------------------
(***************************************************************************)
(* What a run is made of before it starts: the workers of a configuration  *)
(* (controller/plan.cpp), the schedule of a mixed or a cycling run         *)
(* (workloads/mixed, main/schedules.cpp) and the check of both against the *)
(* memory there is (controller/safety.cpp).  Then the schedule is played:  *)
(* the controller sends each step's commands, and the workers obey them,   *)
(* each at its own pace.                                                   *)
(*                                                                         *)
(* The draws of a seed are part of the request, memory is in small units,  *)
(* and a schedule's labels are the numbers of its steps.                   *)
(***************************************************************************)
EXTENDS Integers, Sequences, FiniteSets, SequencesExt, FiniteSetsExt

CONSTANTS Requests,     \* what is asked for
          MaxSteps,     \* kMaxSteps
          MaxCommands,  \* kMaxCommands
          MinInterval,  \* the shortest default rotation and dwell
          MaxInterval   \* the longest

VARIABLES request, plan, sent, queue, workers

vars == <<request, plan, sent, queue, workers>>

None == -1
Clamp(value) == Max({MinInterval, Min({value, MaxInterval})})
Refused(why) == [is |-> "refused", why |-> why, steps |-> <<>>, start |-> <<>>]

-----------------------------------------------------------------------------
(* config: the memory there is, and what an entry asks of it.              *)
CeilingOf(budget) == IF budget.limit # None THEN Min({budget.available, budget.limit}) ELSE budget.available
ResolveMemory(size, budget) ==
  LET ceiling == CeilingOf(budget) IN
  IF size.percent = None THEN IF size.bytes > ceiling THEN None ELSE size.bytes
  ELSE ((ceiling \div 100) * size.percent) + (((ceiling % 100) * size.percent) \div 100)

-----------------------------------------------------------------------------
(* plan.cpp: the CPUs of a slot, a block of the list that wraps around.    *)
AssignCpus(slot, threads, all) ==
  [i \in 1 .. Min({threads, Len(all)}) |-> all[((((slot * threads) % Len(all)) + i - 1) % Len(all)) + 1]]

(* select_path: the widest that the machine and the build have.            *)
Preference == <<"avx512", "avx2", "neon", "scalar">>
Widest(set) == IF set = {} THEN "scalar" ELSE SelectSeq(Preference, LAMBDA path : path \in set)[1]
SelectPath(requested, supported, compiled) ==
  CASE requested = "none" -> Widest(supported \cap compiled)
    [] requested = "scalar" -> "scalar"
    [] requested \notin {"none", "scalar"} /\ requested \notin compiled -> "not compiled"
    [] requested \notin {"none", "scalar"} /\ requested \in compiled ->
         IF requested \in supported THEN requested ELSE "not supported"
AnyKernel(requested, supported, compiled, paths) == SelectPath(requested, supported, compiled)
ChooseIsa(requested, supported, compiled, paths) ==
  IF requested = "none" THEN SelectPath("none", supported, compiled \cap paths)
  ELSE IF requested \notin paths THEN "not compiled"
  ELSE SelectPath(requested, supported, compiled)

(* plan_worker: a name the registry does not know is a null workload.      *)
NullWork == [is |-> "null", cpus |-> <<>>, threads |-> 1, bytes |-> 0, isa |-> "scalar", core |-> None]
NoWork(why) == [NullWork EXCEPT !.is = why]
Footprint(entry, r) ==
  IF entry.memory.bytes = None /\ entry.memory.percent = None THEN r.footprint
  ELSE IF r.budget.available # None THEN ResolveMemory(entry.memory, r.budget)
  ELSE IF entry.memory.percent = None THEN entry.memory.bytes ELSE r.footprint
Threads(entry, r) == IF entry.threads = "all" THEN Max({Len(r.cpus), 1}) ELSE 2
CpusOf(entry, slot, r) ==
  IF r.cpus = <<>> THEN <<>> ELSE IF entry.threads = "all" THEN r.cpus ELSE AssignCpus(slot, Threads(entry, r), r.cpus)
PlanWorker(entry, slot, r) ==
  LET isa == ChooseIsa(r.isa, r.supported, r.compiled, entry.paths)
      cpus == CpusOf(entry, slot, r)
      bytes == Footprint(entry, r) IN
  IF ~entry.known THEN NullWork
  ELSE IF r.line = 0 THEN NoWork("no line size")
  ELSE IF bytes = None THEN NoWork("memory")
  ELSE IF isa \in {"not compiled", "not supported"} THEN NoWork(isa)
  ELSE IF bytes < entry.least THEN NoWork("too small")
  ELSE [is |-> "planned", cpus |-> cpus, threads |-> Threads(entry, r), bytes |-> bytes, isa |-> isa,
        core |-> IF Len(cpus) = 1 THEN cpus[1] ELSE None]

-----------------------------------------------------------------------------
(* roster.cpp: the least footprint, in doublings, that a workload accepts. *)
Doublings == {1, 2, 4, 8}
Creatable(r, name, bytes) == r.accepts[name] <= bytes
RosterOf(r) ==
  LET fits(name) == {bytes \in Doublings : bytes <= r.footprint /\ Creatable(r, name, bytes)} IN
  SelectSeq([i \in DOMAIN r.registry |->
               [name |-> r.registry[i], least |-> IF fits(r.registry[i]) = {} THEN None ELSE Min(fits(r.registry[i]))]],
            LAMBDA entry : entry.least # None)

(* mixed.cpp                                                               *)
Classify(name) == CASE name \in {"dense", "fft"} -> "compute" [] name \in {"sort", "sparse"} -> "memory" [] OTHER -> "balanced"
PhasePlan == <<"mixed", "compute", "memory", "balanced", "join">>
MoveEvery == 3
PoolOf(usable, wanted) == SelectSeq(usable, LAMBDA entry : Classify(entry.name) = wanted)
Narrowed(kind, usable, slot) ==
  CASE kind \in {"compute", "memory"} -> PoolOf(usable, kind)
    [] kind = "balanced" -> PoolOf(usable, IF slot % 2 = 0 THEN "compute" ELSE "memory")
    [] OTHER -> <<>>
Spread(kind, slot) == IF kind = "join" THEN 0 ELSE slot
Pick(kind, usable, r, rotation, slot) ==
  LET pool == IF Narrowed(kind, usable, slot) = <<>> THEN usable ELSE Narrowed(kind, usable, slot) IN
  pool[((r.draws[rotation] + Spread(kind, slot)) % Len(pool)) + 1]

Command(does, name, bytes, cpus, busy) == [do |-> does, name |-> name, bytes |-> bytes, cpus |-> cpus, busy |-> busy]
SizeOf(entry, r, rotation, slot) ==
  LET size == IF <<rotation, slot>> \in r.halves THEN r.footprint \div 2 ELSE r.footprint IN
  IF size < entry.least THEN r.footprint ELSE size
Assignment(entry, r, rotation, slot) == Command("switch", entry.name, SizeOf(entry, r, rotation, slot), <<>>, 0)

Rotation(r) == IF r.interval # None THEN r.interval ELSE Clamp(r.duration \div 6)
RotationsOf(r) == (r.duration - 1) \div Rotation(r)
Placements(r) ==
  IF r.workers >= 2 /\ Len(r.cpus) >= 2 THEN [s \in 1 .. r.workers |-> AssignCpus(s - 1, 1, r.cpus)] ELSE <<>>
Moves(r, rotation) == Placements(r) # <<>> /\ rotation % MoveEvery = 0
KindAt(rotation) == PhasePlan[(rotation % Len(PhasePlan)) + 1]
CommandAt(r, usable, rotation, slot) ==
  IF Moves(r, rotation)
  THEN Command("rebind", "", 0, Placements(r)[((slot + (rotation \div MoveEvery)) % Len(Placements(r))) + 1], 0)
  ELSE Assignment(Pick(KindAt(rotation), usable, r, rotation, slot), r, rotation, slot)
StepOf(r, usable, rotation) ==
  [at |-> rotation * Rotation(r), phase |-> rotation,
   workers |-> [s \in 1 .. r.workers |-> [slot |-> s - 1, commands |-> <<CommandAt(r, usable, rotation, s - 1)>>]]]

RefusalOf(r) ==
  \/ r.workers = 0 \/ r.duration <= 0 \/ Rotation(r) <= 0 \/ r.footprint = 0
  \/ RotationsOf(r) > MaxSteps \/ r.workers > MaxCommands \div (RotationsOf(r) + 1)
  \/ Len(Placements(r)) = 1
MakeMixed(r) ==
  LET usable == SelectSeq(RosterOf(r), LAMBDA entry : entry.least <= r.footprint) IN
  IF RefusalOf(r) THEN Refused("options")
  ELSE IF usable = <<>> THEN Refused("footprint")
  ELSE [is |-> "made", why |-> "",
        start |-> [s \in 1 .. r.workers |-> Assignment(Pick("mixed", usable, r, 0, s - 1), r, 0, s - 1)],
        steps |-> [i \in 1 .. RotationsOf(r) |-> StepOf(r, usable, i)]]

(* cycling.cpp: the commands that bring a worker to a level, from where    *)
(* the schedule left it.                                                   *)
LoadLevels == <<0, 1000, 500, 1000>>
CoreLevels == <<125, 500, 1000, 250, 1000>>
Dwell(r) == IF r.interval # None THEN r.interval ELSE Clamp(r.duration \div 8)
Levels(r) == ((r.duration - 1) \div Dwell(r)) + 1
After(state, busy) == IF busy = 0 THEN [paused |-> TRUE, busy |-> state.busy] ELSE [paused |-> FALSE, busy |-> busy]
TowardsLoad(state, busy) ==
  IF busy = 0 THEN IF state.paused THEN <<>> ELSE <<Command("pause", "", 0, <<>>, 0)>>
  ELSE (IF state.paused THEN <<Command("resume", "", 0, <<>>, 0)>> ELSE <<>>)
       \o (IF state.busy # busy THEN <<Command("duty", "", 0, <<>>, busy)>> ELSE <<>>)
Working(r, level) == Max({1, (r.workers * CoreLevels[(level % Len(CoreLevels)) + 1]) \div 1000})
Wanted(r, level, slot) ==
  IF r.kind = "load" THEN LoadLevels[(level % Len(LoadLevels)) + 1]
  ELSE IF slot < Working(r, level) THEN 1000 ELSE 0
States(r) ==
  LET at[level \in 0 .. Levels(r)] ==
        IF level = 0 THEN [slot \in 0 .. r.workers - 1 |-> [paused |-> FALSE, busy |-> 1000]]
        ELSE [slot \in 0 .. r.workers - 1 |-> After(at[level - 1][slot], Wanted(r, level - 1, slot))]
  IN at
MakeCycling(r) ==
  IF r.workers = 0 \/ r.duration <= 0 \/ Dwell(r) <= 0 \/ Levels(r) > MaxSteps \/ r.workers > MaxCommands \div Levels(r)
  THEN Refused("options")
  ELSE [is |-> "made", why |-> "", start |-> <<>>,
        steps |-> [i \in 1 .. Levels(r) |->
          [at |-> (i - 1) * Dwell(r), phase |-> i,
           workers |-> SelectSeq([s \in 1 .. r.workers |->
             [slot |-> s - 1, commands |-> TowardsLoad(States(r)[i - 1][s - 1], Wanted(r, i - 1, s - 1))]],
             LAMBDA each : each.commands # <<>>)]]]

(* schedule.cpp: what the controller refuses to play.                      *)
Problem(schedule, count) ==
  \/ schedule.start # <<>> /\ Len(schedule.start) # count
  \/ \E i \in DOMAIN schedule.start : schedule.start[i].bytes = 0
  \/ \E i, j \in DOMAIN schedule.steps : i # j /\ schedule.steps[i].phase = schedule.steps[j].phase
  \/ \E i \in 2 .. Len(schedule.steps) : schedule.steps[i].at < schedule.steps[i - 1].at
  \/ \E i \in DOMAIN schedule.steps : \E each \in Range(schedule.steps[i].workers) :
       \/ each.slot >= count
       \/ \E command \in Range(each.commands) :
            \/ command.do = "rebind" /\ command.cpus = <<>>
            \/ command.do = "switch" /\ command.bytes = 0
            \/ command.do = "duty" /\ command.busy \notin 1 .. 1000

-----------------------------------------------------------------------------
(* safety.cpp: the most that is held when a step is done, over all steps.  *)
Sum(held) == FoldFunction(LAMBDA a, b : a + b, 0, held)
HeldAfter(held, step) ==
  [slot \in DOMAIN held |->
     LET changes == {c \in UNION {Range(each.commands) : each \in {e \in Range(step.workers) : e.slot = slot}} : c.do = "switch"} IN
     IF changes = {} THEN held[slot] ELSE (CHOOSE c \in changes : TRUE).bytes]
StartOnly(schedule, held) == Sum(held)
PeakOf(schedule, held) ==
  LET at[i \in 0 .. Len(schedule.steps)] == IF i = 0 THEN held ELSE HeldAfter(at[i - 1], schedule.steps[i])
  IN Max({Sum(at[i]) : i \in 0 .. Len(schedule.steps)})
Launched(r, schedule) ==
  [slot \in 0 .. r.workers - 1 |-> IF schedule.start # <<>> THEN schedule.start[slot + 1].bytes
                                   ELSE IF r.memory = None THEN 0 ELSE r.memory]
CheckMemory(r, schedule) ==
  LET total == PeakOf(schedule, Launched(r, schedule)) IN
  \/ r.budget.available = None
  \/ /\ \A slot \in 0 .. r.workers - 1 :
          ResolveMemory([bytes |-> Launched(r, schedule)[slot], percent |-> None], r.budget) # None
     /\ total <= CeilingOf(r.budget)
     /\ r.limit # None => r.limit <= CeilingOf(r.budget) /\ total <= r.limit

-----------------------------------------------------------------------------
Init ==
  /\ request \in Requests
  /\ plan = [is |-> "none", why |-> "", steps |-> <<>>, start |-> <<>>]
  /\ sent = 0 /\ queue = <<>> /\ workers = <<>>

Make ==
  /\ plan.is = "none" /\ request.kind # "plan"
  /\ LET made == IF request.kind = "mixed" THEN MakeMixed(request) ELSE MakeCycling(request) IN
     plan' = IF made.is = "made" /\ Problem(made, request.workers) THEN Refused("problem")
             ELSE IF made.is = "made" /\ ~CheckMemory(request, made) THEN Refused("memory")
             ELSE made
  /\ UNCHANGED <<request, sent, queue, workers>>

PlanWorkers ==
  /\ plan.is = "none" /\ request.kind = "plan"
  /\ LET made == [i \in DOMAIN request.entries |-> PlanWorker(request.entries[i], i - 1, request)]
         bad == {i \in DOMAIN made : made[i].is \notin {"null", "planned"}} IN
     /\ plan' = IF bad # {} THEN Refused(made[Min(bad)].is) ELSE [plan EXCEPT !.is = "planned", !.start = made]
  /\ UNCHANGED <<request, sent, queue, workers>>

Launch ==
  /\ plan.is = "made" /\ workers = <<>>
  /\ workers' = [s \in 1 .. request.workers |->
       [name |-> IF plan.start # <<>> THEN plan.start[s].name ELSE "one", bytes |-> Launched(request, plan)[s - 1],
        cpus |-> IF request.cpus = <<>> THEN <<>> ELSE AssignCpus(s - 1, 1, request.cpus), paused |-> FALSE, busy |-> 1000]]
  /\ queue' = [s \in 1 .. request.workers |-> <<>>]
  /\ UNCHANGED <<request, plan, sent>>

CommandsFor(step, slot) ==
  LET mine == SelectSeq(step.workers, LAMBDA each : each.slot = slot) IN IF mine = <<>> THEN <<>> ELSE mine[1].commands
Send ==
  /\ workers # <<>> /\ sent < Len(plan.steps)
  /\ sent' = sent + 1
  /\ queue' = [s \in DOMAIN queue |-> queue[s] \o CommandsFor(plan.steps[sent + 1], s - 1)]
  /\ UNCHANGED <<request, plan, workers>>

(* The worker's side: VerifiedRun::apply.                                  *)
Obeyed(w, c) ==
  CASE c.do = "switch" -> [w EXCEPT !.name = c.name, !.bytes = c.bytes]
    [] c.do = "rebind" -> [w EXCEPT !.cpus = c.cpus]
    [] c.do = "pause" -> [w EXCEPT !.paused = TRUE]
    [] c.do = "resume" -> [w EXCEPT !.paused = FALSE]
    [] c.do = "duty" -> [w EXCEPT !.busy = c.busy]
Obey(s) ==
  /\ queue[s] # <<>>
  /\ workers' = [workers EXCEPT ![s] = Obeyed(@, Head(queue[s]))]
  /\ queue' = [queue EXCEPT ![s] = Tail(@)]
  /\ UNCHANGED <<request, plan, sent>>

Finished == \/ plan.is \in {"refused", "planned"}
            \/ workers # <<>> /\ sent = Len(plan.steps) /\ \A s \in DOMAIN queue : queue[s] = <<>>
Over == Finished /\ UNCHANGED vars
Next == Make \/ PlanWorkers \/ Launch \/ Send \/ Over \/ \E s \in DOMAIN queue : Obey(s)

Spec == Init /\ [][Next]_vars

-----------------------------------------------------------------------------
AtRest == workers # <<>> /\ \A s \in DOMAIN queue : queue[s] = <<>>
Held == Sum([s \in DOMAIN workers |-> workers[s].bytes])
Placed(cpus) == Cardinality({s \in DOMAIN workers : workers[s].cpus = cpus})
Everyone(class) == \A s \in DOMAIN workers : Classify(workers[s].name) = class
Has(class) == \E i \in DOMAIN RosterOf(request) : Classify(RosterOf(request)[i].name) = class
Changed == IF sent > 0 /\ Moves(request, sent) THEN sent - 1 ELSE sent

(* Once the workers have obeyed the steps that were sent, they are where   *)
(* the schedule says: a mixed run's hold what their workload accepts, run  *)
(* the class of the phase, and share the CPUs out as at the start; a       *)
(* cycling run's are at the level, however they came to it.  What they     *)
(* hold is within the ceiling (make_mixed, make_cycling, peak_of).         *)
ScheduleIsKept ==
  AtRest =>
    /\ request.kind = "mixed" =>
         /\ \A s \in DOMAIN workers : Creatable(request, workers[s].name, workers[s].bytes)
         /\ \A s \in DOMAIN workers :
              request.cpus # <<>> => Placed(workers[s].cpus) =
                Cardinality({t \in DOMAIN workers : AssignCpus(t - 1, 1, request.cpus) = workers[s].cpus})
         /\ \A class \in {"compute", "memory"} : KindAt(Changed) = class /\ Has(class) => Everyone(class)
         /\ KindAt(Changed) = "join" => \A s, t \in DOMAIN workers : workers[s].name = workers[t].name
    /\ request.kind = "load" /\ sent > 0 =>
         \A s \in DOMAIN workers : IF workers[s].paused THEN Wanted(request, sent - 1, s - 1) = 0
                                   ELSE workers[s].busy = Wanted(request, sent - 1, s - 1)
    /\ request.kind = "cores" /\ sent > 0 =>
         Cardinality({s \in DOMAIN workers : ~workers[s].paused /\ workers[s].busy = 1000}) = Working(request, sent - 1)
    /\ request.budget.available # None => Held <= CeilingOf(request.budget)

(* A planned worker can be run: it has a path that the machine, the build  *)
(* and its own kernels have, no CPU twice and none that is not the run's,  *)
(* and no more memory than there is; and two workers share a CPU only if   *)
(* there are not enough (plan_worker, assign_cpus, choose_isa).            *)
PlanIsRunnable ==
  plan.is = "planned" =>
    \A i \in DOMAIN plan.start : plan.start[i].is = "planned" =>
      /\ plan.start[i].isa \in (request.supported \cap request.compiled \cap request.entries[i].paths) \cup {"scalar"}
      /\ request.isa # "none" => plan.start[i].isa = request.isa
      /\ IsInjective(plan.start[i].cpus) /\ Range(plan.start[i].cpus) \subseteq Range(request.cpus)
      /\ (request.budget.available # None /\ request.entries[i].memory.bytes # None) =>
           plan.start[i].bytes <= CeilingOf(request.budget)
      /\ \A j \in DOMAIN plan.start :
           (/\ j # i /\ request.entries[i].threads # "all" /\ request.entries[j].threads # "all"
            /\ Range(plan.start[i].cpus) \cap Range(plan.start[j].cpus) # {})
           => Len(request.cpus) < 2 * Len(request.entries)

(* The plan and the play of it keep their types.                           *)
TypeOK ==
  /\ plan.is \in {"none", "refused", "made", "planned"} /\ sent \in 0 .. Len(plan.steps)
  /\ \A s \in DOMAIN workers : workers[s].bytes \in Nat /\ workers[s].busy \in 1 .. 1000
=============================================================================
