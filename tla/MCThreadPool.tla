---------------------------- MODULE MCThreadPool ----------------------------
(***************************************************************************)
(* A worker process, from its fork to its exit, and the thread pool it     *)
(* runs its slices on.  The process waits for a slice and touches nothing  *)
(* of the pool, so each is explored with the other at rest.                *)
(***************************************************************************)
EXTENDS ThreadPool

VARIABLES part, controller, clock, worker, run, control, queued, said, units, left

processVars == <<controller, clock, worker, run, control, queued, said, units, left>>
Process == INSTANCE Worker WITH done <- units, StaleAfter <- 2, Room <- 1, MaxUnits <- 2,
             MaxMessages <- 2, MaxMishaps <- 1, LongestStep <- 1

WorkerInit == part \in {"pool", "process"} /\ Init /\ Process!Init
PoolPart == part = "pool" /\ UNCHANGED <<part, processVars>>
ProcessPart == part = "process" /\ UNCHANGED <<part, vars>>
WorkerNext == \/ PoolPart /\ Next
              \/ ProcessPart /\ Process!Next

workerVars == <<part, vars, processVars>>
WorkerSpec ==
  /\ WorkerInit /\ [][WorkerNext]_workerVars
  /\ WF_workerVars(PoolPart /\ OwnerStep)
  /\ \A t \in Threads : WF_workerVars(PoolPart /\ ThreadStep(t))
  /\ WF_workerVars(ProcessPart /\ Process!Step)
  /\ WF_workerVars(ProcessPart /\ Process!DeathSignal)
  /\ WF_workerVars(ProcessPart /\ Process!TimePasses)

-----------------------------------------------------------------------------
(* The variables of the pool and of the process keep their types, the      *)
(* pipe and the ages their bounds.                                         *)
TypesOK == TypeOK /\ Process!TypeOK

(* Every unit is tried once and counted once, whatever is replaced; and an *)
(* orphan the kernel will not tell of its parent's death never works.      *)
WorkerIsSound == Process!RunIsAccounted /\ Process!OrphanNeverRuns

(* Nobody waits for ever: no thread of the pool or its owner sleeps on     *)
(* while there is something for it to do, and no worker outlives its       *)
(* controller, or works on for one that stays silent.                      *)
NobodyWaits == NobodySleepsOn /\ Process!LeavesWithController

(* A worker leaves a controller that is gone, and no other.                *)
LeftForCause == Process!LeftForCause
=============================================================================
