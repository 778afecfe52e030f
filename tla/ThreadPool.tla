----------------------------- MODULE ThreadPool -----------------------------
(***************************************************************************)
(* The thread pool inside one worker (worker/executor/thread_pool.cpp):    *)
(* its threads started one by one, runs handed to them under one mutex,    *)
(* indices claimed from one atomic counter, and the pool stopped and       *)
(* joined.  Everything but the counter is read and written under mutex_,   *)
(* so a section from lock to unlock, or to wait, is one step; a claim,     *)
(* which takes no lock, is another.  Who is in `asleep` waits on its       *)
(* condition variable; a notification, or nothing at all, wakes it.        *)
(***************************************************************************)
EXTENDS Integers, FiniteSets

CONSTANTS N,          \* threads
          MaxCount,   \* bound: indices of one run
          MaxRuns     \* bound: runs

ASSUME PoolAssumption == N \in Nat \ {0} /\ MaxCount \in Nat /\ MaxRuns \in Nat

Threads == 1 .. N
Owner == 0            \* the thread that owns the pool and calls run

VARIABLES owner,        \* where the owner is
          started,      \* threads started
          generation, count, done, stopping,     \* guarded by mutex_
          next,         \* the atomic index to claim
          thread,       \* where each thread is, and what it has copied
          asleep        \* who is blocked in a wait

vars == <<owner, started, generation, count, done, stopping, next, thread, asleep>>

Init ==
  /\ owner = "making" /\ started = 0
  /\ generation = 0 /\ count = 0 /\ done = 0 /\ stopping = FALSE
  /\ next = 0
  /\ thread = [t \in Threads |-> [at |-> "unborn", reported |-> FALSE, failed |-> FALSE,
                                  seen |-> 0, count |-> 0, index |-> 0]]
  /\ asleep = {}

-----------------------------------------------------------------------------
(* make_thread_pool                                                        *)

(* The loop over the placements.                                           *)
OneTooMany == started <= N
MoreToStart == started < N

(* The owner holds the mutex from the start of the thread to the wait for  *)
(* its report.                                                             *)
Start ==
  /\ owner = "making" /\ MoreToStart
  /\ thread' = [thread EXCEPT ![started + 1].at = "new"]
  /\ started' = started + 1 /\ owner' = "starting"
  /\ asleep' = asleep \cup {Owner}
  /\ UNCHANGED <<generation, count, done, stopping, next>>

StartRefused ==
  /\ owner = "making" /\ MoreToStart
  /\ owner' = "leaving"
  /\ UNCHANGED <<started, generation, count, done, stopping, next, thread, asleep>>

(* The report is in, or it is not and the owner waits on.                  *)
Reported ==
  /\ owner = "starting" /\ Owner \notin asleep
  /\ \/ /\ ~thread[started].reported
        /\ asleep' = asleep \cup {Owner} /\ UNCHANGED owner
     \/ /\ thread[started].reported
        /\ owner' = IF thread[started].failed THEN "leaving" ELSE "making"
        /\ UNCHANGED asleep
  /\ UNCHANGED <<started, generation, count, done, stopping, next, thread>>

Made ==
  /\ owner = "making" /\ ~MoreToStart
  /\ owner' = "ready"
  /\ UNCHANGED <<started, generation, count, done, stopping, next, thread, asleep>>

-----------------------------------------------------------------------------
(* run                                                                     *)

(* What run writes under the mutex before it wakes the threads.            *)
KeepNext(n) == count' = n /\ done' = 0 /\ UNCHANGED next
Hand(n) == count' = n /\ done' = 0 /\ next' = 0

Run(n) ==
  /\ owner = "ready" /\ n > 0 /\ generation < MaxRuns
  /\ Hand(n)
  /\ generation' = generation + 1
  /\ owner' = "running" /\ asleep' = {Owner}
  /\ UNCHANGED <<started, stopping, thread>>

(* It goes back to sleep until every thread is done.                       *)
OneIsEnough == done > 0
AllDone == done = N

RunReturns ==
  /\ owner = "running" /\ Owner \notin asleep
  /\ IF AllDone THEN owner' = "ready" /\ UNCHANGED asleep
     ELSE asleep' = asleep \cup {Owner} /\ UNCHANGED owner
  /\ UNCHANGED <<started, generation, count, done, stopping, next, thread>>

NotifyNobody == asleep
NotifyAll == {}

(* ~ThreadPool: stop, wake every thread, and join those started.           *)
Stop ==
  /\ owner \in {"ready", "leaving"}
  /\ stopping' = TRUE /\ asleep' = NotifyAll
  /\ owner' = "joining"
  /\ UNCHANGED <<started, generation, count, done, next, thread>>

Joined ==
  /\ owner = "joining"
  /\ \A t \in 1 .. started : thread[t].at = "returned"
  /\ owner' = "gone"
  /\ UNCHANGED <<started, generation, count, done, stopping, next, thread, asleep>>

-----------------------------------------------------------------------------
(* serve                                                                   *)

(* After its report, and after each run, a thread tests its wait in the    *)
(* section it is in.                                                       *)
Waits(seen) == generation = seen /\ ~stopping

(* It is placed and checked, or not, and says so.                          *)
Report(t, failed) ==
  /\ thread[t].at = "new"
  /\ thread' = [thread EXCEPT ![t].at = IF failed THEN "returned" ELSE "idle",
                              ![t].reported = TRUE, ![t].failed = failed,
                              ![t].seen = IF failed THEN @ ELSE generation]
  /\ asleep' = (asleep \ {Owner})
                 \cup (IF ~failed /\ Waits(generation) THEN {t} ELSE {})
  /\ UNCHANGED <<owner, started, generation, count, done, stopping, next>>

Wake(t) ==
  /\ thread[t].at = "idle" /\ t \notin asleep
  /\ \/ /\ Waits(thread[t].seen)
        /\ asleep' = asleep \cup {t} /\ UNCHANGED thread
     \/ /\ stopping
        /\ thread' = [thread EXCEPT ![t].at = "returned"] /\ UNCHANGED asleep
     \/ /\ ~stopping /\ generation # thread[t].seen
        /\ thread' = [thread EXCEPT ![t].at = "claim", ![t].seen = generation,
                                    ![t].count = count]
        /\ UNCHANGED asleep
  /\ UNCHANGED <<owner, started, generation, count, done, stopping, next>>

(* fetch_add, and the loop's test.                                         *)
Below(index, n) == index < n

Claim(t) ==
  /\ thread[t].at = "claim"
  /\ next' = next + 1
  /\ thread' = [thread EXCEPT ![t].index = next,
                              ![t].at = IF Below(next, thread[t].count)
                                        THEN "call" ELSE "out"]
  /\ UNCHANGED <<owner, started, generation, count, done, stopping, asleep>>

(* The task returns.                                                       *)
Called(t) ==
  /\ thread[t].at = "call"
  /\ thread' = [thread EXCEPT ![t].at = "claim"]
  /\ UNCHANGED <<owner, started, generation, count, done, stopping, next, asleep>>

(* The last one out wakes the owner.                                       *)
LastWakes(d) == IF d = N THEN {Owner} ELSE {}

Out(t) ==
  /\ thread[t].at = "out"
  /\ done' = done + 1
  /\ thread' = [thread EXCEPT ![t].at = "idle"]
  /\ asleep' = (asleep \ LastWakes(done + 1))
                 \cup (IF Waits(thread[t].seen) THEN {t} ELSE {})
  /\ UNCHANGED <<owner, started, generation, count, stopping, next>>

-----------------------------------------------------------------------------
(* A wait may return for no reason.                                        *)
Spurious ==
  /\ \E x \in asleep : asleep' = asleep \ {x}
  /\ UNCHANGED <<owner, started, generation, count, done, stopping, next, thread>>

Gone == owner = "gone" /\ UNCHANGED vars

ThreadStep(t) ==
  Wake(t) \/ Claim(t) \/ Called(t) \/ Out(t) \/ \E failed \in BOOLEAN : Report(t, failed)

OwnerStep == Reported \/ Made \/ RunReturns \/ Joined

Next ==
  \/ OwnerStep \/ Start \/ StartRefused \/ Stop
  \/ \E n \in 0 .. MaxCount : Run(n)
  \/ \E t \in Threads : ThreadStep(t)
  \/ Spurious \/ Gone

Spec == Init /\ [][Next]_vars

(* Every thread the kernel runs makes progress, and a task returns.        *)
FairSpec == Spec /\ WF_vars(OwnerStep) /\ \A t \in Threads : WF_vars(ThreadStep(t))

-----------------------------------------------------------------------------
(* The variables keep their types.                                         *)
TypeOK ==
  /\ owner \in {"making", "starting", "leaving", "ready", "running", "joining", "gone"}
  /\ started \in 0 .. N
  /\ generation \in Nat /\ count \in Nat /\ done \in Nat /\ next \in Nat
  /\ stopping \in BOOLEAN
  /\ thread \in [Threads -> [at : {"unborn", "new", "idle", "claim", "call", "out",
                                   "returned"},
                             reported : BOOLEAN, failed : BOOLEAN,
                             seen : Nat, count : Nat, index : Nat]]
  /\ asleep \in SUBSET (Threads \cup {Owner})

InLoop(t) == thread[t].at \in {"claim", "call", "out"}

(* No thread claims from one run with another run's count, and none is     *)
(* still in the claim loop once run has returned, or the pool is stopping. *)
NoStraggler ==
  \A t \in Threads : InLoop(t) =>
    owner = "running" /\ thread[t].seen = generation /\ thread[t].count = count

(* The pool as the contract's executor: the indices from `next` on are not *)
(* yet called, and a thread in "call" is in the call of its index.         *)
Contract == INSTANCE Executor WITH
  Slots <- Threads, Counts <- 1 .. MaxCount,
  running <- owner = "running",
  todo <- IF owner = "running" THEN next .. count - 1 ELSE {},
  calling <- [t \in Threads |-> IF thread[t].at = "call" THEN thread[t].index ELSE -1]

(* The pool does nothing the contract of run does not allow.               *)
KeepsContract == Contract!Spec

(* Every run returns: no wake-up is lost between the last thread out and   *)
(* the owner, nor between run and a thread on its way to sleep.            *)
RunsReturn == owner = "running" ~> owner = "ready"

(* Every pool that is stopped, half started or whole, is joined.           *)
StopsJoin == owner = "joining" ~> owner = "gone"

(* Nobody sleeps for ever, in a run or in the destructor.                  *)
NobodySleepsOn == RunsReturn /\ StopsJoin
=============================================================================
