-------------------------- MODULE ThreadPoolProofs --------------------------
(***************************************************************************)
(* The hand-off protocol for any number of threads, indices and runs.  The *)
(* inductive invariant is what the comment above the class argues: `done`  *)
(* counts the threads that have left the claim loop of this run, one that  *)
(* has left it saw the counter at or past the count, and between runs      *)
(* every thread waits for a generation it has not seen.                    *)
(***************************************************************************)
EXTENDS ThreadPool, FiniteSetTheorems, TLAPS

Finished == {t \in Threads : thread[t].at = "idle" /\ thread[t].seen = generation}

(* The claim loop: distinct indices below both bounds, and none left once  *)
(* a thread has come out of it.                                            *)
Claims ==
  /\ \A t \in Threads : thread[t].seen <= generation
  /\ \A t \in Threads : thread[t].at = "call" =>
       thread[t].index < next /\ thread[t].index < count
  /\ \A s, t \in Threads : thread[s].at = "call" /\ thread[t].at = "call" /\ s # t =>
       thread[s].index # thread[t].index
  /\ \A t \in Threads : thread[t].at = "out" => next >= count

DoneCounts ==
  owner = "running" =>
    /\ \A t \in Threads : thread[t].at = "idle" \/ InLoop(t)
    /\ done = Cardinality(Finished)
    /\ \A t \in Finished : next >= count

(* The threads while no run is under way.                                  *)
Between ==
  /\ owner \in {"making", "starting", "leaving", "ready"} =>
       /\ ~stopping
       /\ \A t \in Threads : thread[t].at = "idle" => thread[t].seen = generation
  /\ owner = "running" => ~stopping
  /\ owner \in {"joining", "gone"} => stopping
  /\ owner = "ready" => \A t \in Threads : thread[t].at = "idle"
  /\ owner = "making" => \A t \in 1 .. started : thread[t].at = "idle"
  /\ owner = "starting" =>
       /\ started >= 1
       /\ \A t \in 1 .. started - 1 : thread[t].at = "idle"
       /\ thread[started].reported /\ ~thread[started].failed =>
            thread[started].at = "idle"
  /\ \A t \in Threads : t > started =>
       thread[t].at = "unborn" /\ ~thread[t].reported

IInv == TypeOK /\ NoStraggler /\ Claims /\ DoneCounts /\ Between

Located == {"unborn", "new", "idle", "claim", "call", "out", "returned"}
ThreadRecord == [at : Located, reported : BOOLEAN, failed : BOOLEAN,
                 seen : Nat, count : Nat, index : Nat]

-----------------------------------------------------------------------------
(* A pool not yet started satisfies the invariant.                         *)
LEMMA InitInv == Init => IInv
<1> SUFFICES ASSUME Init PROVE IInv
  OBVIOUS
<1> USE PoolAssumption DEF Init
<1>a. thread \in [Threads -> ThreadRecord]
  BY DEF ThreadRecord, Located
<1>1. TypeOK
  <2>1. /\ owner = "making" /\ stopping \in BOOLEAN
        /\ asleep \in SUBSET (Threads \cup {Owner})
    OBVIOUS
  <2>2. /\ started \in 0 .. N
        /\ generation \in Nat /\ count \in Nat /\ done \in Nat /\ next \in Nat
    OBVIOUS
  <2> QED
    BY <1>a, <2>1, <2>2 DEF TypeOK, ThreadRecord, Located
<1>2. NoStraggler /\ Claims /\ DoneCounts
  BY DEF NoStraggler, InLoop, Claims, DoneCounts
<1>3. Between
  BY DEF Between, Threads
<1> QED
  BY <1>1, <1>2, <1>3 DEF IInv

(* The threads are finitely many, and N of them.                           *)
LEMMA ThreadsFinite == IsFiniteSet(Threads) /\ Cardinality(Threads) = N
<1>1. N \in Nat /\ N >= 1
  BY PoolAssumption
<1> QED
  BY <1>1, FS_Interval, 1 \in Int, N \in Int DEF Threads

(* A thread that cannot be started ends the making.                        *)
LEMMA StartRefusedInv ==
  ASSUME IInv, StartRefused
  PROVE  IInv'
<1> USE PoolAssumption DEF IInv, StartRefused, Threads, Owner
<1>1. TypeOK'
  BY DEF TypeOK
<1>2. NoStraggler'
  BY DEF NoStraggler, InLoop, Between, TypeOK
<1>3. Claims'
  BY DEF Claims
<1>4. DoneCounts'
  BY DEF DoneCounts, Finished, InLoop
<1>5. Between'
  BY DEF Between, TypeOK, NoStraggler, InLoop, MoreToStart
<1> QED
  BY <1>1, <1>2, <1>3, <1>4, <1>5 DEF IInv

(* The owner takes the report of the thread it started.                    *)
LEMMA ReportedInv ==
  ASSUME IInv, Reported
  PROVE  IInv'
<1> USE PoolAssumption DEF IInv, Reported, Threads, Owner
<1>1. TypeOK'
  BY DEF TypeOK
<1>2. NoStraggler'
  BY DEF NoStraggler, InLoop, Between, TypeOK
<1>3. Claims'
  BY DEF Claims
<1>4. DoneCounts'
  BY DEF DoneCounts, Finished, InLoop
<1>a. started \in Nat /\ started >= 1
  BY DEF TypeOK, Between
<1>5. Between'
  <2>1. CASE ~thread[started].reported
    BY <2>1 DEF Between
  <2>2. CASE thread[started].reported /\ thread[started].failed
    BY <2>2 DEF Between
  <2>3. CASE thread[started].reported /\ ~thread[started].failed
    <3>1. \A t \in 1 .. started : thread[t].at = "idle"
      BY <1>a, <2>3 DEF Between
    <3> QED
      BY <2>3, <3>1 DEF Between
  <2> QED
    BY <2>1, <2>2, <2>3
<1> QED
  BY <1>1, <1>2, <1>3, <1>4, <1>5 DEF IInv

(* The last thread is started.                                             *)
LEMMA MadeInv ==
  ASSUME IInv, Made
  PROVE  IInv'
<1> USE PoolAssumption DEF IInv, Made, Threads, Owner
<1>1. TypeOK'
  BY DEF TypeOK
<1>2. NoStraggler'
  BY DEF NoStraggler, InLoop, Between, TypeOK
<1>3. Claims'
  BY DEF Claims
<1>4. DoneCounts'
  BY DEF DoneCounts, Finished, InLoop
<1>5. Between'
  BY DEF Between, TypeOK, NoStraggler, InLoop, MoreToStart
<1> QED
  BY <1>1, <1>2, <1>3, <1>4, <1>5 DEF IInv

(* The destructor stops the threads.                                       *)
LEMMA StopInv ==
  ASSUME IInv, Stop
  PROVE  IInv'
<1> USE PoolAssumption DEF IInv, Stop, NotifyAll, Threads, Owner
<1>1. TypeOK'
  BY DEF TypeOK
<1>2. NoStraggler'
  BY DEF NoStraggler, InLoop, Between, TypeOK
<1>3. Claims'
  BY DEF Claims
<1>4. DoneCounts'
  BY DEF DoneCounts, Finished, InLoop
<1>5. Between'
  BY DEF Between, TypeOK, NoStraggler, InLoop, MoreToStart
<1> QED
  BY <1>1, <1>2, <1>3, <1>4, <1>5 DEF IInv

(* The started threads are joined.                                         *)
LEMMA JoinedInv ==
  ASSUME IInv, Joined
  PROVE  IInv'
<1> USE PoolAssumption DEF IInv, Joined, Threads, Owner
<1>1. TypeOK'
  BY DEF TypeOK
<1>2. NoStraggler'
  BY DEF NoStraggler, InLoop, Between, TypeOK
<1>3. Claims'
  BY DEF Claims
<1>4. DoneCounts'
  BY DEF DoneCounts, Finished, InLoop
<1>5. Between'
  BY DEF Between, TypeOK, NoStraggler, InLoop, MoreToStart
<1> QED
  BY <1>1, <1>2, <1>3, <1>4, <1>5 DEF IInv

(* A wait that returns for no reason.                                      *)
LEMMA SpuriousInv ==
  ASSUME IInv, Spurious
  PROVE  IInv'
<1> USE PoolAssumption DEF IInv, Spurious, Threads, Owner
<1>1. TypeOK'
  BY DEF TypeOK
<1>2. NoStraggler'
  BY DEF NoStraggler, InLoop, Between, TypeOK
<1>3. Claims'
  BY DEF Claims
<1>4. DoneCounts'
  BY DEF DoneCounts, Finished, InLoop
<1>5. Between'
  BY DEF Between, TypeOK, NoStraggler, InLoop, MoreToStart
<1> QED
  BY <1>1, <1>2, <1>3, <1>4, <1>5 DEF IInv

(* A thread is started, and the owner waits for its report.                *)
LEMMA StartInv ==
  ASSUME IInv, Start
  PROVE  IInv'
<1> USE PoolAssumption DEF IInv, Start, MoreToStart
<1>a. started + 1 \in Threads /\ started \in 0 .. N
  BY DEF TypeOK, Threads
<1>b. thread \in [Threads -> ThreadRecord]
  BY DEF TypeOK, ThreadRecord, Located
<1>c. thread' \in [Threads -> ThreadRecord]
  BY <1>a, <1>b DEF ThreadRecord, Located
<1>d. \A t \in Threads : t # started + 1 => thread'[t] = thread[t]
  BY <1>b
<1>e. thread'[started + 1] = [thread[started + 1] EXCEPT !.at = "new"]
  BY <1>a, <1>b
<1>f. /\ thread'[started + 1].at = "new"
      /\ thread'[started + 1].reported = thread[started + 1].reported
      /\ thread'[started + 1].seen = thread[started + 1].seen
  BY <1>a, <1>b, <1>e DEF ThreadRecord
<1>1. TypeOK'
  <2>1. started' \in 0 .. N
    BY <1>a DEF TypeOK, Threads
  <2>2. asleep' \subseteq Threads \cup {Owner}
    BY DEF TypeOK
  <2>3. thread' \in [Threads -> [at : Located, reported : BOOLEAN, failed : BOOLEAN,
                                seen : Nat, count : Nat, index : Nat]]
    BY <1>c DEF ThreadRecord
  <2> QED
    BY <2>1, <2>2, <2>3 DEF TypeOK, Located
<1>2. NoStraggler'
  BY <1>d, <1>f DEF NoStraggler, InLoop
<1>3. Claims'
  BY <1>d, <1>f DEF Claims
<1>4. DoneCounts'
  BY DEF DoneCounts
<1>5. Between'
  BY <1>a, <1>d, <1>f DEF Between, Threads
<1> QED
  BY <1>1, <1>2, <1>3, <1>4, <1>5

(* A run is handed over: no thread has seen its generation.                *)
LEMMA RunInv ==
  ASSUME IInv, NEW n \in 0 .. MaxCount, Run(n)
  PROVE  IInv'
<1> USE PoolAssumption DEF IInv, Run, Hand
<1>1. TypeOK'
  BY DEF TypeOK, Owner
<1>2. NoStraggler' /\ Between'
  BY DEF NoStraggler, InLoop, Between
<1>3. Claims'
  BY DEF Claims, Between, TypeOK
<1>4. Finished' = {}
  BY DEF Finished, Between, TypeOK
<1>5. DoneCounts'
  BY <1>4, FS_EmptySet DEF DoneCounts, Between
<1> QED
  BY <1>1, <1>2, <1>3, <1>5

(* When every thread is done, every thread waits, and the run returns.     *)
LEMMA RunReturnsInv ==
  ASSUME IInv, RunReturns
  PROVE  IInv'
<1> USE PoolAssumption DEF IInv, RunReturns
<1>1. TypeOK'
  BY DEF TypeOK
<1>2. Claims'
  BY DEF Claims
<1>3. CASE AllDone
  <2>1. Finished = Threads
    <3>1. Finished \in SUBSET Threads
      BY DEF Finished
    <3>2. Cardinality(Finished) = N
      BY <1>3 DEF AllDone, DoneCounts
    <3> QED
      BY <3>1, <3>2, ThreadsFinite, FS_Subset
  <2>2. \A t \in Threads : thread[t].at = "idle" /\ thread[t].seen = generation
    BY <2>1 DEF Finished
  <2>3. NoStraggler' /\ DoneCounts' /\ Between'
    BY <1>3, <2>2 DEF NoStraggler, InLoop, DoneCounts, Between
  <2> QED
    BY <1>1, <1>2, <2>3
<1>4. CASE ~AllDone
  <2>1. NoStraggler' /\ DoneCounts' /\ Between'
    BY <1>4 DEF NoStraggler, InLoop, DoneCounts, Between, Finished
  <2> QED
    BY <1>1, <1>2, <2>1
<1> QED
  BY <1>3, <1>4

(* A new thread reports, which only happens while the owner waits for it.  *)
LEMMA ReportInv ==
  ASSUME IInv, NEW t \in Threads, NEW failed \in BOOLEAN, Report(t, failed)
  PROVE  IInv'
<1> USE PoolAssumption DEF IInv, Report
<1>b. thread \in [Threads -> ThreadRecord]
  BY DEF TypeOK, ThreadRecord, Located
<1>c. generation \in Nat
  BY DEF TypeOK
<1>d. thread' \in [Threads -> ThreadRecord]
  <2> DEFINE r == [thread[t] EXCEPT !.at = IF failed THEN "returned" ELSE "idle",
                     !.reported = TRUE, !.failed = failed,
                     !.seen = IF failed THEN @ ELSE generation]
  <2>1. r \in ThreadRecord
    BY <1>b, <1>c DEF ThreadRecord, Located
  <2>2. thread' = [thread EXCEPT ![t] = r]
    BY <1>b
  <2> QED
    BY <1>b, <2>1, <2>2
<1>e. \A u \in Threads : u # t => thread'[u] = thread[u]
  BY <1>b
<1>f. /\ thread'[t].at = IF failed THEN "returned" ELSE "idle"
      /\ thread'[t].failed = failed
      /\ thread'[t].reported
      /\ thread'[t].seen = IF failed THEN thread[t].seen ELSE generation
  BY <1>b DEF ThreadRecord
<1>g. owner \notin {"running", "ready"} /\ thread[t].at = "new"
  BY DEF DoneCounts, InLoop, Between
<1>1. TypeOK'
  BY <1>d DEF TypeOK, ThreadRecord, Located, Owner
<1>h. /\ thread'[t].at \notin {"claim", "call", "out"}
      /\ thread'[t].seen <= generation
  BY <1>c, <1>f DEF Claims
<1>2. NoStraggler'
  BY <1>e, <1>h DEF NoStraggler, InLoop
<1>3. Claims'
  <2>1. UNCHANGED <<generation, count, next>>
    OBVIOUS
  <2> HIDE DEF Report
  <2> QED
    BY <1>c, <1>e, <1>h, <2>1 DEF Claims
<1>4. DoneCounts'
  BY <1>g DEF DoneCounts
<1>5. t <= started
  <2>1. t \in Nat /\ started \in Nat
    BY DEF TypeOK, Threads
  <2>2. ~(t > started)
    BY <1>g DEF Between
  <2> QED
    BY <2>1, <2>2
<1>6. Between'
  <2>1. /\ t \in Nat /\ started \in Nat
        /\ owner' = owner /\ started' = started /\ generation' = generation
        /\ stopping' = stopping
    BY DEF TypeOK, Threads
  <2>2. \A u \in Threads : thread'[u].at = "idle" =>
          thread[u].at = "idle" \/ thread'[u].seen = generation
    <3>1. thread'[t].at = "idle" => thread'[t].seen = generation
      BY <1>f
    <3> HIDE DEF Report
    <3> QED
      BY <1>e, <3>1
  <2>3. \A u \in Threads : u > started =>
          thread'[u].at = "unborn" /\ ~thread'[u].reported
    BY <1>e, <1>5, <2>1 DEF Between, Threads
  <2>4. owner # "making"
    BY <1>g, <1>5, <2>1 DEF Between, Threads
  <2>5. owner = "starting" => started >= 1 /\ t = started
    BY <1>g, <1>5, <2>1 DEF Between, Threads
  <2>6. owner = "starting" => \A u \in 1 .. started - 1 : thread'[u].at = "idle"
    BY <1>e, <2>1, <2>5 DEF Between, Threads, TypeOK
  <2>7. owner = "starting" /\ ~thread'[started].failed => thread'[started].at = "idle"
    BY <1>f, <2>5
  <2>8. \A u \in Threads : thread'[u].at = "idle" /\ thread[u].at = "idle" =>
          thread'[u].seen = thread[u].seen
    BY <1>e, <1>g
  <2>9. owner \in {"making", "starting", "leaving", "ready"} =>
          \A u \in Threads : thread'[u].at = "idle" => thread'[u].seen = generation
    BY <2>2, <2>8 DEF Between
  <2> HIDE DEF Report
  <2> QED
    BY <1>g, <2>1, <2>3, <2>4, <2>5, <2>6, <2>7, <2>9 DEF Between
<1> QED
  BY <1>1, <1>2, <1>3, <1>4, <1>6

(* A thread that wakes waits on, returns, or enters the loop of the run    *)
(* under way with that run's count.                                        *)
LEMMA WakeInv ==
  ASSUME IInv, NEW t \in Threads, Wake(t)
  PROVE  IInv'
<1> USE PoolAssumption DEF IInv
<1>b. thread \in [Threads -> ThreadRecord] /\ generation \in Nat /\ count \in Nat
  BY DEF TypeOK, ThreadRecord, Located
<1>u. UNCHANGED <<owner, started, generation, count, done, stopping, next>>
  BY DEF Wake
<1>1. CASE UNCHANGED thread
  <2>1. TypeOK'
    BY <1>1, <1>u DEF TypeOK, Wake
  <2>2. NoStraggler' /\ Claims' /\ DoneCounts' /\ Between'
    BY <1>1, <1>u DEF NoStraggler, InLoop, Claims, DoneCounts, Finished, Between
  <2> QED
    BY <2>1, <2>2
<1>2. CASE stopping /\ thread' = [thread EXCEPT ![t].at = "returned"] /\ UNCHANGED asleep
  <2>1. thread' \in [Threads -> ThreadRecord]
    BY <1>2, <1>b DEF ThreadRecord, Located
  <2>2. \A u \in Threads : u # t => thread'[u] = thread[u]
    BY <1>2, <1>b
  <2>3. /\ thread'[t].at = "returned" /\ thread'[t].seen = thread[t].seen
        /\ thread'[t].reported = thread[t].reported
    BY <1>2, <1>b DEF ThreadRecord
  <2>4. owner \in {"joining", "gone"} /\ thread[t].at = "idle"
    BY <1>2 DEF Between, TypeOK, Wake
  <2>5. TypeOK'
    BY <1>2, <1>u, <2>1 DEF TypeOK, ThreadRecord, Located
  <2>6. NoStraggler' /\ Claims' /\ DoneCounts'
    BY <1>u, <2>2, <2>3, <2>4 DEF NoStraggler, InLoop, Claims, DoneCounts
  <2>7. Between'
    BY <1>2, <1>u, <2>2, <2>3, <2>4 DEF Between
  <2> QED
    BY <2>5, <2>6, <2>7
<1>3. CASE /\ ~stopping /\ generation # thread[t].seen /\ UNCHANGED asleep
           /\ thread' = [thread EXCEPT ![t].at = "claim", ![t].seen = generation,
                                       ![t].count = count]
  <2>0. thread[t].at = "idle"
    BY DEF Wake
  <2>1. thread' \in [Threads -> ThreadRecord]
    BY <1>3, <1>b DEF ThreadRecord, Located
  <2>2. \A u \in Threads : u # t => thread'[u] = thread[u]
    BY <1>3, <1>b
  <2>3. /\ thread'[t].at = "claim" /\ thread'[t].seen = generation
        /\ thread'[t].count = count
        /\ thread'[t].reported = thread[t].reported
    BY <1>3, <1>b DEF ThreadRecord
  <2>4. owner = "running"
    BY <1>3, <2>0 DEF Between, TypeOK
  <2>5. TypeOK'
    BY <1>3, <1>u, <2>1 DEF TypeOK, ThreadRecord, Located
  <2>6. NoStraggler'
    BY <1>u, <2>2, <2>3, <2>4 DEF NoStraggler, InLoop
  <2>7. Claims'
    BY <1>b, <1>u, <2>2, <2>3 DEF Claims
  <2>8. Finished' = Finished
    BY <1>3, <1>u, <2>2, <2>3 DEF Finished
  <2>9. DoneCounts'
    BY <1>u, <2>2, <2>3, <2>8 DEF DoneCounts, InLoop
  <2>10. t > started => thread[t].at = "unborn"
    BY DEF Between
  <2>11. Between'
    BY <1>3, <1>u, <2>0, <2>2, <2>3, <2>4, <2>10 DEF Between
  <2> QED
    BY <2>5, <2>6, <2>7, <2>9, <2>11
<1> QED
  BY <1>1, <1>2, <1>3 DEF Wake

(* A claim takes an index nobody else has, or shows there is none left.    *)
LEMMA ClaimInv ==
  ASSUME IInv, NEW t \in Threads, Claim(t)
  PROVE  IInv'
<1> USE PoolAssumption DEF IInv
<1>b. thread \in [Threads -> ThreadRecord] /\ next \in Nat /\ count \in Nat
  BY DEF TypeOK, ThreadRecord, Located
<1>u. /\ UNCHANGED <<owner, started, generation, count, done, stopping, asleep>>
      /\ next' = next + 1 /\ thread[t].at = "claim"
  BY DEF Claim
<1>r. owner = "running" /\ thread[t].seen = generation /\ thread[t].count = count
  BY <1>u DEF NoStraggler, InLoop
<1>1. thread' \in [Threads -> ThreadRecord]
  BY <1>b DEF ThreadRecord, Located, Claim
<1>2. \A u \in Threads : u # t => thread'[u] = thread[u]
  BY <1>b DEF Claim
<1>3. /\ thread'[t].at = IF next < count THEN "call" ELSE "out"
      /\ thread'[t].index = next
      /\ thread'[t].seen = generation /\ thread'[t].count = count
      /\ thread'[t].reported = thread[t].reported
  BY <1>b, <1>r DEF ThreadRecord, Claim, Below
<1>4. TypeOK'
  BY <1>b, <1>u, <1>1 DEF TypeOK, ThreadRecord, Located
<1>5. NoStraggler'
  BY <1>u, <1>2, <1>3, <1>r DEF NoStraggler, InLoop
<1>6. Claims'
  <2>1. \A u \in Threads : thread[u].index \in Nat
    BY <1>b DEF ThreadRecord
  <2>2. \A u \in Threads : thread[u].at = "call" => thread[u].index < next
    BY DEF Claims
  <2>3. generation \in Nat
    BY DEF TypeOK
  <2>4. \A u \in Threads : thread'[u].seen <= generation'
    BY <1>u, <1>2, <1>3, <2>3 DEF Claims
  <2>5. \A u \in Threads : thread'[u].at = "call" =>
          thread'[u].index < next' /\ thread'[u].index < count'
    BY <1>b, <1>u, <1>2, <1>3, <2>1 DEF Claims
  <2>6. \A u, v \in Threads :
          thread'[u].at = "call" /\ thread'[v].at = "call" /\ u # v =>
            thread'[u].index # thread'[v].index
    BY <1>b, <1>2, <1>3, <2>1, <2>2 DEF Claims
  <2>7. \A u \in Threads : thread'[u].at = "out" => next' >= count'
    BY <1>b, <1>u, <1>2, <1>3 DEF Claims
  <2> QED
    BY <2>4, <2>5, <2>6, <2>7 DEF Claims
<1>7. Finished' = Finished
  BY <1>u, <1>2, <1>3 DEF Finished
<1>8. DoneCounts'
  BY <1>b, <1>u, <1>2, <1>3, <1>7 DEF DoneCounts, InLoop
<1>9. Between'
  BY <1>u, <1>2, <1>3, <1>r DEF Between
<1> QED
  BY <1>4, <1>5, <1>6, <1>8, <1>9

(* A call that returns leaves its thread in the loop.                      *)
LEMMA CalledInv ==
  ASSUME IInv, NEW t \in Threads, Called(t)
  PROVE  IInv'
<1> USE PoolAssumption DEF IInv
<1>b. thread \in [Threads -> ThreadRecord]
  BY DEF TypeOK, ThreadRecord, Located
<1>u. /\ UNCHANGED <<owner, started, generation, count, done, stopping, next, asleep>>
      /\ thread[t].at = "call"
  BY DEF Called
<1>r. owner = "running" /\ thread[t].seen = generation /\ thread[t].count = count
  BY <1>u DEF NoStraggler, InLoop
<1>1. thread' \in [Threads -> ThreadRecord]
  BY <1>b DEF ThreadRecord, Located, Called
<1>2. \A u \in Threads : u # t => thread'[u] = thread[u]
  BY <1>b DEF Called
<1>3. /\ thread'[t].at = "claim" /\ thread'[t].seen = thread[t].seen
      /\ thread'[t].count = thread[t].count
      /\ thread'[t].reported = thread[t].reported
  BY <1>b DEF ThreadRecord, Called
<1>4. TypeOK'
  BY <1>u, <1>1 DEF TypeOK, ThreadRecord, Located
<1>5. NoStraggler'
  BY <1>u, <1>2, <1>3, <1>r DEF NoStraggler, InLoop
<1>6. Claims'
  BY <1>u, <1>2, <1>3 DEF Claims
<1>7. Finished' = Finished
  BY <1>u, <1>2, <1>3 DEF Finished
<1>8. DoneCounts'
  BY <1>u, <1>2, <1>3, <1>7 DEF DoneCounts, InLoop
<1>9. Between'
  BY <1>u, <1>2, <1>3, <1>r DEF Between
<1> QED
  BY <1>4, <1>5, <1>6, <1>8, <1>9

(* A thread that leaves the loop is counted once.                          *)
LEMMA OutInv ==
  ASSUME IInv, NEW t \in Threads, Out(t)
  PROVE  IInv'
<1> USE PoolAssumption DEF IInv
<1>b. thread \in [Threads -> ThreadRecord] /\ done \in Nat
  BY DEF TypeOK, ThreadRecord, Located
<1>u. /\ UNCHANGED <<owner, started, generation, count, stopping, next>>
      /\ done' = done + 1 /\ thread[t].at = "out"
  BY DEF Out
<1>r. owner = "running" /\ thread[t].seen = generation /\ thread[t].count = count
  BY <1>u DEF NoStraggler, InLoop
<1>1. thread' \in [Threads -> ThreadRecord]
  BY <1>b DEF ThreadRecord, Located, Out
<1>2. \A u \in Threads : u # t => thread'[u] = thread[u]
  BY <1>b DEF Out
<1>3. /\ thread'[t].at = "idle" /\ thread'[t].seen = generation
      /\ thread'[t].reported = thread[t].reported
  BY <1>b, <1>r DEF ThreadRecord, Out
<1>4. TypeOK'
  BY <1>b, <1>u, <1>1 DEF TypeOK, ThreadRecord, Located, Out
<1>5. NoStraggler'
  BY <1>u, <1>2, <1>3, <1>r DEF NoStraggler, InLoop
<1>6. Claims'
  <2>1. generation \in Nat
    BY DEF TypeOK
  <2> QED
    BY <1>u, <1>2, <1>3, <2>1 DEF Claims
<1>7. DoneCounts'
  <2>1. t \notin Finished
    BY <1>u DEF Finished
  <2>2. Finished' = Finished \cup {t}
    BY <1>u, <1>2, <1>3 DEF Finished
  <2>3. IsFiniteSet(Finished)
    BY ThreadsFinite, FS_Subset, Finished \in SUBSET Threads DEF Finished
  <2>4. Cardinality(Finished') = Cardinality(Finished) + 1
    BY <2>1, <2>2, <2>3, FS_AddElement
  <2>5. next >= count
    BY <1>u DEF Claims
  <2> QED
    BY <1>u, <1>2, <1>3, <1>r, <2>4, <2>5 DEF DoneCounts, InLoop
<1>8. Between'
  BY <1>u, <1>2, <1>3, <1>r DEF Between
<1> QED
  BY <1>4, <1>5, <1>6, <1>7, <1>8

(* Every step, and a stutter, keeps the invariant.                         *)
LEMMA NextInv == IInv /\ [Next]_vars => IInv'
<1> SUFFICES ASSUME IInv, [Next]_vars PROVE IInv'
  OBVIOUS
<1>1. CASE OwnerStep
  BY <1>1, ReportedInv, MadeInv, RunReturnsInv, JoinedInv DEF OwnerStep
<1>2. CASE Start \/ StartRefused \/ Stop \/ Spurious
  BY <1>2, StartInv, StartRefusedInv, StopInv, SpuriousInv
<1>3. CASE \E n \in 0 .. MaxCount : Run(n)
  BY <1>3, RunInv
<1>4. CASE \E t \in Threads : ThreadStep(t)
  BY <1>4, WakeInv, ClaimInv, CalledInv, OutInv, ReportInv DEF ThreadStep
<1>5. CASE Gone \/ UNCHANGED vars
  <2>1. UNCHANGED vars
    BY <1>5 DEF Gone
  <2>2. TypeOK'
    BY <2>1 DEF vars, IInv, TypeOK
  <2>3. NoStraggler' /\ Claims' /\ DoneCounts' /\ Between'
    BY <2>1 DEF vars, IInv, NoStraggler, InLoop, Claims, DoneCounts, Finished, Between
  <2> QED
    BY <2>2, <2>3 DEF IInv
<1> QED
  BY <1>1, <1>2, <1>3, <1>4, <1>5 DEF Next

(* For any number of threads and of runs, the types hold and no thread is  *)
(* in the claim loop of a run that is not the one under way.               *)
THEOREM PoolIsSafe == Spec => [](TypeOK /\ NoStraggler)
<1>1. Init => IInv
  BY InitInv
<1>2. IInv /\ [Next]_vars => IInv'
  BY NextInv
<1>3. IInv => TypeOK /\ NoStraggler
  BY DEF IInv
<1> QED
  BY <1>1, <1>2, <1>3, PTL DEF Spec

-----------------------------------------------------------------------------
(* A claim in the loop is a call of the contract, or no step of it.        *)
LEMMA ClaimKeeps ==
  ASSUME IInv, NEW t \in Threads, Claim(t)
  PROVE  Contract!Next \/ UNCHANGED Contract!vars
<1> DEFINE c(s) == IF thread[s].at = "call" THEN thread[s].index ELSE -1
<1>b. thread \in [Threads -> ThreadRecord] /\ next \in Nat /\ count \in Nat
  BY DEF IInv, TypeOK, ThreadRecord, Located
<1>u. UNCHANGED owner /\ UNCHANGED count /\ next' = next + 1 /\ thread[t].at = "claim"
  BY DEF Claim
<1>r. owner = "running" /\ thread[t].count = count
  BY <1>u DEF IInv, NoStraggler, InLoop
<1>2. \A u \in Threads : u # t => thread'[u] = thread[u]
  BY <1>b DEF Claim
<1>3. /\ thread'[t].at = IF next < count THEN "call" ELSE "out"
      /\ thread'[t].index = next
  BY <1>b, <1>r DEF ThreadRecord, Claim, Below
<1>4. CASE next < count
  <2>1. next \in next .. count - 1 /\ next' .. count' - 1 = (next .. count - 1) \ {next}
    BY <1>b, <1>u, <1>4
  <2>2. [u \in Threads |-> IF thread'[u].at = "call" THEN thread'[u].index ELSE -1]
          = [[u \in Threads |-> c(u)] EXCEPT ![t] = next]
    BY <1>2, <1>3, <1>4
  <2>3. [u \in Threads |-> c(u)][t] = -1
    BY <1>u
  <2>4. PICK k \in next .. count - 1 : k = next
    BY <2>1
  <2>5. Contract!Call(t, k)
    BY <1>r, <1>u, <2>1, <2>2, <2>3, <2>4 DEF Contract!Call, Contract!None
  <2>6. \E index \in IF owner = "running" THEN next .. count - 1 ELSE {} :
          Contract!Call(t, index)
    BY <1>r, <2>4, <2>5
  <2> QED
    BY <2>6 DEF Contract!Next
<1>5. CASE ~(next < count)
  <2>1. next .. count - 1 = {} /\ next' .. count' - 1 = {}
    BY <1>b, <1>u, <1>5
  <2>2. [u \in Threads |-> IF thread'[u].at = "call" THEN thread'[u].index ELSE -1]
          = [u \in Threads |-> c(u)]
    BY <1>2, <1>3, <1>5, <1>u
  <2>3. UNCHANGED Contract!vars
    BY <1>u, <1>r, <2>1, <2>2 DEF Contract!vars
  <2> QED
    BY <2>3
<1> QED
  BY <1>4, <1>5

(* A step that leaves the calls, the counter and the run alone is none of  *)
(* the contract's.                                                         *)
LEMMA QuietKeeps ==
  ASSUME owner' = "running" <=> owner = "running", UNCHANGED <<count, next>>,
         \A u \in Threads : /\ thread'[u].at = "call" <=> thread[u].at = "call"
                            /\ thread'[u].index = thread[u].index
  PROVE  UNCHANGED Contract!vars
BY DEF Contract!vars

(* The owner's steps: a run begins and ends as the contract says.          *)
LEMMA OwnerKeeps ==
  ASSUME IInv,
         \/ OwnerStep \/ Start \/ StartRefused \/ Stop \/ Spurious
         \/ \E n \in 0 .. MaxCount : Run(n)
  PROVE  Contract!Next \/ UNCHANGED Contract!vars
<1>b. thread \in [Threads -> ThreadRecord] /\ next \in Nat /\ count \in Nat
  BY DEF IInv, TypeOK, ThreadRecord, Located
<1>1. CASE Reported \/ Made \/ Joined \/ StartRefused \/ Stop \/ Spurious
  BY <1>1, QuietKeeps DEF Reported, Made, Joined, StartRefused, Stop, Spurious
<1>2. CASE Start
  <2>1. started + 1 \in Threads /\ thread[started + 1].at = "unborn"
    BY <1>2, PoolAssumption DEF Start, MoreToStart, IInv, TypeOK, Between, Threads
  <2>2. \A u \in Threads : /\ thread'[u].at = "call" <=> thread[u].at = "call"
                           /\ thread'[u].index = thread[u].index
    BY <1>2, <1>b, <2>1 DEF Start, ThreadRecord
  <2> QED
    BY <1>2, <2>2, QuietKeeps DEF Start
<1>3. CASE RunReturns
  <2>1. CASE ~AllDone
    BY <1>3, <2>1, QuietKeeps DEF RunReturns
  <2>2. CASE AllDone
    <3>1. Finished = Threads
      <4>1. Finished \in SUBSET Threads
        BY DEF Finished
      <4>2. Cardinality(Finished) = N
        BY <1>3, <2>2 DEF RunReturns, AllDone, IInv, DoneCounts
      <4> QED
        BY <4>1, <4>2, ThreadsFinite, FS_Subset
    <3>2. 1 \in Threads
      BY PoolAssumption DEF Threads
    <3>3. next >= count
      BY <1>3, <3>1, <3>2 DEF RunReturns, IInv, DoneCounts
    <3>4. next .. count - 1 = {}
      BY <1>b, <3>3
    <3>5. \A u \in Threads : thread[u].at # "call"
      BY <3>1 DEF Finished
    <3>6. owner = "running" /\ owner' = "ready" /\ UNCHANGED <<thread, count, next>>
      BY <1>3, <2>2 DEF RunReturns
    <3>7. Contract!End
      BY <3>4, <3>5, <3>6 DEF Contract!End, Contract!None
    <3> QED
      BY <3>7 DEF Contract!Next
  <2> QED
    BY <2>1, <2>2
<1>4. CASE \E n \in 0 .. MaxCount : Run(n)
  <2>1. PICK n \in 0 .. MaxCount : Run(n)
    BY <1>4
  <2>2. n \in 1 .. MaxCount
    BY <2>1, PoolAssumption DEF Run
  <2>3. /\ owner = "ready" /\ owner' = "running" /\ next' = 0 /\ count' = n
        /\ UNCHANGED thread
    BY <2>1 DEF Run, Hand
  <2>4. Contract!Begin(n)
    BY <2>3 DEF Contract!Begin
  <2> QED
    BY <2>2, <2>4 DEF Contract!Next
<1> QED
  BY <1>1, <1>2, <1>3, <1>4 DEF OwnerStep

(* The threads' other steps: a call returns, or nothing the contract sees. *)
LEMMA ThreadKeeps ==
  ASSUME IInv, NEW t \in Threads, ThreadStep(t)
  PROVE  Contract!Next \/ UNCHANGED Contract!vars
<1>b. thread \in [Threads -> ThreadRecord] /\ generation \in Nat
  BY DEF IInv, TypeOK, ThreadRecord, Located
<1>1. CASE Claim(t)
  BY <1>1, ClaimKeeps
<1>2. CASE Wake(t)
  <2>1. \A u \in Threads : /\ thread'[u].at = "call" <=> thread[u].at = "call"
                           /\ thread'[u].index = thread[u].index
    BY <1>2, <1>b DEF Wake, ThreadRecord
  <2> QED
    BY <1>2, <2>1, QuietKeeps DEF Wake
<1>3. CASE Out(t)
  <2>1. \A u \in Threads : /\ thread'[u].at = "call" <=> thread[u].at = "call"
                           /\ thread'[u].index = thread[u].index
    BY <1>3, <1>b DEF Out, ThreadRecord
  <2> QED
    BY <1>3, <2>1, QuietKeeps DEF Out
<1>4. CASE \E failed \in BOOLEAN : Report(t, failed)
  <2>1. PICK failed \in BOOLEAN : Report(t, failed)
    BY <1>4
  <2>2. \A u \in Threads : u # t => thread'[u] = thread[u]
    BY <1>b, <2>1 DEF Report
  <2>3. thread[t].at = "new" /\ thread'[t].index = thread[t].index
    BY <1>b, <2>1 DEF Report, ThreadRecord
  <2>4. thread'[t].at # "call"
    BY <1>b, <2>1 DEF Report, ThreadRecord
  <2>5. UNCHANGED <<owner, count, next>>
    BY <2>1 DEF Report
  <2> QED
    BY <2>2, <2>3, <2>4, <2>5, QuietKeeps
<1>5. CASE Called(t)
  <2>1. /\ UNCHANGED <<owner, count, next>> /\ thread[t].at = "call"
        /\ thread[t].index \in Nat
    BY <1>5, <1>b DEF Called, ThreadRecord
  <2>2. \A u \in Threads : u # t => thread'[u] = thread[u]
    BY <1>5, <1>b DEF Called
  <2>3. thread'[t].at = "claim"
    BY <1>5, <1>b DEF Called, ThreadRecord
  <2> DEFINE c == [u \in Threads |->
                     IF thread[u].at = "call" THEN thread[u].index ELSE -1]
             d == [u \in Threads |->
                     IF thread'[u].at = "call" THEN thread'[u].index ELSE -1]
  <2>4. c[t] # -1
    BY <2>1
  <2>5. d = [c EXCEPT ![t] = -1]
    BY <2>2, <2>3
  <2>6. Contract!Returned(t)
    BY <2>1, <2>4, <2>5 DEF Contract!Returned, Contract!None
  <2> QED
    BY <2>6 DEF Contract!Next
<1> QED
  BY <1>1, <1>2, <1>3, <1>4, <1>5 DEF ThreadStep

(* The pool implements the contract: each index of a run is called exactly *)
(* once, in a slot of its own, and run returns after the last call has.    *)
THEOREM PoolKeepsContract == Spec => KeepsContract
<1>1. Init => Contract!Init
  BY PoolAssumption DEF Init, Contract!Init, Contract!None, Threads
<1>2. IInv /\ [Next]_vars => Contract!Next \/ UNCHANGED Contract!vars
  <2> SUFFICES ASSUME IInv, [Next]_vars
               PROVE  Contract!Next \/ UNCHANGED Contract!vars
    OBVIOUS
  <2>1. CASE \E t \in Threads : ThreadStep(t)
    BY <2>1, ThreadKeeps
  <2>2. CASE UNCHANGED vars
    BY <2>2, QuietKeeps DEF vars
  <2> QED
    BY <2>1, <2>2, OwnerKeeps DEF Next, Gone
<1>3. Spec => []IInv
  BY InitInv, NextInv, PTL DEF Spec
<1> QED
  BY <1>1, <1>2, <1>3, PTL DEF Spec, KeepsContract, Contract!Spec
=============================================================================
