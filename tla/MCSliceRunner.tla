--------------------------- MODULE MCSliceRunner ---------------------------
(***************************************************************************)
(* What a worker does in a slice, with the memory it does it in; how the   *)
(* controller judges a worker by it; what three of the workloads compute   *)
(* and their oracles find in a unit; and the atomic loads.  They share no  *)
(* state: each is explored with the others at rest, and all but the slice  *)
(* use the watch's variables.  The bounds of a slice are in                *)
(* SliceRunner.cfg.                                                        *)
(***************************************************************************)
EXTENDS SliceRunner, Integers, Sequences

VARIABLES part, worker, slot, control, acks, tracked, ctl

watchVars == <<worker, slot, control, acks, tracked, ctl>>

(* The steps of the load cycle, and of the rotation of the mixed workload. *)
CyclingAndRotating ==
  {<<"pause">>, <<"resume">>, <<"half">>, <<"resume", "half">>, <<"full">>, <<"switch">>, <<"rebind">>}
Watched == INSTANCE Watch WITH
  Interval <- 1, Slice <- 1, Preempt <- 1, MaxHeld <- 1, Start <- 1, Replacement <- 1, StaleAfter <- 8, Allowance <- 1,
  Dwell <- 3, MaxUnanswered <- 2, Period <- 4, Half <- 2, MayHang <- TRUE, Steps <- CyclingAndRotating

(* Four keys of two bits, in one, two or four ranges, sorted in two passes.*)
Sorted == INSTANCE Sorting WITH
  unit <- worker, pass <- slot, side <- control, out <- acks, ranges <- tracked, verdict <- ctl,
  Keys <- 4, KeyBits <- 2, DigitBits <- 1, ChunkCounts <- {1, 2, 4}, DefaultChunks <- 2

(* Five vertices, in up to four levels, some reached by two edges; a       *)
(* stored 7 is vertex 2.  Both directions of a step are taken.             *)
Graphs ==
  {a \o b \o c \o d \o e \o <<0>> :
     a \in {<<1, 2>>, <<2, 7>>}, b \in {0, 3} \X {2, 3}, c \in {1, 3} \X {0, 3, 4}, d \in {3, 4} \X {4}, e \in {<<0, 1>>, <<3, 3>>}}
Searched == INSTANCE GraphUnit WITH
  unit <- worker, arena <- slot, dist <- control, step <- acks, tasks <- tracked, result <- ctl,
  Vertices <- 5, OutDegree <- 2, Inputs <- Graphs, FrontierChunk <- 1, VertexChunk <- 1,
  ParallelFrontier <- 2, BottomUpMinimum <- 2, Alphas <- {0, 4}, Accumulators <- {1, 2}, DefaultAccumulators <- 2

(* Twenty-one bytes of four values, in runs; a length of 1 is extended.    *)
Streams == {<<0, 1, 2, 3, 3, 1, 0, 2, 2, 0, 1, 3, 0, 0, 2, 1, 3, 2, 0, 1, 1>>, [i \in 1..21 |-> 3]}
Compressed == INSTANCE Compression WITH
  unit <- worker, table <- slot, finder <- control, out <- acks, reader <- tracked, verdict <- ctl,
  Size <- 21, Byte <- 4, Escape <- 1, MinMatch <- 4, LastLiterals <- 5, FindLimit <- 12, MaxOffset <- 2, Slots <- 0..3,
  Fills <- Streams, LiteralRuns <- {1, 3}, CopyRuns <- {6}, MaxDistance <- 3

(* Sizes of six bits, lines of two bytes or more, huge pages of eight; the *)
(* second node has a number past the mask.                                 *)
Plans == [input : {0, 1, 4, 5, 63}, output : {0, 3, 62}, units : {0, 1, 2, 22}, scratch : {0, 5, 40}]
Runners ==
  [lacking : {"nothing", "workload"},
   plan : {[input |-> 3, output |-> 2, units |-> 2, scratch |-> 1], [input |-> 9, output |-> 40, units |-> 2, scratch |-> 1]},
   threads : {2}, line : {4}, policy : {"none", "try", "require"}, node : {-1, 0, 2}]
Requests ==
  [bytes : {0, 3, 60}, huge : {"none", "transparent", "explicit"}, populate : BOOLEAN, lock : BOOLEAN, node : {-1, 1, 2}]
Mapped == INSTANCE WorkingSet WITH
  setup <- worker, asking <- slot, kernel <- control, held <- acks, made <- tracked,
  MaxSize <- 63, HugeBytes <- 8, MaskBits <- 2, MinLine <- 2, CopyBytes <- 5,
  Layouts <- [plan : Plans, threads : {1, 3}, line : {0, 1, 2, 3, 4, 8}], Setups <- Runners, Asked <- Requests

(* Words of four bits, counters of two bytes and lines of up to eight;     *)
(* two threads hand four units over, and three threads three.              *)
Call == [kind |-> "", units |-> 1, threads |-> 1, mode |-> "shared", increments |-> 0, line |-> 4, address |-> 0, size |-> 4, aligns |-> TRUE]
ContendCalls ==
  {[Call EXCEPT !.units = u, !.threads = t, !.mode = m, !.increments = n] :
     u \in 0..3, t \in 1..2, m \in {"shared", "sharded"}, n \in 0..3}
    \cup {[Call EXCEPT !.threads = t, !.mode = "sharded", !.increments = 1, !.line = l, !.address = a, !.size = s, !.aligns = b] :
     t \in 1..3, l \in {0, 1, 2, 4, 6, 8, 10}, a \in {0, 2, 4, 6}, s \in {1, 4, 12}, b \in BOOLEAN}
HandoffCalls == {[Call EXCEPT !.units = c[1], !.threads = c[2]] : c \in {<<3, 1>>, <<4, 1>>, <<4, 2>>, <<3, 3>>}}
Atomically == INSTANCE Atomics WITH
  load <- worker, mem <- slot, threads <- control, next <- acks, partials <- tracked, outcome <- ctl,
  Word <- 16, CounterBytes <- 2, MaxLine <- 8, Contentions <- ContendCalls, Handoffs <- HandoffCalls, Payloads <- <<5, 7, 9, 11>>

SlicesInit ==
  /\ Init
  /\ \/ part \in {"slice", "watch"} /\ Watched!Init
     \/ part = "sort" /\ Sorted!SortInit
     \/ part = "graph" /\ Searched!GraphInit
     \/ part = "compression" /\ Compressed!CompressionInit
     \/ part = "atomic" /\ Atomically!AtomicsInit
     \/ part = "memory" /\ Mapped!WorkingSetInit /\ ctl = "none"
SlicesNext ==
  \/ part = "slice" /\ Next /\ UNCHANGED <<part, watchVars>>
  \/ part = "watch" /\ Watched!Next /\ UNCHANGED <<part, vars>>
  \/ part = "sort" /\ Sorted!SortNext /\ UNCHANGED <<part, vars>>
  \/ part = "graph" /\ Searched!GraphNext /\ UNCHANGED <<part, vars>>
  \/ part = "compression" /\ Compressed!CompressionNext /\ UNCHANGED <<part, vars>>
  \/ part = "atomic" /\ Atomically!AtomicsNext /\ UNCHANGED <<part, vars>>
  \/ part = "memory" /\ Mapped!WorkingSetNext /\ UNCHANGED <<part, vars, ctl>>
SlicesSpec == SlicesInit /\ [][SlicesNext]_<<part, vars, watchVars>>

-----------------------------------------------------------------------------
(* The runner's variables and the watch's keep their types.                *)
TypesOK == TypeOK /\ (part \in {"slice", "watch"} => Watched!TypeOK)

(* A worker that does what it is told within its bounds is never signalled *)
(* for a stale beat or a lack of progress; one that hangs is found in      *)
(* bounded time; and an answer finds the command it is for                 *)
(* (orchestration.cpp, judge and take_ack).                                *)
JudgedInTime ==
  part = "watch" => Watched!WellIsLeftAlone /\ Watched!HungIsFound /\ Watched!AnswersMatch

(* A unit's output is a function of its input and its decomposition,       *)
(* however the tasks it is spread over interleave, and its oracle agrees   *)
(* with that output and with no other.  The atomic loads lose no addition  *)
(* and hand over what was published; the mappings of a runner are as it    *)
(* asked for, said to be locked only when they are, and all let go.        *)
UnitsAreRight ==
  /\ part = "sort" => Sorted!SortIsRight
  /\ part = "graph" => Searched!GraphIsRight
  /\ part = "compression" => Compressed!CompressionIsRight
  /\ part = "atomic" => Atomically!AtomicsAreRight
  /\ part = "memory" => Mapped!WorkingSetIsRight
=============================================================================
