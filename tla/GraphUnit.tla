----------------------------- MODULE GraphUnit ------------------------------
(***************************************************************************)
(* One unit of the graph workload (workloads/graph/graph.cpp), a parallel  *)
(* breadth-first search and PageRank over one directed multigraph, and its *)
(* check by the independent oracle (verification/oracle/graph).            *)
(*                                                                         *)
(* A step of the search is a run of the executor: its tasks interleave at  *)
(* every access to the distances, to the discovery counter and to the next *)
(* frontier.  The distances are relaxed atomics: a load of a vertex some   *)
(* other task writes in the same step may see the value before or after.   *)
(* The additions of PageRank are not interpreted: a rank is the sequence   *)
(* of terms of each accumulator, in the order they are added.              *)
(***************************************************************************)
EXTENDS Integers, Sequences, FiniteSets, SequencesExt, FiniteSetsExt

CONSTANTS Vertices, OutDegree,
          Inputs,            \* the stored words of a unit: heads, then the source
          FrontierChunk,     \* frontier vertices per top-down task
          VertexChunk,       \* vertices per bottom-up task
          ParallelFrontier,  \* the least frontier given to the executor
          BottomUpMinimum,   \* the least frontier a bottom-up step is taken for
          Alphas,            \* kAlpha: how readily it is taken
          Accumulators, DefaultAccumulators

VARIABLES unit,    \* the configuration, the input, and kAlpha
          arena,   \* the in-edges: offsets and tails
          dist,    \* the distances
          step,    \* the phase of the unit, and what the tasks of a step share
          tasks,   \* where each task of the step is
          result   \* the output, what corrupted it, the oracle's verdict

vars == <<unit, arena, dist, step, tasks, result>>

Unreachable == 99
Vs == 0..(Vertices - 1)
Edges == 0..(Vertices * OutDegree - 1)
EffectiveVertex(stored) == stored % Vertices
TailOf(edge) == edge \div OutDegree
HeadIn(input, edge) == EffectiveVertex(input[edge + 1])
SourceIn(input) == EffectiveVertex(input[Vertices * OutDegree + 1])
HeadAt(edge) == HeadIn(unit.input, edge)

IsAccumulators(a) == a \in Accumulators
Resolved(config) == IF config.decomposition = 0 THEN DefaultAccumulators ELSE config.decomposition
(* create() of the workload, and of the oracle for the plan it came to.    *)
CreateOf(config) ==
  IF ~IsAccumulators(Resolved(config)) THEN "configuration"
  ELSE IF config.isa = "avx512" THEN "configuration"
  ELSE IF config.footprint = 0 THEN "footprint too small" ELSE "created"
OracleOf(accumulators) == IF IsAccumulators(accumulators) THEN "created" ELSE "configuration"

NoOutput == [dist |-> <<>>, ranks |-> <<>>]
Idle == [phase |-> "create", frontier |-> <<>>, next |-> <<>>, level |-> 0, found |-> 0,
         visited |-> 0, up |-> FALSE, serial |-> TRUE, start |-> <<>>]
GraphInit ==
  /\ unit \in [config : [decomposition : {0, 1, 3}, isa : {"scalar", "avx512"}, footprint : 0..1],
               input : {<<>>}, alpha : {0}]
  /\ arena = [offsets |-> <<>>, tails |-> <<>>] /\ dist = <<>> /\ step = Idle /\ tasks = <<>>
  /\ result = [out |-> NoOutput, hurt |-> "nothing", verdict |-> "none"]

Create ==
  /\ step.phase = "create"
  /\ IF CreateOf(unit.config) = "created"
     THEN /\ \E input \in Inputs, alpha \in Alphas :
               unit' = [unit EXCEPT !.input = input, !.alpha = alpha]
          /\ step' = [step EXCEPT !.phase = "build"]
     ELSE step' = [step EXCEPT !.phase = "refused"] /\ UNCHANGED unit
  /\ UNCHANGED <<arena, dist, tasks, result>>

(* build_in_edges: a counting sort of the edges by head, in increasing     *)
(* edge number.  Then run_bfs begins: the source alone is at distance 0.   *)
Offset(v) == Cardinality({e \in Edges : HeadAt(e) < v})
LastFirst(e) == Cardinality({d \in Edges : d > e /\ HeadAt(d) = HeadAt(e)})
Earlier(e) == Cardinality({d \in Edges : d < e /\ HeadAt(d) = HeadAt(e)})
Cursor(e) == Offset(HeadAt(e)) + Earlier(e)
BuildInEdges ==
  /\ step.phase = "build"
  /\ arena' = [offsets |-> [v \in 0..Vertices |-> Offset(v)],
               tails |-> [at \in Edges |-> TailOf(CHOOSE e \in Edges : Cursor(e) = at)]]
  /\ dist' = [v \in Vs |-> IF v = SourceIn(unit.input) THEN 0 ELSE Unreachable]
  /\ step' = [step EXCEPT !.phase = "bfs", !.visited = 1, !.level = 0,
                          !.frontier = <<SourceIn(unit.input)>>]
  /\ UNCHANGED <<unit, tasks, result>>

(* run_bfs: the direction of the next step, and whether its tasks are      *)
(* spread over the executor.                                               *)
Size == Len(step.frontier)
IsBottomUp == Size >= BottomUpMinimum /\ Size * unit.alpha > Vertices - step.visited
TaskCount == IF IsBottomUp THEN Vertices \div VertexChunk ELSE (Size + FrontierChunk - 1) \div FrontierChunk
(* A top-down task deals with the out-edges of its slice of the frontier,  *)
(* a bottom-up task with the vertices of its range.                        *)
TaskOf(i) == [pc |-> "scan", vertex |-> (i - 1) * VertexChunk, at |-> 0, own |-> 0, slot |-> 0]
StartStep ==
  /\ step.phase = "bfs" /\ Size > 0
  /\ step' = [step EXCEPT !.phase = "step", !.up = IsBottomUp, !.found = 0, !.start = dist,
                          !.serial = ~IsBottomUp /\ Size < ParallelFrontier,
                          !.next = [n \in 1..Vertices |-> 0]]
  /\ tasks' = [i \in 1..TaskCount |-> TaskOf(i)]
  /\ UNCHANGED <<unit, arena, dist, result>>

MayRun(i) == step.phase = "step" /\ (step.serial => \A j \in 1..(i - 1) : tasks[j].pc = "done")

(* top_down_task: compare_exchange of the head's distance; the winner      *)
(* appends it.                                                             *)
FirstEdge(i) == (i - 1) * FrontierChunk
EdgesOf(i) == (Min({FirstEdge(i) + FrontierChunk, Size}) - FirstEdge(i)) * OutDegree
EdgeAt(i) ==
  step.frontier[FirstEdge(i) + (tasks[i].at \div OutDegree) + 1] * OutDegree + (tasks[i].at % OutDegree)
TakesAnyway(head) == dist[head] = Unreachable \/ dist[head] = step.level + 1
Wins(head) == dist[head] = Unreachable
Exchange(i) ==
  /\ MayRun(i) /\ ~step.up /\ tasks[i].pc = "scan" /\ tasks[i].at < EdgesOf(i)
  /\ LET head == HeadAt(EdgeAt(i))
     IN  IF Wins(head)
         THEN /\ dist' = [dist EXCEPT ![head] = step.level + 1]
              /\ tasks' = [tasks EXCEPT ![i].pc = "append", ![i].own = head]
         ELSE tasks' = [tasks EXCEPT ![i].at = @ + 1] /\ UNCHANGED dist
  /\ UNCHANGED <<unit, arena, step, result>>

(* bottom_up_task: an unvisited vertex looks for an in-neighbour at the    *)
(* current level.                                                          *)
InDegree(v) == arena.offsets[v + 1] - arena.offsets[v]
Passed(i) == tasks[i].vertex = i * VertexChunk
NextVertex(i) == tasks' = [tasks EXCEPT ![i].vertex = @ + 1, ![i].at = 0]
AnyVisited(seen) == seen # Unreachable
IsParent(seen) == seen = step.level
Look(i) ==
  /\ MayRun(i) /\ step.up /\ tasks[i].pc = "scan" /\ ~Passed(i)
  /\ LET v == tasks[i].vertex
         tail == arena.tails[arena.offsets[v] + tasks[i].at]
     IN  IF dist[v] # Unreachable \/ tasks[i].at = InDegree(v)
         THEN NextVertex(i) /\ UNCHANGED dist
         ELSE \E seen \in {dist[tail], step.start[tail]} :
                IF IsParent(seen)
                THEN /\ dist' = [dist EXCEPT ![v] = step.level + 1]
                     /\ tasks' = [tasks EXCEPT ![i].pc = "append", ![i].own = v]
                ELSE tasks' = [tasks EXCEPT ![i].at = @ + 1] /\ UNCHANGED dist
  /\ UNCHANGED <<unit, arena, step, result>>

(* append: fetch_add hands out a slot of the next frontier; then the store.*)
AppendTo(i) ==
  /\ step.phase = "step" /\ tasks[i].pc = "append"
  /\ step' = [step EXCEPT !.found = @ + 1]
  /\ tasks' = [tasks EXCEPT ![i].pc = "store", ![i].slot = step.found + 1]
  /\ UNCHANGED <<unit, arena, dist, result>>
Store(i) ==
  /\ step.phase = "step" /\ tasks[i].pc = "store"
  /\ step' = [step EXCEPT !.next[tasks[i].slot] = tasks[i].own]
  /\ tasks' = [tasks EXCEPT ![i].pc = "scan",
                            ![i].at = IF step.up THEN 0 ELSE @ + 1,
                            ![i].vertex = IF step.up THEN @ + 1 ELSE @]
  /\ UNCHANGED <<unit, arena, dist, result>>
Return(i) ==
  /\ MayRun(i) /\ tasks[i].pc = "scan"
  /\ IF step.up THEN Passed(i) ELSE tasks[i].at = EdgesOf(i)
  /\ tasks' = [tasks EXCEPT ![i].pc = "done"]
  /\ UNCHANGED <<unit, arena, dist, step, result>>

(* run() has returned; the discoveries are the next frontier.              *)
EndStep ==
  /\ step.phase = "step" /\ \A i \in DOMAIN tasks : tasks[i].pc = "done"
  /\ step' = [step EXCEPT !.phase = "bfs", !.frontier = SubSeq(step.next, 1, step.found), !.next = <<>>,
                          !.level = @ + 1, !.visited = @ + step.found, !.start = <<>>]
  /\ tasks' = <<>>
  /\ UNCHANGED <<unit, arena, dist, result>>

(* run_pagerank: every sweep adds a vertex's terms in the order of its     *)
(* in-edges, term q to lane q mod a.  A sweep reads the last one only.     *)
LaneTerms(v, lane) ==
  [q \in 1..Cardinality({q \in 0..(InDegree(v) - 1) : q % Resolved(unit.config) = lane}) |->
     arena.tails[arena.offsets[v] + lane + (q - 1) * Resolved(unit.config)]]
Sweep ==
  /\ step.phase = "bfs" /\ Size = 0
  /\ result' = [result EXCEPT !.out =
       [dist |-> dist,
        ranks |-> [v \in Vs |-> [lane \in 0..(Resolved(unit.config) - 1) |-> LaneTerms(v, lane)]]]]
  /\ step' = [Idle EXCEPT !.phase = "computed"]
  /\ UNCHANGED <<unit, arena, dist, tasks>>

(* Before the check a word of the output, or of the input, changes.        *)
Corrupt ==
  /\ step.phase = "computed" /\ result.hurt = "nothing"
  /\ \/ \E v \in {0, Vertices - 1} : \E d \in {1, Unreachable} \ {result.out.dist[v]} :
          result' = [result EXCEPT !.out.dist[v] = d, !.hurt = "distance"] /\ UNCHANGED unit
     \/ \E v \in {0, Vertices - 1} :
          result' = [result EXCEPT !.out.ranks[v][0] = Append(@, Vertices), !.hurt = "rank"] /\ UNCHANGED unit
     \/ \E e \in Edges :
          /\ unit' = [unit EXCEPT !.input[e + 1] = (@ + 1) % Vertices]
          /\ result' = [result EXCEPT !.hurt = "input"]
  /\ UNCHANGED <<arena, dist, step, tasks>>

(* The oracle: breadth_first with a queue.  The heads of the vertex that   *)
(* is read and that nothing reached before are queued in their order.      *)
Expand(input, tail, search) ==
  LET Head1(o) == HeadIn(input, tail * OutDegree + o)
      new == SelectSeq([o \in 1..OutDegree |-> o - 1], LAMBDA o :
               search.distance[Head1(o)] = Unreachable /\ \A p \in 0..(o - 1) : Head1(p) # Head1(o))
  IN  [distance |-> [v \in Vs |-> IF \E n \in DOMAIN new : Head1(new[n]) = v
                                  THEN search.distance[tail] + 1 ELSE search.distance[v]],
       queue |-> search.queue \o [n \in DOMAIN new |-> Head1(new[n])]]
BreadthFirst(input) ==
  LET After[n \in 0..Vertices] ==
        IF n = 0 THEN [distance |-> [v \in Vs |-> IF v = SourceIn(input) THEN 0 ELSE Unreachable],
                       queue |-> <<SourceIn(input)>>]
        ELSE CHOOSE next \in
               {IF n > Len(search.queue) THEN search ELSE Expand(input, search.queue[n], search) :
                  search \in {After[n - 1]}} : TRUE
  IN  After[Vertices].distance
(* page_rank: the edges are walked in increasing number, and each goes to  *)
(* the accumulator its rank among the in-edges of its head names.          *)
SlotOf(input, edge, a) ==
  Cardinality({d \in 0..(edge - 1) : HeadIn(input, d) = HeadIn(input, edge)}) % a
SumOf(input, v, slot, a) ==
  LET Terms == SelectSeq([n \in 1..(Vertices * OutDegree) |-> n - 1],
                         LAMBDA e : HeadIn(input, e) = v /\ SlotOf(input, e, a) = slot)
  IN  [n \in DOMAIN Terms |-> TailOf(Terms[n])]
ExpectedOutput(input, a) ==
  [dist |-> BreadthFirst(input),
   ranks |-> [v \in Vs |-> [lane \in 0..(a - 1) |-> SumOf(input, v, lane, a)]]]
VerdictOf(expected, out) ==
  IF expected = out THEN "agreement"
  ELSE IF expected.dist # out.dist THEN "bfs-distances" ELSE "pagerank"
Check ==
  /\ step.phase = "computed"
  /\ \E memory \in BOOLEAN :
       result' = [result EXCEPT !.verdict =
         IF OracleOf(Resolved(unit.config)) # "created" THEN "no oracle"
         ELSE IF ~memory THEN "not checked"
         ELSE VerdictOf(ExpectedOutput(unit.input, Resolved(unit.config)), result.out)]
  /\ step' = [step EXCEPT !.phase = "checked"]
  /\ UNCHANGED <<unit, arena, dist, tasks>>

GraphDone == step.phase \in {"refused", "checked"} /\ UNCHANGED vars
GraphNext ==
  \/ Create \/ BuildInEdges \/ StartStep \/ EndStep \/ Sweep \/ Corrupt \/ Check \/ GraphDone
  \/ \E i \in DOMAIN tasks : Exchange(i) \/ Look(i) \/ AppendTo(i) \/ Store(i) \/ Return(i)

-----------------------------------------------------------------------------
(* spec.hpp: the distance of a vertex is the least number of edges on a    *)
(* path from the source; its in-edges, in increasing number, are the terms *)
(* of its rank, the q-th in accumulator q mod a.                           *)
Reached(input) ==
  LET Within[k \in 0..Vertices] ==
        IF k = 0 THEN {SourceIn(input)}
        ELSE UNION {near \cup {HeadIn(input, e) : e \in {e \in Edges : TailOf(e) \in near}} :
                      near \in {Within[k - 1]}}
  IN  Within
Distance(reached, v) ==
  IF v \notin reached[Vertices] THEN Unreachable ELSE Min({k \in 0..Vertices : v \in reached[k]})
InEdges(input, v) == SelectSeq([n \in 1..(Vertices * OutDegree) |-> n - 1], LAMBDA e : HeadIn(input, e) = v)
TermsAreRight(ins, a, lanes) ==
  \A q \in DOMAIN ins :
    LET terms == lanes[(q - 1) % a] IN terms[((q - 1) \div a) + 1] = TailOf(ins[q])
IsRight(input, a, out) ==
  /\ \A reached \in {Reached(input)} : out.dist = [v \in Vs |-> Distance(reached, v)]
  /\ \A v \in Vs : \A ins \in {InEdges(input, v)} :
       /\ \A lane \in 0..(a - 1) : Len(out.ranks[v][lane]) = (Len(ins) + a - 1 - lane) \div a
       /\ TermsAreRight(ins, a, out.ranks[v])

(* graph.cpp, "ATOMICS, AND WHY relaxed IS ENOUGH": in a step every vertex *)
(* is claimed by one task, so the frontier holds each vertex at its level  *)
(* once and nothing else, in whatever order.                               *)
FrontierIsExact ==
  step.phase = "bfs" =>
    /\ Cardinality(Range(step.frontier)) = Size
    /\ Range(step.frontier) = {v \in Vs : dist[v] = step.level}
    /\ step.visited = Cardinality({v \in Vs : dist[v] # Unreachable})

(* spec.hpp: the output is a function of the input and the decomposition,  *)
(* whatever the direction of the steps and the order of their tasks.       *)
GraphIsDeterministic ==
  step.phase = "computed" /\ result.hurt = "nothing" =>
    IsRight(unit.input, Resolved(unit.config), result.out)

(* spec.hpp: the oracle agrees exactly with the right output, and names    *)
(* the section that is wrong, the distances first.  Without memory it has  *)
(* checked nothing.                                                        *)
GraphOracleIsExact ==
  result.verdict \notin {"none", "not checked"} =>
    /\ result.verdict # "no oracle"
    /\ result.verdict = "agreement" <=> IsRight(unit.input, Resolved(unit.config), result.out)
    /\ result.hurt = "distance" => result.verdict = "bfs-distances"
    /\ result.hurt = "rank" => result.verdict = "pagerank"

GraphIsRight == FrontierIsExact /\ GraphIsDeterministic /\ GraphOracleIsExact
=============================================================================
