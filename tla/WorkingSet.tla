----------------------------- MODULE WorkingSet -----------------------------
(***************************************************************************)
(* The memory of a slice runner: make_slice_runner (verification/integrity *)
(* /slice_runner.cpp) with its layout, its lock policy and the copies of   *)
(* its control state, over the mappings of platform/memory.cpp.            *)
(*                                                                         *)
(* Every system call of Memory::map is a step and may fail.  A range of    *)
(* the kernel's has a number; a number is given again once it is free, as  *)
(* an address is.  Three kinds of caller: the runner; one that maps any    *)
(* request and moves, releases and destroys what it got; and one that only *)
(* asks for a layout, with sizes at the edge of the width.                 *)
(***************************************************************************)
EXTENDS Integers, Sequences, FiniteSets, FiniteSetsExt

CONSTANTS MaxSize,       \* the largest size_t
          HugeBytes,     \* kExplicitHugePageBytes
          MaskBits,      \* kNodeMaskBits
          MinLine,       \* the least line size
          CopyBytes,     \* kCopyBytes, of one copy of the control state
          Layouts,       \* plans with sizes at the edge of the width
          Setups, Asked  \* the setups of runners, and other callers' requests

VARIABLES setup,    \* what the caller was given
          asking,   \* the mapping request under way: whose it is, and its stage
          kernel,   \* the ranges the kernel holds for this process
          held,     \* the Mapping objects
          made      \* what the caller has: a runner, a layout, or a refusal

vars == <<setup, asking, kernel, held, made>>

NoNode == -1
Numbers == 1..5
(* Of a range: its policy and advice, and those its pages were faulted     *)
(* under.                                                                  *)
Free == [bytes |-> 0, huge |-> FALSE, node |-> NoNode, advised |-> FALSE, touched |-> FALSE, on |-> NoNode, thp |-> FALSE,
         locked |-> FALSE]
Empty == [range |-> 0, bytes |-> 0]
RunnerParts == <<"working set", "copy 0", "copy 1", "copy 2">>
Owners == {RunnerParts[i] : i \in 1..4} \cup {"a", "b"}
NoRequest == [bytes |-> 0, huge |-> "none", populate |-> FALSE, lock |-> FALSE, node |-> NoNode]
Idle == [stage |-> "idle", owner |-> "a", request |-> NoRequest, range |-> 0, bytes |-> 0, failed |-> "none", fallen |-> "none"]
Nothing == [is |-> "none", outcome |-> "none", detail |-> <<>>, layout |-> <<>>]

WorkingSetInit ==
  /\ setup \in UNION {{[kind |-> "runner", of |-> s] : s \in Setups}, {[kind |-> "caller", of |-> <<>>]},
                      {[kind |-> "layout", of |-> p] : p \in Layouts}}
  /\ asking = Idle /\ kernel = [n \in Numbers |-> Free] /\ held = [o \in Owners |-> Empty] /\ made = Nothing

-----------------------------------------------------------------------------
(* layout.cpp: sizes that remember whether a step overflowed.              *)
Checked(value) == [value |-> value, overflowed |-> FALSE]
StepOnly(value, lhs, rhs) == [value |-> value % (MaxSize + 1), overflowed |-> value > MaxSize]
Wrapped(value, lhs, rhs) ==
  [value |-> value % (MaxSize + 1), overflowed |-> value > MaxSize \/ lhs.overflowed \/ rhs.overflowed]
Add(lhs, rhs) == Wrapped(lhs.value + rhs.value, lhs, rhs)
Multiply(lhs, rhs) == Wrapped(lhs.value * rhs.value, lhs, rhs)
RoundUp(size, line) ==
  LET sum == Add(size, Checked(line - 1)) IN [sum EXCEPT !.value = @ - (@ % line)]

PowersOfTwo == {2^k : k \in 0..8}
(* plan_layout: the offsets of the regions, or why there are none.         *)
LayoutOf(plan, threads, line) ==
  LET input == RoundUp(Checked(plan.input), line)
      output == RoundUp(Checked(plan.output), line)
      scratchBytes == Multiply(Checked(plan.scratch), Checked(threads))
      outputs == Multiply(input, Checked(plan.units))
      regenerated == Add(outputs, Multiply(output, Checked(plan.units)))
      scratch == Add(regenerated, input)
      bytes == Add(scratch, RoundUp(scratchBytes, line))
      mapping == Add(bytes, Checked(line))
  IN  IF line < MinLine \/ line \notin PowersOfTwo THEN [Nothing EXCEPT !.is = "configuration"]
      ELSE IF plan.units = 0 \/ plan.input = 0 \/ plan.output = 0 THEN [Nothing EXCEPT !.is = "configuration"]
      ELSE IF mapping.overflowed THEN [Nothing EXCEPT !.is = "resources"]
      ELSE [Nothing EXCEPT !.is = "layout", !.layout =
              [input |-> input.value, output |-> output.value, outputs |-> outputs.value, regenerated |-> regenerated.value,
               scratch |-> scratch.value, scratchBytes |-> scratchBytes.value, bytes |-> bytes.value, mapping |-> mapping.value]]

PlanLayout ==
  /\ setup.kind = "layout" /\ made.is = "none"
  /\ made' = LayoutOf(setup.of.plan, setup.of.threads, setup.of.line)
  /\ UNCHANGED <<setup, asking, kernel, held>>

-----------------------------------------------------------------------------
(* A request begins: map_by_policy decides the lock of the runner's.       *)
Begin(owner, request) ==
  asking' = [Idle EXCEPT !.stage = "map", !.owner = owner, !.request = request]
Request(bytes) ==
  [NoRequest EXCEPT !.bytes = bytes, !.populate = TRUE, !.lock = setup.of.policy # "none", !.node = setup.of.node]

(* make_slice_runner: the refusals in their order, the layout, the working *)
(* set.                                                                    *)
MakeRunner ==
  /\ setup.kind = "runner" /\ made.is = "none" /\ asking.stage = "idle"
  /\ IF setup.of.lacking # "nothing"
     THEN made' = [made EXCEPT !.is = "configuration"] /\ UNCHANGED asking
     ELSE LET layout == LayoutOf(setup.of.plan, setup.of.threads, setup.of.line)
          IN  IF layout.is # "layout" THEN made' = layout /\ UNCHANGED asking
              ELSE Begin("working set", Request(layout.layout.mapping)) /\ UNCHANGED made
  /\ UNCHANGED <<setup, kernel, held>>

(* Another caller asks for a mapping into an object that holds none.       *)
Ask ==
  /\ setup.kind = "caller" /\ asking.stage = "idle"
  /\ \E o \in {"a", "b"}, r \in Asked : held[o] = Empty /\ Begin(o, r)
  /\ UNCHANGED <<setup, kernel, held, made>>

(* round_up_to_huge_pages; what the kernel holds, and what is remembered.  *)
Whole(bytes) == ((bytes + HugeBytes - 1) \div HugeBytes) * HugeBytes
Rounds(bytes) == bytes <= MaxSize - (HugeBytes - 1)
AsAsked(request) == request.bytes
Remembered(request) ==
  IF request.huge = "explicit" THEN Whole(request.bytes) ELSE request.bytes

(* munmap frees a range only by the length it has.                         *)
Unmapped(k, mapping) ==
  IF mapping.range # 0 /\ k[mapping.range].bytes = mapping.bytes THEN [k EXCEPT ![mapping.range] = Free] ELSE k
Mine == [range |-> asking.range, bytes |-> asking.bytes]
(* A refusal on the way out: the Mapping unmaps what it holds.             *)
Refuse ==
  /\ kernel' = Unmapped(kernel, Mine)
  /\ asking' = [asking EXCEPT !.stage = "refused", !.failed = asking.stage, !.range = 0, !.bytes = 0]

(* Memory::map's stages in their order, each only when it is asked for.    *)
PopulateFirst == <<"map", "populate", "bind", "advise", "lock", "granted">>
Order == <<"map", "bind", "advise", "populate", "lock", "granted">>
Wanted(request) ==
  {"granted"} \cup (IF request.node # NoNode THEN {"bind"} ELSE {}) \cup (IF request.huge = "transparent" THEN {"advise"} ELSE {})
    \cup (IF request.populate THEN {"populate"} ELSE {}) \cup (IF request.lock THEN {"lock"} ELSE {})
After(stage) ==
  LET here == CHOOSE i \in 1..6 : Order[i] = stage
  IN  Order[Min({i \in (here + 1)..6 : Order[i] \in Wanted(asking.request)})]

MapAnonymous ==
  /\ asking.stage = "map"
  /\ \/ Refuse
     \/ LET n == Min({k \in Numbers : kernel[k].bytes = 0})
            huge == asking.request.huge = "explicit"
            bytes == Remembered(asking.request)
        IN  /\ huge => Rounds(asking.request.bytes)
            /\ bytes > 0
            /\ kernel' = [kernel EXCEPT ![n] = [Free EXCEPT !.bytes = IF huge THEN Whole(bytes) ELSE bytes, !.huge = huge]]
            /\ asking' = [asking EXCEPT !.stage = After("map"), !.range = n, !.bytes = bytes]
  /\ UNCHANGED <<setup, held, made>>

(* A call on the range of the request, which succeeds as `as`.             *)
Call(stage, possible, as) ==
  /\ asking.stage = stage
  /\ \/ Refuse
     \/ possible /\ kernel' = [kernel EXCEPT ![asking.range] = as] /\ asking' = [asking EXCEPT !.stage = After(stage)]
  /\ UNCHANGED <<setup, held, made>>

Touched(r) == IF r.touched THEN r ELSE [r EXCEPT !.touched = TRUE, !.on = r.node, !.thp = r.advised]
BindMemory ==
  Call("bind", asking.request.node < MaskBits, [kernel[asking.range] EXCEPT !.node = asking.request.node])
AdviseMemory == Call("advise", TRUE, [kernel[asking.range] EXCEPT !.advised = TRUE])
Populate == Call("populate", TRUE, Touched(kernel[asking.range]))
LockMemory == Call("lock", TRUE, [Touched(kernel[asking.range]) EXCEPT !.locked = TRUE])

-----------------------------------------------------------------------------
(* map_by_policy falls back once, and only from a refused lock.            *)
AnyRefusal == setup.of.policy = "try" /\ asking.fallen = "none"
FallsBack == setup.of.policy = "try" /\ asking.failed = "lock" /\ asking.fallen = "none"
MapUnlocked ==
  /\ setup.kind = "runner" /\ asking.stage = "refused" /\ FallsBack
  /\ asking' = [asking EXCEPT !.stage = "map", !.request.lock = FALSE, !.fallen = asking.failed, !.failed = "none"]
  /\ UNCHANGED <<setup, kernel, held, made>>

(* ~Mapping of everything held.                                            *)
AllUnmapped == FoldSet(LAMBDA o, k : Unmapped(k, held[o]), kernel, Owners)
NoneHeld == [o \in Owners |-> Empty]
RefuseRunner ==
  /\ setup.kind = "runner" /\ asking.stage = "refused" /\ ~FallsBack
  /\ kernel' = AllUnmapped /\ held' = NoneHeld /\ asking' = Idle
  /\ made' = [Nothing EXCEPT !.is = "resources"]
  /\ UNCHANGED setup

(* The outcome over everything the runner holds: the working set's, then   *)
(* of the copies' the first that fell back.                                *)
OfTheLast(lock) ==
  IF asking.fallen # "none" THEN [lock EXCEPT !.outcome = "fell back", !.detail = <<asking.owner, asking.fallen>>]
  ELSE [lock EXCEPT !.outcome = IF setup.of.policy = "none" THEN "not locked" ELSE "locked"]
WithLock(lock) ==
  IF lock.outcome = "fell back" THEN lock
  ELSE IF asking.fallen # "none" THEN [lock EXCEPT !.outcome = "fell back", !.detail = <<asking.owner, asking.fallen>>]
  ELSE [lock EXCEPT !.outcome = IF setup.of.policy = "none" THEN "not locked" ELSE "locked"]

Place ==
  /\ setup.kind = "runner" /\ asking.stage = "granted"
  /\ held' = [held EXCEPT ![asking.owner] = Mine]
  /\ LET at == CHOOSE i \in 1..4 : RunnerParts[i] = asking.owner
     IN  IF at < 4 THEN Begin(RunnerParts[at + 1], Request(CopyBytes)) /\ made' = WithLock(made)
         ELSE asking' = Idle /\ made' = [WithLock(made) EXCEPT !.is = "made"]
  /\ UNCHANGED <<setup, kernel>>

DestroyRunner ==
  /\ setup.kind = "runner" /\ made.is = "made"
  /\ kernel' = AllUnmapped /\ held' = NoneHeld /\ made' = [made EXCEPT !.is = "destroyed"]
  /\ UNCHANGED <<setup, asking>>

(* Another caller's mapping is returned or refused, moved, and let go.     *)
Return ==
  /\ setup.kind = "caller" /\ asking.stage \in {"granted", "refused"}
  /\ held' = IF asking.stage = "granted" THEN [held EXCEPT ![asking.owner] = Mine] ELSE held
  /\ asking' = Idle
  /\ UNCHANGED <<setup, kernel, made>>

Shared(from, to) == [held EXCEPT ![to] = held[from]]
Moved(from, to) == [held EXCEPT ![to] = held[from], ![from] = Empty]
MoveAssign ==
  /\ setup.kind = "caller" /\ asking.stage = "idle"
  /\ \E from, to \in {"a", "b"} :
       IF from = to THEN UNCHANGED <<kernel, held>>
       ELSE kernel' = Unmapped(kernel, held[to]) /\ held' = Moved(from, to)
  /\ UNCHANGED <<setup, asking, made>>

Release ==
  /\ setup.kind = "caller" /\ asking.stage = "idle"
  /\ \E o \in {"a", "b"} : kernel' = Unmapped(kernel, held[o]) /\ held' = [held EXCEPT ![o] = Empty]
  /\ UNCHANGED <<setup, asking, made>>

WorkingSetDone ==
  /\ made.is \in {"configuration", "resources", "layout", "destroyed"}
  /\ UNCHANGED vars

WorkingSetNext ==
  \/ PlanLayout \/ MakeRunner \/ Ask \/ MapAnonymous \/ BindMemory \/ AdviseMemory \/ Populate \/ LockMemory
  \/ MapUnlocked \/ RefuseRunner \/ Place \/ DestroyRunner \/ Return \/ MoveAssign \/ Release \/ WorkingSetDone

-----------------------------------------------------------------------------
(* The kernel holds exactly the ranges some Mapping holds, each held once  *)
(* and by the length that frees it: a refusal at any stage, a move or a    *)
(* second release leaks nothing and frees nothing of another's             *)
(* (memory.cpp:136-168, 210-211).                                          *)
EveryRangeIsHeld ==
  LET holders == {o \in Owners : held[o].range # 0}
      pending == {asking.range} \ {0}
  IN  /\ {n \in Numbers : kernel[n].bytes > 0} = {held[o].range : o \in holders} \cup pending
      /\ \A o, p \in holders : held[o].range = held[p].range => o = p
      /\ \A o \in holders : held[o].range \notin pending /\ held[o].bytes = kernel[held[o].range].bytes
      /\ \A n \in pending : asking.bytes = kernel[n].bytes
      /\ made.is \in {"configuration", "resources", "layout", "destroyed"} => holders \cup pending = {}

(* Pages are faulted in under the policy and the advice asked for, and a   *)
(* mapping is granted only as it was asked for (memory.cpp:193-252).       *)
FaultedAsAsked ==
  asking.range # 0 =>
    LET r == kernel[asking.range]
        q == asking.request
    IN  /\ r.touched => r.on = q.node /\ r.thp = (q.huge = "transparent")
        /\ asking.stage = "granted" =>
             /\ r.node = q.node /\ r.locked = q.lock /\ r.touched = (q.populate \/ q.lock)
             /\ r.bytes >= q.bytes /\ (r.huge => r.bytes % HugeBytes = 0)

(* What a runner says of its lock is so of all it holds: locked only when  *)
(* every range is, fallen back only under kTry, because a lock and nothing *)
(* else was refused, and with the first such range named                   *)
(* (slice_runner.cpp:474-484, locking.cpp:20-29).                          *)
LockIsTrue ==
  made.is = "made" =>
    LET locked == {i \in 1..4 : kernel[held[RunnerParts[i]].range].locked}
    IN  /\ (made.outcome = "locked") = (locked = 1..4)
        /\ (made.outcome = "not locked") = (setup.of.policy = "none")
        /\ made.outcome = "not locked" => locked = {}
        /\ made.outcome = "fell back" => setup.of.policy = "try" /\ made.detail = <<RunnerParts[Min((1..4) \ locked)], "lock">>

(* A layout is refused for its size exactly when the sum of its whole      *)
(* lines does not fit the width; one that is granted has every unit's      *)
(* input and output, the regenerated input and the scratch on lines of     *)
(* their own inside the mapping, wherever the mapping begins               *)
(* (layout.cpp:52-100, slice_runner.cpp:119-123).                          *)
LayoutIsSound ==
  LET p == setup.of.plan
      line == setup.of.line
      Lines(bytes) == (bytes + line - 1) \div line
      need == line * ((p.units + 1) * Lines(p.input) + p.units * Lines(p.output) + Lines(p.scratch * setup.of.threads) + 1)
      l == made.layout
      regions == {<<i * l.input, p.input>> : i \in 0..(p.units - 1)} \cup {<<l.outputs + i * l.output, p.output>> : i \in 0..(p.units - 1)}
                   \cup {<<l.regenerated, p.input>>, <<l.scratch, p.scratch * setup.of.threads>>}
  IN  setup.kind = "layout" =>
        /\ made.is = "resources" => need > MaxSize
        /\ made.is = "layout" =>
             /\ need <= MaxSize
             /\ Cardinality({r \in regions : r[2] > 0}) = 2 * p.units + 1 + (IF p.scratch = 0 THEN 0 ELSE 1)
             /\ \A r \in regions : r[1] % line = 0
             /\ \A r, s \in regions : r # s /\ r[1] <= s[1] => r[1] + r[2] <= s[1]
             /\ \A start \in 0..(line - 1), r \in regions : ((line - start) % line) + r[1] + r[2] <= l.mapping

WorkingSetIsRight == EveryRangeIsHeld /\ FaultedAsAsked /\ LockIsTrue /\ LayoutIsSound
=============================================================================
