------------------------------ MODULE Atomics -------------------------------
(***************************************************************************)
(* The atomic calibration loads (primitives/atomic): contend, in which     *)
(* every unit adds to a counter, and handoff, in which every unit          *)
(* publishes a plain payload by a flag and reads the others'.              *)
(*                                                                         *)
(* The memory of a handoff is the C++ one in its view form: a location is  *)
(* the sequence of the writes made to it, a load may return any write not  *)
(* older than the thread's view, a release store carries the view of its   *)
(* thread and an acquire load takes it over.  A sequentially consistent    *)
(* operation does both and more, so what holds here of the weakest orders  *)
(* holds of kSeqCst.  A counter is only ever added to, and the additions   *)
(* to one location are totally ordered: it is a number.  The cells and the *)
(* counters hold what an earlier run left there.                           *)
(***************************************************************************)
EXTENDS Integers, Sequences, FiniteSets, FiniteSetsExt

CONSTANTS Word,                     \* 2^64
          CounterBytes, MaxLine,    \* kCounterBytes, kMaxLineBytes
          Contentions,              \* the calls of contend
          Handoffs,                 \* the calls of handoff: units and threads
          Payloads                  \* payload_of this run's seed, per unit

VARIABLES load,      \* the call: which, and its arguments
          mem,       \* the counters, or the writes to every cell
          threads,   \* the executor's
          next,      \* the next unit to be claimed
          partials,  \* what each unit found: its tickets, or its Seen
          outcome    \* what the call returned

vars == <<load, mem, threads, next, partials, outcome>>

Junk == 3
NoUnit == [tickets |-> 0, observed |-> 0, mismatches |-> 0]
None == [is |-> "none", total |-> 0, tickets |-> 0, observed |-> 0, mismatches |-> 0, published |-> 0]
Units == 1..load.units
Slots == 1..load.threads
AllDone == next = load.units + 1 /\ \A t \in Slots : threads[t].pc = "idle"
SumOf(f(_), S) == FoldSet(LAMBDA x, sum : sum + f(x), 0, S)

-----------------------------------------------------------------------------
(* The storage of a contention load.                                       *)
LineIsValid(line) == line # 0 /\ line % CounterBytes = 0 /\ line <= MaxLine
StorageElements(line, slots) == slots * (line \div CounterBytes)
Enough(line, slots) == StorageElements(line, slots) + line \div CounterBytes - 1
GapOfAddress(address, line) == address % line
GapOf(address, line) == (line - (address % line)) % line
AlignedStorage(storage, line) ==
  LET gap == GapOf(storage.address, line) \div CounterBytes
      skip == IF gap < storage.size THEN gap ELSE storage.size
  IN  [address |-> storage.address + skip * CounterBytes, size |-> storage.size - skip]

(* The caller aligns an allocation of the advised size, or hands over what *)
(* it has.                                                                 *)
StorageOf(call) ==
  IF call.aligns /\ LineIsValid(call.line)
  THEN AlignedStorage([address |-> call.address, size |-> Enough(call.line, call.threads)], call.line)
  ELSE [address |-> call.address, size |-> call.size]
RefusalOf(call) ==
  LET storage == StorageOf(call)
  IN  CASE ~LineIsValid(call.line) -> "line bytes invalid"
        [] storage.size < StorageElements(call.line, call.threads) -> "storage too small"
        [] storage.address % call.line # 0 -> "storage misaligned"
        [] OTHER -> "none"

Stride == load.line \div CounterBytes
CounterOf(slot) == (slot - 1) * Stride + 1
ExpectedUnhalved(total) == ((total * ((total - 1) % Word)) % Word) \div 2
ExpectedTicketSum(total) ==
  LET below == (total - 1) % Word
  IN  IF total % 2 = 0 THEN ((total \div 2) * below) % Word ELSE (total * (below \div 2)) % Word

-----------------------------------------------------------------------------
(* The cells of a handoff.                                                 *)
Locations(units) == {"ready", "payload"} \X (1..units)
Bottom(units) == [l \in Locations(units) |-> 1]
Join(v, w) == [l \in DOMAIN v |-> IF v[l] >= w[l] THEN v[l] ELSE w[l]]
Latest == [l \in DOMAIN mem |-> Len(mem[l])]

AtomicsInit ==
  /\ load \in {[call EXCEPT !.kind = "contend"] : call \in Contentions} \cup {[call EXCEPT !.kind = "handoff"] : call \in Handoffs}
  /\ mem = IF load.kind = "contend" THEN [i \in 1..StorageOf(load).size |-> Junk]
           ELSE [l \in Locations(load.units) |->
                   <<[val |-> IF l[1] = "ready" THEN 1 ELSE Junk, view |-> Bottom(load.units)]>>]
  /\ threads = [t \in Slots |-> [pc |-> "waits", unit |-> 0, at |-> 0, view |-> Bottom(load.units), found |-> NoUnit]]
  /\ next = 1 /\ partials = [u \in Units |-> NoUnit] /\ outcome = None

(* The call up to executor.run, which starts every task with the caller's  *)
(* view.                                                                   *)
Left(counters) == counters
Zeroed(counters) == [i \in DOMAIN counters |-> IF \E t \in Slots : i = CounterOf(t) THEN 0 ELSE counters[i]]
Contend ==
  /\ load.kind = "contend" /\ outcome.is = "none" /\ \A t \in Slots : threads[t].pc = "waits"
  /\ IF RefusalOf(load) # "none" THEN outcome' = [None EXCEPT !.is = RefusalOf(load)] /\ UNCHANGED <<mem, threads>>
     ELSE /\ mem' = Zeroed(mem)
          /\ threads' = [t \in Slots |-> [threads[t] EXCEPT !.pc = "idle"]]
          /\ UNCHANGED outcome
  /\ UNCHANGED <<load, next, partials>>

FlagsKept(l) == IF l[1] = "ready" THEN 1 ELSE 0
ZeroedCell(l) == 0
Handoff ==
  /\ load.kind = "handoff" /\ outcome.is = "none" /\ \A t \in Slots : threads[t].pc = "waits"
  /\ mem' = [l \in DOMAIN mem |-> Append(mem[l], [val |-> ZeroedCell(l), view |-> Bottom(load.units)])]
  /\ threads' = [t \in Slots |-> [threads[t] EXCEPT !.pc = "idle", !.view = [l \in DOMAIN mem |-> 2]]]
  /\ UNCHANGED <<load, next, partials, outcome>>

(* A thread of the executor takes the next unit.                           *)
Claim(t) ==
  /\ threads[t].pc = "idle" /\ next <= load.units
  /\ threads' = [threads EXCEPT ![t].pc = load.kind, ![t].unit = next, ![t].at = 1, ![t].found = NoUnit]
  /\ next' = next + 1
  /\ UNCHANGED <<load, mem, partials, outcome>>

EndUnit(t, found) ==
  /\ partials' = [partials EXCEPT ![threads[t].unit] = found]
  /\ threads' = [threads EXCEPT ![t].pc = "idle", ![t].found = NoUnit]

(* shared_unit and sharded_unit: one fetch_add, and the end of the unit.   *)
FetchAdd(t) ==
  LET counter == IF load.mode = "shared" THEN 1 ELSE CounterOf(t)
  IN  /\ threads[t].pc = "contend" /\ threads[t].at <= load.increments
      /\ mem' = [mem EXCEPT ![counter] = (@ + 1) % Word]
      /\ threads' = [threads EXCEPT ![t].at = @ + 1, ![t].found.tickets = IF load.mode = "shared" THEN (@ + mem[counter]) % Word ELSE 0]
      /\ UNCHANGED <<load, next, partials, outcome>>
EndContention(t) ==
  /\ threads[t].pc = "contend" /\ threads[t].at > load.increments
  /\ EndUnit(t, threads[t].found)
  /\ UNCHANGED <<load, mem, next, outcome>>

-----------------------------------------------------------------------------
(* handoff_unit.                                                           *)
Written(t, l, val, view) ==
  /\ mem' = [mem EXCEPT ![l] = Append(@, [val |-> val, view |-> view])]
  /\ threads' = [threads EXCEPT ![t].view[l] = Len(mem[l]) + 1, ![t].pc = IF l[1] = "payload" THEN "publish" ELSE "load"]
WritePayload(t) ==
  /\ threads[t].pc = "handoff"
  /\ Written(t, <<"payload", threads[t].unit>>, Payloads[threads[t].unit], Bottom(load.units))
  /\ UNCHANGED <<load, next, partials, outcome>>

(* What a store to the flag carries, and what a load of it takes over.     *)
Relaxed(t) == Bottom(load.units)
Released(t) == threads[t].view
Publish(t) ==
  /\ threads[t].pc = "publish"
  /\ Written(t, <<"ready", threads[t].unit>>, 1, Released(t))
  /\ UNCHANGED <<load, next, partials, outcome>>

NotTaken(view, write) == view
Acquired(view, write) == Join(view, write.view)
LoadReady(t) ==
  LET l == <<"ready", threads[t].at>>
  IN  /\ threads[t].pc = "load" /\ threads[t].at <= load.units
      /\ IF threads[t].at = threads[t].unit THEN threads' = [threads EXCEPT ![t].at = @ + 1]
         ELSE \E i \in threads[t].view[l]..Len(mem[l]) :
                LET view == Acquired([threads[t].view EXCEPT ![l] = i], mem[l][i])
                IN  threads' = IF mem[l][i].val = 1 THEN [threads EXCEPT ![t].view = view, ![t].pc = "read"]
                               ELSE [threads EXCEPT ![t].view = view, ![t].at = @ + 1]
      /\ UNCHANGED <<load, mem, next, partials, outcome>>

(* record: the plain read may return any write the thread may see.         *)
ReadPayload(t) ==
  LET l == <<"payload", threads[t].at>>
  IN  /\ threads[t].pc = "read"
      /\ \E i \in threads[t].view[l]..Len(mem[l]) :
           threads' = [threads EXCEPT ![t].pc = "load", ![t].at = @ + 1, ![t].view[l] = i, ![t].found.observed = @ + 1,
                                      ![t].found.mismatches = @ + (IF mem[l][i].val # Payloads[l[2]] THEN 1 ELSE 0)]
      /\ UNCHANGED <<load, mem, next, partials, outcome>>
EndHandoff(t) ==
  /\ threads[t].pc = "load" /\ threads[t].at > load.units
  /\ EndUnit(t, threads[t].found)
  /\ UNCHANGED <<load, mem, next, outcome>>

-----------------------------------------------------------------------------
(* executor.run has returned, with the views of all tasks joined.          *)
SumContention ==
  /\ load.kind = "contend" /\ outcome.is = "none" /\ AllDone
  /\ outcome' = [None EXCEPT !.is = "done", !.total = SumOf(LAMBDA t : mem[CounterOf(t)], Slots) % Word,
                             !.tickets = SumOf(LAMBDA u : partials[u].tickets, Units) % Word]
  /\ UNCHANGED <<load, mem, threads, next, partials>>
SumHandoff ==
  /\ load.kind = "handoff" /\ outcome.is = "none" /\ AllDone
  /\ outcome' = [None EXCEPT !.is = "done", !.observed = SumOf(LAMBDA u : partials[u].observed, Units),
                             !.mismatches = SumOf(LAMBDA u : partials[u].mismatches, Units),
                             !.published = SumOf(LAMBDA u : mem[<<"ready", u>>][Latest[<<"ready", u>>]].val, Units)]
  /\ UNCHANGED <<load, mem, threads, next, partials>>

AtomicsDone == outcome.is # "none" /\ UNCHANGED vars
AtomicsNext ==
  \/ Contend \/ Handoff \/ SumContention \/ SumHandoff \/ AtomicsDone
  \/ \E t \in Slots :
       \/ Claim(t) \/ FetchAdd(t) \/ EndContention(t)
       \/ WritePayload(t) \/ Publish(t) \/ LoadReady(t) \/ ReadPayload(t) \/ EndHandoff(t)

-----------------------------------------------------------------------------
(* However the additions interleave, none is lost and no ticket is given   *)
(* twice: the total and the sum of the tickets are those of the call, with *)
(* the wrap of the word (atomic.hpp:19-37, 69-74).                         *)
ContentionIsExact ==
  load.kind = "contend" /\ outcome.is = "done" =>
    LET total == load.units * load.increments
    IN  /\ outcome.total = total
        /\ outcome.tickets = IF load.mode = "shared" THEN ExpectedTicketSum(total) ELSE 0
        /\ ExpectedTicketSum(total) = ((total * (total - 1)) \div 2) % Word

(* The size the header advises is always enough, and no two slots' counters*)
(* share a line (atomic.hpp:119-123).                                      *)
AdvisedIsEnough ==
  load.kind = "contend" /\ LineIsValid(load.line) =>
    LET storage == StorageOf(load)
        LineOf(t) == (storage.address + (CounterOf(t) - 1) * CounterBytes) \div load.line
    IN  /\ load.aligns => RefusalOf(load) = "none"
        /\ RefusalOf(load) = "none" => \A t, u \in Slots : CounterOf(t) <= storage.size /\ (LineOf(t) = LineOf(u) => t = u)

(* No unit reads a payload its view does not order after the last write of *)
(* it, so no read races and none is stale; and every unit is published     *)
(* (atomic.hpp:47-66).                                                     *)
HandoffIsOrdered ==
  load.kind = "handoff" =>
    /\ \A t \in Slots : threads[t].pc = "read" =>
         LET l == <<"payload", threads[t].at>> IN threads[t].view[l] = Len(mem[l]) /\ Len(mem[l]) = 3
    /\ outcome.is = "done" =>
         /\ outcome.mismatches = 0 /\ outcome.published = load.units
         /\ load.threads = 1 => outcome.observed = (load.units * (load.units - 1)) \div 2

AtomicsAreRight == ContentionIsExact /\ AdvisedIsEnough /\ HandoffIsOrdered
=============================================================================
