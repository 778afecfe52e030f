----------------------------- MODULE Heartbeat -----------------------------
(***************************************************************************)
(* One slot of the shared-memory heartbeat region (worker/ipc/heartbeat):  *)
(* a single-writer seqlock between two processes.  The writer publishes    *)
(* beats; the reader takes samples, retrying a bounded number of times.    *)
(* Every other slot, and every other reader of this one, is another        *)
(* instance: slots share no memory and readers write nothing.              *)
(*                                                                         *)
(* The memory is the C++ one, in its view form: a location is the sequence *)
(* of the writes made to it, and a load may return any write not older     *)
(* than the thread's view of that location.  A release store (or a store   *)
(* after a release fence) carries the view its writer had; an acquire load *)
(* (or an acquire fence after a relaxed load) takes the view over.  A beat *)
(* is its number: beat k is the k-th published, 0 the zero-filled memory.  *)
(***************************************************************************)
EXTENDS Naturals, Sequences, FiniteSets

CONSTANTS Fields,           \* timestamp_ns, progress, phase, pid
          MaxTornRetries,   \* kMaxTornRetries: attempts before kTorn
          MaxBeats          \* bound: beats the writer publishes

Sequence == "sequence"
Locations == {Sequence} \cup Fields

ASSUME FieldsAssumption == Fields # {} /\ Sequence \notin Fields
ASSUME RetriesAssumption == MaxTornRetries \in Nat \ {0}
ASSUME BeatsAssumption == MaxBeats \in Nat

VARIABLES mem,      \* per location, its writes in modification order
          writer,   \* the publishing process
          reader,   \* the observing process
          answer    \* what the last observe returned, with the last sample

vars == <<mem, writer, reader, answer>>

View == [Locations -> Nat]
Write == [val : Nat, view : View]

(* The oldest view: only the initial write of every location is known.     *)
Bottom == [l \in Locations |-> 1]

Join(v, w) == [l \in Locations |-> IF v[l] >= w[l] THEN v[l] ELSE w[l]]

(* The view of a thread that has read or made write i of location l.       *)
At(v, l, i) == [v EXCEPT ![l] = IF @ >= i THEN @ ELSE i]

(* A fresh memfd is zero-filled: sequence 0 reads as "never published".    *)
Init ==
  /\ mem = [l \in Locations |-> <<[val |-> 0, view |-> Bottom]>>]
  /\ writer = [pc |-> "idle", view |-> Bottom, fence |-> Bottom,
               beat |-> 0, done |-> 0, left |-> {}]
  /\ reader = [pc |-> "idle", view |-> Bottom, pending |-> Bottom,
               attempts |-> 0, before |-> 0, beat |-> [f \in Fields |-> 0],
               left |-> {}]
  /\ answer = [kind |-> "none", beat |-> [f \in Fields |-> 0]]

-----------------------------------------------------------------------------
(* publish                                                                 *)

(* A store of `val` to l that carries the view `carried`.                  *)
Store(l, val, carried) ==
  mem' = [mem EXCEPT ![l] = Append(@, [val |-> val,
                                       view |-> At(carried, l, Len(@) + 1)])]

(* The slot has one writer: its own load returns its own latest store.     *)
Latest(l) == mem[l][Len(mem[l])].val

WriterSees(l) == At(writer.view, l, Len(mem[l]) + 1)

(* The sequence goes odd: load relaxed plus one, store relaxed.          *)
GoOdd ==
  /\ writer.pc = "idle"
  /\ writer.beat < MaxBeats
  /\ Store(Sequence, Latest(Sequence) + 1, writer.fence)
  /\ writer' = [writer EXCEPT !.pc = "fence", !.beat = @ + 1,
                              !.view = WriterSees(Sequence)]
  /\ UNCHANGED <<reader, answer>>

(* What a release fence makes later stores carry: all the writer has seen. *)
NoFence == writer.fence
FenceView == writer.view

(* atomic_thread_fence(release): later stores carry this view.             *)
Fence ==
  /\ writer.pc = "fence"
  /\ writer' = [writer EXCEPT !.pc = "fields", !.fence = FenceView,
                              !.left = Fields]
  /\ UNCHANGED <<mem, reader, answer>>

(* One relaxed field store.                                                *)
StoreField(f) ==
  /\ writer.pc = "fields"
  /\ f \in writer.left
  /\ Store(f, writer.beat, writer.fence)
  /\ writer' = [writer EXCEPT !.left = @ \ {f}, !.view = WriterSees(f)]
  /\ UNCHANGED <<reader, answer>>

(* The value a publish leaves: the next after the odd one it wrote.        *)
AtRest(writing) == writing + 1

(* The sequence goes even, a release store: it carries the whole view.     *)
GoEven ==
  /\ writer.pc = "fields"
  /\ writer.left = {}
  /\ Store(Sequence, AtRest(Latest(Sequence)), writer.view)
  /\ writer' = [writer EXCEPT !.pc = "idle", !.done = writer.beat,
                              !.view = WriterSees(Sequence)]
  /\ UNCHANGED <<reader, answer>>

(* The writing process dies, wherever it is: nothing of the slot changes.  *)
WriterDies ==
  /\ writer.pc # "dead"
  /\ writer' = [writer EXCEPT !.pc = "dead"]
  /\ UNCHANGED <<mem, reader, answer>>

-----------------------------------------------------------------------------
(* observe                                                                 *)

Readable(l) == reader.view[l] .. Len(mem[l])

Answer(kind, beat) == answer' = [kind |-> kind, beat |-> beat]

(* The acquire load that begins an attempt; 0 is "never published".        *)
LoadBefore ==
  /\ reader.pc = "idle"
  /\ \E i \in Readable(Sequence) :
       LET read == mem[Sequence][i]
           seen == Join(At(reader.view, Sequence, i), read.view) IN
         IF read.val = 0
         THEN /\ reader' = [reader EXCEPT !.view = seen, !.attempts = 0]
              /\ Answer("never", answer.beat)
         ELSE /\ reader' = [reader EXCEPT !.pc = "fields", !.view = seen,
                                          !.before = read.val, !.left = Fields]
              /\ UNCHANGED answer
  /\ UNCHANGED <<mem, writer>>

(* One relaxed field load: what the write carried waits for the fence.     *)
LoadField(f) ==
  /\ reader.pc = "fields"
  /\ f \in reader.left
  /\ \E i \in Readable(f) :
       reader' = [reader EXCEPT !.left = @ \ {f},
                                !.beat[f] = mem[f][i].val,
                                !.view = At(@, f, i),
                                !.pending = Join(@, mem[f][i].view)]
  /\ UNCHANGED <<mem, writer, answer>>

sample_is_consistent(before, after) == before % 2 = 0 /\ before = after

(* The acquire fence.                                                      *)
AcquireFence ==
  /\ reader.pc = "fields"
  /\ reader.left = {}
  /\ reader' = [reader EXCEPT !.pc = "after",
                              !.view = Join(@, reader.pending)]
  /\ UNCHANGED <<mem, writer, answer>>

(* Whether an attempt that failed leaves another to make, and its number.  *)
RetryOneMore(attempts) == attempts < MaxTornRetries
Retry(attempts) == attempts + 1 < MaxTornRetries
NotCounted(attempts) == attempts
Counted(attempts) == attempts + 1

(* The relaxed second load and the verdict: the sample, another attempt,   *)
(* or kTorn after the last one.                                            *)
LoadAfter ==
  /\ reader.pc = "after"
  /\ \E i \in Readable(Sequence) :
       LET seen == [reader EXCEPT !.pc = "idle",
                                  !.view = At(@, Sequence, i),
                                  !.pending = Join(@, mem[Sequence][i].view)] IN
         IF sample_is_consistent(reader.before, mem[Sequence][i].val)
         THEN /\ reader' = [seen EXCEPT !.attempts = 0]
              /\ Answer("sample", reader.beat)
         ELSE IF Retry(reader.attempts)
         THEN /\ reader' = [seen EXCEPT !.attempts = Counted(@)]
              /\ UNCHANGED answer
         ELSE /\ reader' = [seen EXCEPT !.attempts = 0]
              /\ Answer("torn", answer.beat)
  /\ UNCHANGED <<mem, writer>>

Next ==
  \/ GoOdd
  \/ Fence
  \/ \E f \in Fields : StoreField(f)
  \/ GoEven
  \/ WriterDies
  \/ LoadBefore
  \/ \E f \in Fields : LoadField(f)
  \/ AcquireFence
  \/ LoadAfter

Spec == Init /\ [][Next]_vars

(* An observe is a bounded run of loads with nothing to wait for: a reader *)
(* that has begun one, and keeps being scheduled, finishes it and is asked *)
(* again by the next tick.  Nothing is assumed of the writer.              *)
Observe == LoadBefore \/ (\E f \in Fields : LoadField(f)) \/ AcquireFence \/ LoadAfter
FairSpec == Spec /\ WF_vars(Observe)

-----------------------------------------------------------------------------
(* The variables keep their types; an observe makes no attempt past        *)
(* kMaxTornRetries.                                                        *)
TypeOK ==
  /\ mem \in [Locations -> Seq(Write)]
  /\ writer \in [pc : {"idle", "fence", "fields", "dead"}, view : View,
                 fence : View, beat : Nat, done : Nat, left : SUBSET Fields]
  /\ reader \in [pc : {"idle", "fields", "after"}, view : View,
                 pending : View, attempts : 0 .. MaxTornRetries - 1,
                 before : Nat,
                 beat : [Fields -> Nat], left : SUBSET Fields]
  /\ answer \in [kind : {"none", "never", "sample", "torn"},
                 beat : [Fields -> Nat]]

(* A sample observe accepts is one whole beat: every field comes from the  *)
(* same publish, and that publish was completed -- never half of one beat  *)
(* and half of the next, whatever the memory reorders and wherever the     *)
(* writer died.                                                            *)
SampleIsOneBeat ==
  answer.kind = "sample" =>
    \E k \in 1 .. writer.done : answer.beat = [f \in Fields |-> k]

(* A reader that has had a sample is never again told the slot has never   *)
(* been published.                                                         *)
NeverBeatIsFinal ==
  answer.kind = "never" => answer.beat = [f \in Fields |-> 0]

(* The writer died between the two halves of a publish, and the reader's   *)
(* view of the sequence has caught up with that.                           *)
StuckMidPublish ==
  /\ writer.pc = "dead"
  /\ writer.beat # writer.done
  /\ reader.view[Sequence] = Len(mem[Sequence])

(* A writer that died inside publish is reported kTorn within the retry    *)
(* bound, never spun on and never sampled.                                 *)
StuckIsReportedTorn == StuckMidPublish ~> (answer.kind = "torn")
=============================================================================
