--------------------------- MODULE RecordChannel ---------------------------
(***************************************************************************)
(* The record channel: a verifying worker reports every finding and a      *)
(* running tally in checksummed frames (verified_run.cpp, record.cpp) over *)
(* a pipe of bounded size, and the controller reads it in whatever pieces  *)
(* it finds (orchestration.cpp).  The worker may die inside a frame, give  *)
(* up writing one, or write a frame its machine corrupted; another process *)
(* may hold the write end after it is dead.                                *)
(*                                                                         *)
(* A frame is a header cell and its body cells.  A cell knows the frame    *)
(* and the part it came from, and so whether a checksum over it holds.     *)
(* Acknowledgements travel on this pipe too; they are in module Watch.     *)
(***************************************************************************)
EXTENDS Naturals, SequencesExt

CONSTANTS PipeCells,        \* what the pipe holds
          Chunk,            \* kChunkBytes
          MaxBody,          \* kMaxPayloadBytes
          MaxKept,          \* kMaxFindingsKept
          MaxInterrupts,    \* kMaxConsecutiveInterrupts
          MaxDrains,        \* kMaxDrainsAfterDeath
          MaxFrames,        \* bound: frames the worker begins
          MaxFaults         \* bound: cells corrupted in the worker

VARIABLES worker,    \* its state, its tallies, the frames it has yet to send
          out,       \* the cells of the frame being written
          pipe,
          held,      \* another process has the write end
          sent,      \* the frames the worker wrote a cell of
          reader,    \* RecordReader: the buffer; and where drain() is
          channel,   \* channel_open
          tracked,   \* what the controller keeps of the worker
          taken,     \* history: the worker's frames that were ingested
          spoiled,   \* history: the stream is not one sound worker's
          reaped, drains, late, faults

vars == <<worker, out, pipe, held, sent, reader, channel, tracked, taken, spoiled, reaped, drains, late,
          faults>>
controller == <<reader, channel, tracked, taken, reaped, drains, late>>

Findings == {"wrong", "unchecked"}
Kinds == Findings \cup {"started", "memory", "tally", "finished", "failed", "note"}
Frame(kind, units) == [kind |-> kind, units |-> units]
Plain(kind) == Frame(kind, 0)
Tally(units) == Frame("tally", units)

Body(kind) == IF kind \in Findings THEN 2 ELSE 1
Flaws == {"none", "magic", "length", "bits"}

(* encode: the header, then the payload.  Frame 0 is another process's.    *)
Encoded(id, frame) ==
  [i \in 1 .. 1 + Body(frame.kind) |->
     [id |-> id, part |-> i - 1, frame |-> frame, claims |-> Body(frame.kind), flaw |-> "none"]]

Init ==
  /\ worker = [pc |-> "working", todo |-> <<Plain("started"), Plain("memory")>>, then |-> "working",
               carried |-> 0, total |-> 0, interrupts |-> 0]
  /\ out = <<>> /\ pipe = <<>> /\ held \in BOOLEAN /\ sent = <<>>
  /\ reader = [pc |-> "idle", buffer |-> <<>>]
  /\ channel = "open"
  /\ tracked = [corrupt |-> FALSE, truncated |-> FALSE, finished |-> FALSE,
                wrong |-> 0, unchecked |-> 0, kept |-> 0, dropped |-> 0, units |-> 0]
  /\ taken = <<>>
  /\ spoiled = FALSE /\ reaped = FALSE /\ drains = 0 /\ late = FALSE /\ faults = 0

-----------------------------------------------------------------------------
(* The worker                                                              *)

Idle == worker.pc = "working" /\ worker.todo = <<>> /\ out = <<>>
Fits(frames) == Len(sent) + Len(frames) <= MaxFrames

(* Everything counted so far: the runners replaced, and this one.          *)
Carried(carried, total) == carried + total
Whole(carried, total) == carried + total

(* A slice: its records, then the running tally.                           *)
Slice(found) ==
  LET report == Append(found, Tally(Whole(worker.carried, worker.total + 1))) IN
  /\ Idle /\ Fits(report)
  /\ worker' = [worker EXCEPT !.total = @ + 1, !.todo = report]
  /\ UNCHANGED <<out, pipe, held, sent, controller, spoiled, faults>>

(* A Switch or a Rebind: the old runner's last tally, then the new         *)
(* runner's memory; a new runner counts from nothing.                      *)
Replace ==
  LET carried == Carried(worker.carried, worker.total)
      report == <<Tally(carried), Plain("memory")>> IN
  /\ Idle /\ Fits(report)
  /\ worker' = [worker EXCEPT !.carried = carried, !.total = 0, !.todo = report]
  /\ UNCHANGED <<out, pipe, held, sent, controller, spoiled, faults>>

(* The run's last word, and that it finished.                              *)
Conclude(found) ==
  LET carried == Carried(worker.carried, worker.total) IN
  /\ Idle /\ Len(found) <= 1
  /\ worker' = [worker EXCEPT !.carried = carried, !.then = "exited",
                  !.todo = found \o <<Tally(carried), Plain("finished")>>]
  /\ UNCHANGED <<out, pipe, held, sent, controller, spoiled, faults>>

(* The worker cannot go on: the reason is its last record.                 *)
GiveUp ==
  /\ worker.pc = "working" /\ out = <<>>
  /\ worker.todo # <<>> => Head(worker.todo) = Plain("memory")
  /\ worker' = [worker EXCEPT !.then = "exited", !.todo = <<Plain("failed")>>]
  /\ UNCHANGED <<out, pipe, held, sent, controller, spoiled, faults>>

(* send: the next frame is encoded ...                                     *)
Send ==
  /\ worker.pc = "working" /\ worker.todo # <<>> /\ out = <<>>
  /\ out' = Encoded(Len(sent) + 1, Head(worker.todo))
  /\ UNCHANGED <<worker, pipe, held, sent, controller, spoiled, faults>>

(* ... and written, whole or in pieces, as the pipe has room.              *)
Sent == IF Head(out).part = 0 THEN Append(sent, Head(out).frame) ELSE sent

Write(n) ==
  /\ worker.pc = "working" /\ channel = "open"
  /\ n <= Len(out) /\ Len(pipe) + n <= PipeCells
  /\ pipe' = pipe \o SubSeq(out, 1, n)
  /\ out' = SubSeq(out, n + 1, Len(out))
  /\ sent' = Sent
  /\ worker' = IF n < Len(out) THEN [worker EXCEPT !.interrupts = 0]
               ELSE [worker EXCEPT !.interrupts = 0, !.todo = Tail(@),
                       !.pc = IF Len(worker.todo) = 1 THEN worker.then ELSE @]
  /\ UNCHANGED <<held, controller, spoiled, faults>>

(* Too many interrupted writes in a row: the frame stays as it is, and the *)
(* worker gives up, with a record if it is not its first or its last.      *)
Speaks(kind) == kind \notin {"started", "finished", "failed"}

Interrupted ==
  /\ worker.pc = "working" /\ out # <<>>
  /\ IF worker.interrupts + 1 < MaxInterrupts
     THEN worker' = [worker EXCEPT !.interrupts = @ + 1] /\ UNCHANGED <<out, spoiled>>
     ELSE /\ out' = <<>> /\ spoiled' = TRUE
          /\ worker' = IF Speaks(Head(worker.todo).kind)
                       THEN [worker EXCEPT !.interrupts = 0, !.then = "exited",
                               !.todo = <<Plain("failed")>>]
                       ELSE [worker EXCEPT !.pc = "exited", !.todo = <<>>]
  /\ UNCHANGED <<pipe, held, sent, controller, faults>>

(* EPIPE: nobody reads.                                                    *)
ControllerGone ==
  /\ worker.pc = "working" /\ out # <<>> /\ channel = "closed"
  /\ worker' = [worker EXCEPT !.pc = "exited", !.todo = <<>>] /\ out' = <<>>
  /\ UNCHANGED <<pipe, held, sent, controller, spoiled, faults>>

Die ==
  /\ worker.pc = "working"
  /\ worker' = [worker EXCEPT !.pc = "exited", !.todo = <<>>] /\ out' = <<>>
  /\ UNCHANGED <<pipe, held, sent, controller, spoiled, faults>>

(* The machine corrupts a cell of a frame before it is written.            *)
Corrupt(i, flaw, claims) ==
  /\ faults < MaxFaults /\ faults' = faults + 1 /\ spoiled' = TRUE
  /\ i <= Len(out) /\ flaw # "none"
  /\ out[i].part > 0 => flaw = "bits"
  /\ IF flaw = "length" THEN claims # out[i].claims ELSE claims = out[i].claims
  /\ out' = [out EXCEPT ![i].flaw = flaw, ![i].claims = claims]
  /\ UNCHANGED <<worker, pipe, held, sent, controller>>

(* The other process: it writes a frame of its own, or closes its end.     *)
Intrude ==
  /\ held /\ channel = "open" /\ Len(pipe) + 2 <= PipeCells
  /\ pipe' = pipe \o Encoded(0, Plain("note")) /\ spoiled' = TRUE
  /\ UNCHANGED <<worker, out, held, sent, controller, faults>>

LetGo ==
  /\ held /\ held' = FALSE
  /\ UNCHANGED <<worker, out, pipe, sent, controller, spoiled, faults>>

-----------------------------------------------------------------------------
(* The controller                                                          *)

Closed == channel' = "closed" /\ reader' = [reader EXCEPT !.pc = "idle"]
StaysOpen(pc, buffer) == UNCHANGED channel /\ reader' = [pc |-> pc, buffer |-> buffer]

(* RecordReader::next, in the order a reader can check.                    *)
Matches(cells) ==
  \A i \in 1 .. Len(cells) :
    /\ cells[i].id = cells[1].id /\ cells[i].part = i - 1
    /\ cells[i].flaw = "none"
Sums(cells) == Matches(cells)

Found(buffer) ==
  IF buffer = <<>> THEN "nothing"
  ELSE LET header == Head(buffer) IN
    CASE header.part # 0 \/ header.flaw = "magic" -> "bad magic"
      [] header.claims > MaxBody -> "oversized"
      [] Len(buffer) < 1 + header.claims -> "nothing"
      [] ~Sums(SubSeq(buffer, 1, 1 + header.claims)) -> "bad checksum"
      [] OTHER -> "record"

(* drain: one read, of what there is.                                      *)
Ends == worker.pc = "exited" /\ ~held
Unended(buffer) == FALSE
Truncated(buffer) == buffer # <<>>
NotCounted == drains
Counted == drains + 1

Read ==
  LET n == IF Len(pipe) < Chunk THEN Len(pipe) ELSE Chunk IN
  /\ channel = "open" /\ reader.pc = "idle"
  /\ pipe # <<>> \/ Ends
  /\ reaped => drains < MaxDrains /\ ~late
  /\ drains' = IF reaped THEN Counted ELSE drains
  /\ IF pipe = <<>>
     THEN /\ tracked' = [tracked EXCEPT !.truncated = @ \/ Truncated(reader.buffer)]
          /\ Closed
     ELSE /\ StaysOpen("parsing", reader.buffer \o SubSeq(pipe, 1, n))
          /\ UNCHANGED tracked
  /\ pipe' = SubSeq(pipe, n + 1, Len(pipe))
  /\ UNCHANGED <<worker, out, held, sent, taken, reaped, late, spoiled, faults>>

(* ingest: what the controller keeps of a record.  A tally smaller than    *)
(* the last is refused.                                                    *)
Refused(frame) == frame.kind = "tally" /\ frame.units < tracked.units

HasRoom == tracked.kept < MaxKept

Kept(frame) ==
  CASE frame.kind \in Findings ->
         LET found == [tracked EXCEPT !.wrong = IF frame.kind = "wrong" THEN @ + 1 ELSE @,
                                      !.unchecked = IF frame.kind = "unchecked" THEN @ + 1 ELSE @] IN
         IF HasRoom THEN [found EXCEPT !.kept = @ + 1]
         ELSE [found EXCEPT !.dropped = @ + 1]
    [] frame.kind = "tally" -> [tracked EXCEPT !.units = frame.units]
    [] frame.kind = "finished" -> [tracked EXCEPT !.finished = TRUE]
    [] OTHER -> tracked

Rest(buffer) == SubSeq(buffer, 2 + Head(buffer).claims, Len(buffer))

(* What the bytes of a record say: what was sent, if they are those bytes. *)
Said(buffer) ==
  IF Matches(SubSeq(buffer, 1, 1 + Head(buffer).claims)) THEN Head(buffer).frame ELSE Plain("garbled")

Take ==
  LET found == Found(reader.buffer)
      header == Head(reader.buffer) IN
  /\ reader.pc = "parsing"
  /\ CASE found = "nothing" -> /\ StaysOpen("idle", reader.buffer)
                               /\ UNCHANGED <<tracked, taken>>
       [] found = "record" /\ ~Refused(header.frame) ->
            /\ StaysOpen("parsing", Rest(reader.buffer))
            /\ tracked' = Kept(header.frame)
            /\ taken' = IF header.id = 0 THEN taken ELSE Append(taken, Said(reader.buffer))
       [] OTHER -> /\ tracked' = [tracked EXCEPT !.corrupt = TRUE]
                   /\ Closed /\ UNCHANGED taken
  /\ UNCHANGED <<worker, out, pipe, held, sent, reaped, drains, late, spoiled, faults>>

Reap ==
  /\ worker.pc = "exited" /\ ~reaped /\ reader.pc = "idle"
  /\ reaped' = TRUE
  /\ UNCHANGED <<worker, out, pipe, held, sent, reader, channel, tracked, taken, drains, late, spoiled, faults>>

(* drain_after_death: the grace runs out between two drains ...            *)
GraceOver ==
  /\ reaped /\ drains > 0 /\ channel = "open" /\ reader.pc = "idle" /\ ~late
  /\ late' = TRUE
  /\ UNCHANGED <<worker, out, pipe, held, sent, reader, channel, tracked, taken, reaped, drains, spoiled, faults>>

(* ... or nothing comes in what is left of it, or there were too many.     *)
HeldOpen ==
  /\ reaped /\ channel = "open" /\ reader.pc = "idle"
  /\ late \/ drains = MaxDrains \/ (pipe = <<>> /\ ~Ends)
  /\ tracked' = [tracked EXCEPT !.truncated = TRUE] /\ Closed
  /\ UNCHANGED <<worker, out, pipe, held, sent, taken, reaped, drains, late, spoiled, faults>>

Over == channel = "closed" /\ reaped /\ ~held /\ UNCHANGED vars

Reports == {<<>>} \cup {<<Plain(k)>> : k \in Findings}

Controller == Read \/ Take \/ Reap \/ GraceOver \/ HeldOpen

Next ==
  \/ \E found \in Reports : Slice(found) \/ Conclude(found)
  \/ \E n \in 1 .. PipeCells : Write(n)
  \/ \E i \in 1 .. 3, flaw \in Flaws, claims \in 0 .. MaxBody + 1 : Corrupt(i, flaw, claims)
  \/ Replace \/ GiveUp \/ Send \/ Interrupted \/ ControllerGone \/ Die
  \/ Intrude \/ LetGo
  \/ Controller \/ Over

(* The controller runs; the worker and the other process owe nothing.      *)
Drain == Read \/ Take \/ HeldOpen
Spec == Init /\ [][Next]_vars /\ WF_vars(Drain)

-----------------------------------------------------------------------------
Frames == [kind : Kinds, units : Nat]

(* The variables keep their types, and the pipe its size.                  *)
TypeOK ==
  /\ worker.pc \in {"working", "exited"} /\ worker.then \in {"working", "exited"}
  /\ worker.interrupts \in 0 .. MaxInterrupts - 1
  /\ Len(pipe) <= PipeCells /\ \A i \in DOMAIN pipe : pipe[i].frame \in Frames
  /\ reader.pc \in {"idle", "parsing"}
  /\ channel \in {"open", "closed"}
  /\ {tracked.corrupt, tracked.truncated, tracked.finished} \subseteq BOOLEAN
  /\ tracked.kept \in 0 .. MaxKept
  /\ tracked.kept + tracked.dropped = tracked.wrong + tracked.unchecked
  /\ drains \in 0 .. MaxDrains

(* What the controller acts on is what the worker sent, in its order, with *)
(* nothing missing, changed or made up from a corrupted frame.             *)
TakenAsSent == IsPrefix(taken, sent)

(* A channel that was closed with nothing held against it gave everything  *)
(* that was ever put in it: a finding is counted, or the report says that  *)
(* the channel was corrupt or cut short.                                   *)
LostIsSaid ==
  channel = "closed" /\ ~tracked.corrupt /\ ~tracked.truncated => taken = sent

(* A worker that the machine left alone, that never gave up inside a frame *)
(* and shares its pipe with nobody, is never called corrupt: its tallies   *)
(* never go backwards, over any number of replaced runners.                *)
SoundIsNotCorrupt == tracked.corrupt => spoiled

(* The controller is done with the channel of a dead worker, whoever still *)
(* writes to it.                                                           *)
ChannelEnds == reaped ~> channel = "closed"
=============================================================================
