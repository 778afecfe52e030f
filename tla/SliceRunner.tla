---------------------------- MODULE SliceRunner ----------------------------
(***************************************************************************)
(* The verified slices of a worker (verification/integrity/): units run one*)
(* at a time, each inside the input-integrity bracket, with the words that *)
(* verification depends on kept in three checksummed copies and voted on   *)
(* once per unit (control_state.cpp).  The machine under test may corrupt  *)
(* a copy or a buffer, or compute wrongly, between any two steps.          *)
(*                                                                         *)
(* The control words are one value, the unit's index.  A buffer holds what *)
(* was generated for an index, or that with bits flipped; two buffers are  *)
(* never flipped alike.  The oracle compares the output with what the      *)
(* input, as it is stored, requires.                                       *)
(***************************************************************************)
EXTENDS Naturals, FiniteSets

CONSTANTS OraclePeriod, IntegrityPeriod,   \* DutyCycle
          MaxSlice,     \* bound: units in one request
          MaxUnits,     \* bound: units in all
          MaxFaults,    \* bound: faults in all
          MaxSilent     \* bound: copies a fault changes under a matching checksum,
                        \* between two votes

ASSUME RunnerAssumption ==
  /\ {OraclePeriod, IntegrityPeriod, MaxSlice, MaxUnits, MaxFaults} \subseteq Nat
  /\ MaxSilent \in {0, 1}

VARIABLES copies,    \* the control state
          unit,      \* the index this unit's steps use
          pc,        \* where run_unit is
          left,      \* units of the slice not yet run
          buffer,    \* the unit's input, its regeneration, its output
          found,     \* this unit: what check() found, what the bracket found
          tally,     \* the slice's tally
          total,     \* total_
          sent,      \* records reported, by kind
          ended,     \* finished_, halted_
          next,      \* history: the unit that is really next
          hurt,      \* history: what this unit's faults reached
          faults, silent

vars == <<copies, unit, pc, left, buffer, found, tally, total, sent, ended, next, hurt,
          faults, silent>>
runner == <<unit, pc, left, buffer, found, tally, total, sent, ended, next>>

Copies == 0 .. 2
Indices == 0 .. MaxUnits
Buffers == {"input", "regenerated", "output"}
Content == [of : Indices, flipped : {"no"} \cup Buffers]

Counts == {"integrity_checked", "integrity_failed", "units_computed", "oracle_checked",
           "oracle_failed", "oracle_not_performed", "oracle_blocks"}
Kinds == {"input", "output", "not performed", "halted"}
Integrity == {"not checked", "intact", "before consumption", "during consumption"}

Zero == [c \in Counts |-> 0]
Nothing == [verdict |-> "none", integrity |-> "not checked"]

Init ==
  /\ copies = [c \in Copies |-> [index |-> 0, verified |-> TRUE]]
  /\ unit = 0 /\ pc = "idle" /\ left = 0
  /\ buffer = [b \in Buffers |-> [of |-> 0, flipped |-> "no"]]
  /\ found = Nothing /\ tally = Zero /\ total = Zero
  /\ sent = [k \in Kinds |-> 0]
  /\ ended = [finished |-> FALSE, halted |-> FALSE]
  /\ next = 0 /\ hurt = {} /\ faults = 0 /\ silent = 0

-----------------------------------------------------------------------------
(* The machine                                                             *)

Fault == faults < MaxFaults /\ faults' = faults + 1

(* Bits of a copy change, and its checksum no longer holds.                *)
FlipCopy(c) ==
  /\ Fault
  /\ copies' = [copies EXCEPT ![c].verified = FALSE]
  /\ UNCHANGED <<runner, hurt, silent>>

(* They change, and it does.                                               *)
ForgeCopy(c, index) ==
  /\ Fault /\ silent < MaxSilent /\ silent' = silent + 1
  /\ copies[c].verified
  /\ copies' = [copies EXCEPT ![c].index = index]
  /\ UNCHANGED <<runner, hurt>>

FlipBuffer(b) ==
  /\ pc # "idle" /\ Fault
  /\ buffer' = [buffer EXCEPT ![b].flipped = b]
  /\ hurt' = hurt \cup {b}
  /\ UNCHANGED <<copies, unit, pc, left, found, tally, total, sent, ended, next, silent>>

-----------------------------------------------------------------------------
(* The control state                                                       *)

Verified == {c \in Copies : copies[c].verified}

(* The values that two verified copies hold: there is at most one.         *)
OneIsEnough == {copies[c].index : c \in Verified}
Decided == {copies[c].index : c \in {d \in Verified :
              \E e \in Verified \ {d} : copies[e].index = copies[d].index}}

(* Every copy that did not hold the decided value is rewritten from it.    *)
Repaired(index) == [c \in Copies |-> [index |-> index, verified |-> TRUE]]

-----------------------------------------------------------------------------
(* The runner                                                              *)

RunSlice(n) ==
  /\ pc = "idle" /\ ~ended.finished /\ ~ended.halted /\ next + n <= MaxUnits
  /\ pc' = "vote" /\ left' = n /\ tally' = Zero
  /\ UNCHANGED <<copies, unit, buffer, found, total, sent, ended, next, hurt, faults, silent>>

Finish ==
  /\ pc = "idle" /\ ~ended.finished
  /\ ended' = [ended EXCEPT !.finished = TRUE]
  /\ sent' = [sent EXCEPT !["not performed"] =
                @ + (IF total["oracle_blocks"] = 0 THEN 1 ELSE 0)
                  + (IF total["integrity_checked"] = 0 THEN 1 ELSE 0)]
  /\ UNCHANGED <<copies, unit, pc, left, buffer, found, tally, total, next, hurt, faults, silent>>

EndSlice ==
  /\ pc = "vote" /\ left = 0
  /\ pc' = "idle" /\ total' = [c \in Counts |-> total[c] + tally[c]]
  /\ UNCHANGED <<copies, unit, left, buffer, found, tally, sent, ended, next, hurt, faults, silent>>

NoFewer(units) == units
OneFewer(units) == units - 1

(* The copies are voted on; two verified ones that agree decide the unit.  *)
Vote(index) ==
  /\ pc = "vote" /\ left > 0 /\ index \in Decided
  /\ unit' = index /\ copies' = Repaired(index)
  /\ pc' = "generate" /\ left' = OneFewer(left)
  /\ found' = Nothing /\ hurt' = {} /\ silent' = 0
  /\ UNCHANGED <<buffer, tally, total, sent, ended, next, faults>>

(* Nothing was decided: the run stops rather than pick a value.            *)
Halt ==
  /\ pc = "vote" /\ left > 0 /\ Decided = {}
  /\ ended' = [ended EXCEPT !.halted = TRUE]
  /\ sent' = [sent EXCEPT !["halted"] = @ + 1]
  /\ left' = 0
  /\ UNCHANGED <<copies, unit, pc, buffer, found, tally, total, next, hurt, faults, silent>>

Bracketed == IntegrityPeriod # 0 /\ unit % IntegrityPeriod = 0
Sampled == OraclePeriod # 0 /\ unit % OraclePeriod = 0

Counted(t, kinds) == [c \in Counts |-> IF c \in kinds THEN t[c] + 1 ELSE t[c]]
Fresh(index) == [of |-> index, flipped |-> "no"]

Generate ==
  /\ pc = "generate"
  /\ buffer' = [buffer EXCEPT !["input"] = Fresh(unit)]
  /\ pc' = IF Bracketed THEN "open" ELSE "compute"
  /\ UNCHANGED <<copies, unit, left, found, tally, total, sent, ended, next, hurt, faults, silent>>

(* The input is generated again, from the unit's index ...                 *)
RegeneratedFrom == unit

Regenerate ==
  /\ pc \in {"open", "close"}
  /\ buffer' = [buffer EXCEPT !["regenerated"] = Fresh(RegeneratedFrom)]
  /\ pc' = IF pc = "open" THEN "open compare" ELSE "close compare"
  /\ UNCHANGED <<copies, unit, left, found, tally, total, sent, ended, next, hurt, faults, silent>>

(* ... and compared with the one that is stored.                           *)
Differs == buffer["input"] # buffer["regenerated"]

(* Corrupt before it was used: reported, and the unit is not computed.     *)
Open ==
  /\ pc = "open compare"
  /\ IF Differs
     THEN /\ tally' = Counted(tally, {"integrity_checked", "integrity_failed"})
          /\ found' = [found EXCEPT !.integrity = "before consumption"]
          /\ sent' = [sent EXCEPT !["input"] = @ + 1]
          /\ pc' = "advance"
     ELSE /\ tally' = Counted(tally, {"integrity_checked"})
          /\ pc' = "compute" /\ UNCHANGED <<found, sent>>
  /\ UNCHANGED <<copies, unit, left, buffer, total, ended, next, hurt, faults, silent>>

(* The output is what the stored input requires, unless a fault in the     *)
(* computation makes it something else.                                    *)
Compute(wrong) ==
  /\ pc = "compute"
  /\ IF wrong THEN Fault /\ hurt' = hurt \cup {"output"} ELSE UNCHANGED <<faults, hurt>>
  /\ buffer' = [buffer EXCEPT !["output"] =
                  IF wrong THEN [@ EXCEPT !.flipped = "output"] ELSE buffer["input"]]
  /\ tally' = Counted(tally, {"units_computed"})
  /\ pc' = IF Sampled THEN "check" ELSE IF Bracketed THEN "close" ELSE "report"
  /\ UNCHANGED <<copies, unit, left, found, total, sent, ended, next, silent>>

(* The oracle's verdict, or none that can be believed: it threw, broke its *)
(* contract, or could not check.                                           *)
Check(believed) ==
  /\ pc = "check"
  /\ LET verdict == IF ~believed THEN "not performed"
                    ELSE IF buffer["output"] = buffer["input"] THEN "agreement" ELSE "mismatch" IN
     /\ found' = [found EXCEPT !.verdict = verdict]
     /\ tally' = Counted(tally, {"oracle_checked"} \cup
                   CASE verdict = "agreement" -> {"oracle_blocks"}
                     [] verdict = "mismatch" -> {"oracle_blocks", "oracle_failed"}
                     [] OTHER -> {"oracle_not_performed"})
  /\ pc' = IF Bracketed THEN "close" ELSE "report"
  /\ UNCHANGED <<copies, unit, left, buffer, total, sent, ended, next, hurt, faults, silent>>

(* The bracket closes: the input as it was used, against its generation.   *)
AlwaysIntact == "intact"
Closing == IF Differs THEN "during consumption" ELSE "intact"

Close ==
  /\ pc = "close compare"
  /\ found' = [found EXCEPT !.integrity = Closing]
  /\ tally' = Counted(tally, IF Closing = "intact" THEN {} ELSE {"integrity_failed"})
  /\ pc' = "report"
  /\ UNCHANGED <<copies, unit, left, buffer, total, sent, ended, next, hurt, faults, silent>>

(* The check's record, with what the bracket found, then the bracket's.    *)
OnlyOne(kind) == kind = "output" /\ found.verdict = "mismatch"
Reported(kind) ==
  CASE kind = "input" -> found.integrity = "during consumption"
    [] kind = "output" -> found.verdict = "mismatch"
    [] kind = "not performed" -> found.verdict = "not performed"
    [] OTHER -> FALSE

Report ==
  /\ pc = "report"
  /\ sent' = [k \in Kinds |-> IF Reported(k) THEN sent[k] + 1 ELSE sent[k]]
  /\ pc' = "advance"
  /\ UNCHANGED <<copies, unit, left, buffer, found, tally, total, ended, next, hurt, faults, silent>>

(* The next unit's index, to each copy.                                    *)
Advance ==
  /\ pc = "advance"
  /\ copies' = [c \in Copies |-> [index |-> unit + 1, verified |-> TRUE]]
  /\ pc' = "vote" /\ next' = next + 1 /\ silent' = 0
  /\ UNCHANGED <<unit, left, buffer, found, tally, total, sent, ended, hurt, faults>>

Over == pc = "idle" /\ ended.finished /\ UNCHANGED vars

Next ==
  \/ \E c \in Copies : FlipCopy(c) \/ \E index \in Indices : ForgeCopy(c, index)
  \/ \E b \in Buffers : FlipBuffer(b)
  \/ \E n \in 1 .. MaxSlice : RunSlice(n)
  \/ \E index \in Indices : Vote(index)
  \/ \E wrong \in BOOLEAN : Compute(wrong)
  \/ \E believed \in BOOLEAN : Check(believed)
  \/ Finish \/ EndSlice \/ Halt \/ Generate \/ Regenerate \/ Open \/ Close \/ Report
  \/ Advance \/ Over

Spec == Init /\ [][Next]_vars

-----------------------------------------------------------------------------
(* The variables keep their types.                                         *)
TypeOK ==
  /\ copies \in [Copies -> [index : Indices, verified : BOOLEAN]]
  /\ unit \in Indices /\ left \in 0 .. MaxSlice /\ next \in Indices
  /\ pc \in {"idle", "vote", "generate", "open", "open compare", "compute", "check", "close",
            "close compare", "report", "advance"}
  /\ buffer \in [Buffers -> Content]
  /\ found \in [verdict : {"none", "agreement", "mismatch", "not performed"},
               integrity : Integrity]
  /\ tally \in [Counts -> Nat] /\ total \in [Counts -> Nat] /\ sent \in [Kinds -> Nat]
  /\ ended \in [finished : BOOLEAN, halted : BOOLEAN]
  /\ hurt \in SUBSET Buffers /\ faults \in 0 .. MaxFaults /\ silent \in 0 .. MaxSilent

InUnit == pc \notin {"idle", "vote"}

(* The unit that runs is the one that is next, none skipped and none run   *)
(* twice: whatever faults do to the copies, as long as no two are changed  *)
(* under matching checksums between two votes.                             *)
VoteIsTrue == InUnit => unit = next

(* An input reported corrupt had a buffer corrupted in its unit: no fault  *)
(* in the control state makes the bracket find a difference.               *)
NoPhantom ==
  InUnit /\ found.integrity \in {"before consumption", "during consumption"} =>
    hurt \cap {"input", "regenerated"} # {}

(* A mismatch reported with an intact input is the output's: the input was *)
(* whole when it was computed from and when the oracle compared with it.   *)
BlameIsRight ==
  pc = "advance" /\ found = [verdict |-> "mismatch", integrity |-> "intact"] =>
    "output" \in hurt

(* Between two slices the records and the tally tell one story: a record   *)
(* for every failed check and every bracket that did not hold, and every   *)
(* unit computed unless its bracket stopped it.                            *)
RecordsMatchTally ==
  pc = "idle" =>
    /\ sent["input"] = total["integrity_failed"]
    /\ sent["output"] = total["oracle_failed"]
    /\ sent["not performed"] >= total["oracle_not_performed"]
    /\ total["oracle_checked"] = total["oracle_blocks"] + total["oracle_not_performed"]
    /\ total["units_computed"] <= next
    /\ next <= total["units_computed"] + total["integrity_failed"]

(* What a unit's record blames, its input or its output, was corrupted,    *)
(* and the tally counts what the records say.                              *)
ReportsAreTrue == NoPhantom /\ BlameIsRight /\ RecordsMatchTally
=============================================================================
