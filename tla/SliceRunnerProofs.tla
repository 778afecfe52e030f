-------------------------- MODULE SliceRunnerProofs --------------------------
(***************************************************************************)
(* That the runner runs every unit once and blames the right memory, for   *)
(* any number of units and faults.                                         *)
(***************************************************************************)
EXTENDS SliceRunner, TLAPS

(* TypeOK in parts, which most actions leave alone.                        *)
CopiesType == copies \in [Copies -> [index : Indices, verified : BOOLEAN]]
PlaceType ==
  /\ unit \in Indices /\ left \in 0 .. MaxSlice /\ next \in Indices
  /\ pc \in {"idle", "vote", "generate", "open", "open compare", "compute", "check", "close",
            "close compare", "report", "advance"}
BufferType == buffer \in [Buffers -> Content] /\ hurt \in SUBSET Buffers
FoundType == found \in [verdict : {"none", "agreement", "mismatch", "not performed"},
                        integrity : Integrity]
TallyType == tally \in [Counts -> Nat] /\ total \in [Counts -> Nat] /\ sent \in [Kinds -> Nat]
EndedType == ended \in [finished : BOOLEAN, halted : BOOLEAN]
FaultType == faults \in 0 .. MaxFaults /\ silent \in 0 .. MaxSilent

(* The units of the slice under way fit in the bound.                      *)
Room == /\ pc = "idle" => left = 0
        /\ next + left <= MaxUnits
        /\ InUnit => next + left < MaxUnits

(* Between units every copy that verifies holds the next index, but one at *)
(* most that was changed under a matching checksum.                        *)
Holds(c) == copies[c].verified => copies[c].index = next
CopiesTrue ==
  pc \in {"idle", "vote"} =>
    /\ silent = 0 => \A c \in Copies : Holds(c)
    /\ \E d \in Copies : \A c \in Copies \ {d} : Holds(c)

Generated == pc \notin {"idle", "vote", "generate"}
Regenerated == pc \in {"open compare", "close compare"}
Checked == pc \in {"close", "close compare"}

(* A buffer that no fault reached holds what was generated for the unit,   *)
(* and one that a fault reached says so.                                   *)
BuffersTrue ==
  /\ buffer["input"].flipped \in {"no", "input"}
  /\ buffer["regenerated"].flipped \in {"no", "regenerated"}
  /\ Generated => buffer["input"].of = unit
  /\ Regenerated => buffer["regenerated"].of = unit
  /\ Generated /\ "input" \notin hurt => buffer["input"].flipped = "no"
  /\ Regenerated /\ "regenerated" \notin hurt => buffer["regenerated"].flipped = "no"
  /\ pc = "check" /\ "output" \notin hurt =>
       buffer["output"] = buffer["input"] \/ buffer["input"].flipped = "input"

(* A mismatch that is not the output's is a flipped input's.               *)
FoundTrue ==
  /\ Checked /\ found.verdict = "mismatch" /\ "output" \notin hurt =>
       buffer["input"].flipped = "input"
  /\ pc \in {"report", "advance"} /\ found.verdict = "mismatch" /\ found.integrity = "intact" =>
       "output" \in hurt
  /\ pc \in {"generate", "open", "open compare", "compute", "check"} => found.verdict = "none"
  /\ InUnit /\ pc \notin {"report", "advance"} => found.integrity = "not checked"

Typed == CopiesType /\ PlaceType /\ BufferType /\ FoundType /\ TallyType /\ EndedType /\ FaultType
IInv == Typed /\ VoteIsTrue /\ NoPhantom /\ Room /\ CopiesTrue /\ BuffersTrue /\ FoundTrue

(* The bounds, one by one.                                                 *)
LEMMA Bounds == MaxSlice \in Nat /\ MaxUnits \in Nat /\ MaxFaults \in Nat /\ MaxSilent \in {0, 1}
BY RunnerAssumption

(* Two records at most are added to a count.                               *)
LEMMA TwoMore == ASSUME NEW m \in Nat, NEW p \in {0, 1}, NEW q \in {0, 1} PROVE m + p + q \in Nat
OBVIOUS

(* The initial state satisfies the invariant.                              *)
LEMMA InitInv == Init => IInv
<1> SUFFICES ASSUME Init PROVE IInv
  OBVIOUS
<1> USE Bounds DEF Init
<1>1. CopiesType /\ PlaceType
  BY DEF CopiesType, PlaceType, Copies, Indices
<1>2. BufferType
  BY DEF BufferType, Content, Buffers, Indices
<1>6. FoundType /\ EndedType
  BY DEF FoundType, EndedType, Nothing, Integrity
<1>3. TallyType /\ FaultType
  BY DEF TallyType, FaultType, Zero
<1>4. VoteIsTrue /\ NoPhantom /\ Room /\ CopiesTrue
  BY DEF VoteIsTrue, NoPhantom, Room, CopiesTrue, InUnit, Holds, Copies
<1>5. BuffersTrue /\ FoundTrue
  BY DEF BuffersTrue, FoundTrue, Generated, Regenerated, Checked, InUnit, Buffers
<1> QED
  BY <1>1, <1>2, <1>3, <1>4, <1>5, <1>6 DEF IInv, Typed

(* A fault in a copy: at most one verifies with another index.             *)
LEMMA CopyInv ==
  ASSUME IInv, NEW c \in Copies, NEW index \in Indices, FlipCopy(c) \/ ForgeCopy(c, index)
  PROVE  IInv'
<1> USE Bounds DEF IInv, Typed, FlipCopy, ForgeCopy, runner
<1>1. CopiesType'
  BY DEF CopiesType
<1>2. FaultType'
  BY DEF FaultType, Fault
<1>3. \A d \in Copies \ {c} : copies'[d] = copies[d]
  BY DEF CopiesType
<1>4. ForgeCopy(c, index) => silent = 0 /\ silent' = 1
  BY DEF FaultType
<1>5. CopiesTrue'
  <2>1. CASE FlipCopy(c)
    BY <1>3, <2>1 DEF CopiesType, CopiesTrue, Holds
  <2>2. CASE ForgeCopy(c, index)
    BY <1>3, <1>4, <2>2 DEF CopiesTrue, Holds
  <2> QED
    BY <2>1, <2>2
<1>6. UNCHANGED <<runner, hurt>>
  OBVIOUS
<1> HIDE DEF FlipCopy, ForgeCopy
<1>7. Typed'
  BY <1>1, <1>2, <1>6 DEF PlaceType, BufferType, FoundType, TallyType, EndedType
<1>8. VoteIsTrue' /\ NoPhantom' /\ Room'
  BY <1>6 DEF VoteIsTrue, NoPhantom, Room, InUnit
<1>9. BuffersTrue' /\ FoundTrue'
  BY <1>6 DEF BuffersTrue, FoundTrue, InUnit, Generated, Regenerated, Checked
<1> QED
  BY <1>5, <1>7, <1>8, <1>9

(* A fault in a buffer is in the buffer and in the history.                *)
LEMMA FlipInv == ASSUME IInv, NEW b \in Buffers, FlipBuffer(b) PROVE IInv'
<1> USE Bounds DEF IInv, Typed, FlipBuffer
<1>1. /\ buffer'[b].of = buffer[b].of /\ buffer'[b].flipped = b
      /\ \A a \in Buffers \ {b} : buffer'[a] = buffer[a]
  BY DEF BufferType, Content
<1>2. BufferType'
  <2>1. [buffer[b] EXCEPT !.flipped = b] \in Content
    BY DEF BufferType, Content
  <2> QED
    BY <2>1 DEF BufferType
<1>3. FaultType'
  BY DEF FaultType, Fault
<1>4. BuffersTrue' /\ FoundTrue'
  BY <1>1 DEF BuffersTrue, FoundTrue, InUnit, Generated, Regenerated, Checked, Buffers
<1> QED
  BY <1>2, <1>3, <1>4 DEF CopiesType, PlaceType, FoundType, TallyType, EndedType, VoteIsTrue, Room,
     InUnit, CopiesTrue, Holds, NoPhantom

(* A slice begins.                                                         *)
LEMMA RunSliceInv == ASSUME IInv, NEW n \in 1 .. MaxSlice, RunSlice(n) PROVE IInv'
<1> USE Bounds DEF IInv, Typed, RunSlice
<1>1. TallyType'
  BY DEF TallyType, Zero
<1>2. PlaceType' /\ Room'
  BY DEF PlaceType, Room, InUnit, Indices
<1> QED
  BY <1>1, <1>2 DEF CopiesType, BufferType, FoundType, FaultType, EndedType, VoteIsTrue, NoPhantom,
     InUnit, CopiesTrue, Holds, BuffersTrue, FoundTrue, Generated, Regenerated, Checked

(* The end of a slice.                                                     *)
LEMMA EndSliceInv == ASSUME IInv, EndSlice PROVE IInv'
<1> USE Bounds DEF IInv, Typed, EndSlice
<1>1. TallyType'
  BY DEF TallyType
<1>2. PlaceType' /\ Room'
  BY DEF PlaceType, Room, InUnit
<1> QED
  BY <1>1, <1>2 DEF CopiesType, BufferType, FoundType, EndedType, FaultType, VoteIsTrue, NoPhantom,
     InUnit, CopiesTrue, Holds, BuffersTrue, FoundTrue, Generated, Regenerated, Checked

(* One more record of a kind.                                              *)
LEMMA OneSent ==
  ASSUME TallyType, NEW k \in Kinds PROVE [sent EXCEPT ![k] = @ + 1] \in [Kinds -> Nat]
<1>1. sent[k] \in Nat
  BY DEF TallyType
<1> QED
  BY <1>1 DEF TallyType

(* The end of the run.                                                     *)
LEMMA FinishInv == ASSUME IInv, Finish PROVE IInv'
<1> USE Bounds DEF IInv, Typed, Finish
<1>1. EndedType'
  BY DEF EndedType
<1>2. TallyType'
  <2> DEFINE n == sent["not performed"] + (IF total["oracle_blocks"] = 0 THEN 1 ELSE 0)
                    + (IF total["integrity_checked"] = 0 THEN 1 ELSE 0)
  <2>1. sent["not performed"] \in Nat
    BY DEF TallyType, Kinds
  <2>2. n \in Nat
    <3>1. (IF total["oracle_blocks"] = 0 THEN 1 ELSE 0) \in {0, 1}
      OBVIOUS
    <3>2. (IF total["integrity_checked"] = 0 THEN 1 ELSE 0) \in {0, 1}
      OBVIOUS
    <3> QED
      BY ONLY <2>1, <3>1, <3>2, TwoMore
  <2>3. sent' = [sent EXCEPT !["not performed"] = n] /\ UNCHANGED <<tally, total>>
    OBVIOUS
  <2> HIDE DEF n
  <2> QED
    BY <2>2, <2>3 DEF TallyType
<1>3. PlaceType' /\ Room'
  BY DEF PlaceType, Room, InUnit
<1> QED
  BY <1>1, <1>2, <1>3 DEF CopiesType, BufferType, FoundType, FaultType, VoteIsTrue, NoPhantom,
     InUnit, CopiesTrue, Holds, BuffersTrue, FoundTrue, Generated, Regenerated, Checked

(* The halt of a run whose copies decide nothing.                          *)
LEMMA HaltInv == ASSUME IInv, Halt PROVE IInv'
<1> USE Bounds DEF IInv, Typed
<1>4. /\ pc = "vote" /\ left' = 0 /\ ended' = [ended EXCEPT !.halted = TRUE]
      /\ sent' = [sent EXCEPT !["halted"] = @ + 1]
      /\ UNCHANGED <<copies, unit, pc, buffer, found, tally, total, next, hurt, faults, silent>>
  BY DEF Halt
<1> HIDE DEF Halt
<1>1. EndedType'
  BY <1>4 DEF EndedType
<1>2. TallyType'
  <2>1. sent' \in [Kinds -> Nat]
    BY <1>4, OneSent DEF Kinds
  <2> QED
    BY <1>4, <2>1 DEF TallyType
<1>3. PlaceType' /\ Room'
  BY <1>4 DEF PlaceType, Room, InUnit, Indices
<1> QED
  BY <1>1, <1>2, <1>3, <1>4 DEF CopiesType, BufferType, FoundType, FaultType, VoteIsTrue, NoPhantom,
     InUnit, CopiesTrue, Holds, BuffersTrue, FoundTrue, Generated, Regenerated, Checked

(* Two verified copies that agree: one of them was not changed under its   *)
(* checksum.                                                               *)
LEMMA VoteInv == ASSUME IInv, NEW index \in Indices, Vote(index) PROVE IInv'
<1> USE Bounds DEF IInv, Typed, Vote
<1>1. index = next
  <2>1. PICK c \in Verified, e \in Verified :
          c # e /\ copies[c].index = index /\ copies[e].index = index
    BY DEF Decided
  <2>2. PICK d \in Copies : \A a \in Copies \ {d} : Holds(a)
    BY DEF CopiesTrue
  <2> QED
    BY <2>1, <2>2 DEF Holds, Verified
<1>2. CopiesType' /\ FoundType'
  BY DEF CopiesType, FoundType, Repaired, Nothing, Integrity
<1>3. PlaceType' /\ Room'
  BY <1>1 DEF PlaceType, Room, InUnit, Indices, OneFewer
<1>4. FoundTrue' /\ NoPhantom'
  BY DEF FoundTrue, NoPhantom, Nothing, Checked
<1>5. BuffersTrue'
  BY DEF BuffersTrue, Generated, Regenerated
<1> QED
  BY <1>1, <1>2, <1>3, <1>4, <1>5 DEF BufferType, TallyType, EndedType, FaultType, VoteIsTrue,
     CopiesTrue, Holds

(* What counting leaves a tally.                                           *)
LEMMA CountedType == ASSUME TallyType, NEW kinds PROVE Counted(tally, kinds) \in [Counts -> Nat]
BY DEF TallyType, Counted

(* The input, generated for the unit.                                      *)
LEMMA GenerateInv == ASSUME IInv, Generate PROVE IInv'
<1> USE Bounds DEF IInv, Typed, Generate
<1>1. Fresh(unit) \in Content
  BY DEF Fresh, Content, PlaceType
<1>2. /\ buffer'["input"] = Fresh(unit) /\ buffer'["regenerated"] = buffer["regenerated"]
      /\ BufferType'
  BY <1>1 DEF BufferType, Buffers
<1>5. pc' \in {"open", "compute"}
  OBVIOUS
<1>6. BuffersTrue'
  <2>1. buffer'["input"].of = unit /\ buffer'["input"].flipped = "no"
    BY <1>2 DEF Fresh
  <2> QED
    BY <1>2, <1>5, <2>1 DEF BuffersTrue, Generated, Regenerated
<1>3. FoundTrue'
  BY <1>5 DEF FoundTrue, Checked, InUnit
<1>4. PlaceType' /\ Room'
  BY DEF PlaceType, Room, InUnit
<1> QED
  BY <1>2, <1>3, <1>4, <1>6 DEF CopiesType, FoundType, TallyType, EndedType, FaultType, VoteIsTrue,
     NoPhantom, CopiesTrue, InUnit

(* The input, generated again for the same unit.                           *)
LEMMA RegenerateInv == ASSUME IInv, Regenerate PROVE IInv'
<1> USE Bounds DEF IInv, Typed, Regenerate, RegeneratedFrom
<1>1. Fresh(unit) \in Content
  BY DEF Fresh, Content, PlaceType
<1>2. /\ buffer'["regenerated"] = Fresh(unit) /\ buffer'["input"] = buffer["input"]
      /\ buffer'["output"] = buffer["output"] /\ BufferType'
  BY <1>1 DEF BufferType, Buffers
<1>5. pc' \in {"open compare", "close compare"}
  OBVIOUS
<1>6. BuffersTrue'
  <2>1. buffer'["regenerated"].of = unit /\ buffer'["regenerated"].flipped = "no"
    BY ONLY <1>2 DEF Fresh
  <2> QED
    BY <1>2, <1>5, <2>1 DEF BuffersTrue, Generated, Regenerated
<1>3. FoundTrue'
  BY <1>2 DEF FoundTrue, Checked, InUnit
<1>4. PlaceType' /\ Room'
  BY DEF PlaceType, Room, InUnit
<1> QED
  BY <1>2, <1>3, <1>4, <1>6 DEF CopiesType, FoundType, TallyType, EndedType, FaultType, VoteIsTrue,
     NoPhantom, CopiesTrue, InUnit

(* A difference is a buffer that a fault reached.                          *)
LEMMA DifferenceIsHurt ==
  ASSUME BufferType, BuffersTrue, Regenerated
  PROVE  /\ Differs => hurt \cap {"input", "regenerated"} # {}
         /\ ~Differs => buffer["input"].flipped = "no"
<1>1. Generated
  BY DEF Generated, Regenerated
<1>2. buffer["input"] \in Content /\ buffer["regenerated"] \in Content
  BY DEF BufferType, Buffers
<1>3. ~Differs => buffer["input"].flipped = "no"
  BY DEF Differs, BuffersTrue
<1>4. ASSUME hurt \cap {"input", "regenerated"} = {} PROVE ~Differs
  <2>1. buffer["input"].of = buffer["regenerated"].of
    BY <1>1 DEF BuffersTrue
  <2>2. buffer["input"].flipped = buffer["regenerated"].flipped
    BY <1>1, <1>4 DEF BuffersTrue
  <2> QED
    BY <1>2, <2>1, <2>2 DEF Content, Differs
<1> QED
  BY <1>3, <1>4

(* The opening of the bracket.                                             *)
LEMMA OpenInv == ASSUME IInv, Open PROVE IInv'
<1> USE Bounds DEF IInv, Typed
<1>1. /\ UNCHANGED <<copies, unit, left, buffer, total, ended, next, hurt, faults, silent>>
      /\ pc = "open compare" /\ pc' \in {"compute", "advance"}
  BY DEF Open
<1>2. /\ tally' \in [Counts -> Nat]
      /\ Differs => /\ found' = [found EXCEPT !.integrity = "before consumption"]
                    /\ sent' = [sent EXCEPT !["input"] = @ + 1]
      /\ ~Differs => pc' = "compute" /\ UNCHANGED <<found, sent>>
  BY CountedType DEF Open
<1>3. Differs => hurt \cap {"input", "regenerated"} # {}
  BY <1>1, DifferenceIsHurt DEF Regenerated
<1>4. TallyType'
  <2>1. [sent EXCEPT !["input"] = @ + 1] \in [Kinds -> Nat]
    BY OneSent DEF Kinds
  <2> QED
    BY <1>1, <1>2, <2>1 DEF TallyType
<1>5. FoundType' /\ (Differs => found'.integrity = "before consumption")
  BY <1>2 DEF FoundType, Integrity
<1>6. PlaceType' /\ Room'
  BY <1>1 DEF PlaceType, Room, InUnit
<1>7. NoPhantom'
  BY <1>1, <1>2, <1>3 DEF NoPhantom, InUnit
<1>8. BuffersTrue'
  BY <1>1 DEF BuffersTrue, Generated, Regenerated
<1>9. FoundTrue'
  <2>1. CASE Differs
    <3>1. found'.integrity = "before consumption"
      BY <1>5, <2>1
    <3>2. pc' = "advance"
      BY <2>1 DEF Open
    <3> QED
      BY <1>1, <3>1, <3>2 DEF FoundTrue, Checked, InUnit
  <2>2. CASE ~Differs
    BY <1>1, <1>2, <2>2 DEF FoundTrue, Checked, InUnit
  <2> QED
    BY <2>1, <2>2
<1> QED
  BY <1>1, <1>4, <1>5, <1>6, <1>7, <1>8, <1>9 DEF CopiesType, BufferType, EndedType, FaultType,
     VoteIsTrue, CopiesTrue, InUnit

(* The computation.                                                        *)
LEMMA ComputeInv == ASSUME IInv, NEW wrong \in BOOLEAN, Compute(wrong) PROVE IInv'
<1> USE Bounds DEF IInv, Typed
<1>1. /\ UNCHANGED <<copies, unit, left, found, total, sent, ended, next, silent>>
      /\ pc = "compute" /\ pc' \in {"check", "close", "report"}
  BY DEF Compute
<1>2. TallyType'
  BY <1>1, CountedType DEF Compute, TallyType
<1>3. /\ buffer'["input"] = buffer["input"] /\ buffer'["regenerated"] = buffer["regenerated"]
      /\ wrong \/ buffer'["output"] = buffer["input"]
      /\ buffer' \in [Buffers -> Content]
  <2>1. [buffer["output"] EXCEPT !.flipped = "output"] \in Content /\ buffer["input"] \in Content
    BY DEF BufferType, Content, Buffers
  <2>2. (IF wrong THEN [buffer["output"] EXCEPT !.flipped = "output"] ELSE buffer["input"]) \in Content
    BY <2>1
  <2> QED
    BY <2>1, <2>2 DEF Compute, BufferType, Buffers
<1>4. /\ hurt' = IF wrong THEN hurt \cup {"output"} ELSE hurt
      /\ faults' \in 0 .. MaxFaults
  BY DEF Compute, Fault, FaultType
<1>5. BufferType' /\ FaultType'
  BY <1>1, <1>3, <1>4 DEF BufferType, FaultType, Buffers
<1>6. PlaceType' /\ Room'
  BY <1>1 DEF PlaceType, Room, InUnit
<1>7. BuffersTrue'
  BY <1>1, <1>3, <1>4 DEF BuffersTrue, Generated, Regenerated
<1>8. FoundTrue' /\ NoPhantom'
  <2>1. found.integrity = "not checked"
    BY <1>1 DEF FoundTrue, InUnit
  <2>2. found.verdict = "none"
    BY <1>1 DEF FoundTrue
  <2> QED
    BY <1>1, <2>1, <2>2 DEF FoundTrue, NoPhantom, Checked, InUnit
<1> QED
  BY <1>1, <1>2, <1>5, <1>6, <1>7, <1>8 DEF CopiesType, FoundType, EndedType, VoteIsTrue,
     CopiesTrue, InUnit

(* The oracle.                                                             *)
LEMMA CheckInv == ASSUME IInv, NEW believed \in BOOLEAN, Check(believed) PROVE IInv'
<1> USE Bounds DEF IInv, Typed
<1> DEFINE verdict == IF ~believed THEN "not performed"
                      ELSE IF buffer["output"] = buffer["input"] THEN "agreement" ELSE "mismatch"
<1>1. /\ UNCHANGED <<copies, unit, left, buffer, total, sent, ended, next, hurt, faults, silent>>
      /\ pc = "check" /\ pc' \in {"close", "report"}
      /\ found' = [found EXCEPT !.verdict = verdict]
  BY DEF Check
<1>2. TallyType'
  BY <1>1, CountedType DEF Check, TallyType
<1>3. /\ verdict \in {"agreement", "mismatch", "not performed"}
      /\ verdict = "mismatch" => buffer["output"] # buffer["input"]
  OBVIOUS
<1> HIDE DEF verdict
<1>4. FoundType' /\ found'.verdict = verdict /\ found'.integrity = found.integrity
  BY <1>1, <1>3 DEF FoundType
<1>5. PlaceType' /\ Room'
  BY <1>1 DEF PlaceType, Room, InUnit
<1>6. BuffersTrue'
  BY <1>1 DEF BuffersTrue, Generated, Regenerated
<1>7. FoundTrue' /\ NoPhantom'
  <2>1. found'.integrity = "not checked"
    BY <1>1, <1>4 DEF FoundTrue, InUnit
  <2>2. verdict = "mismatch" /\ "output" \notin hurt => buffer["input"].flipped = "input"
    BY <1>1, <1>3 DEF BuffersTrue
  <2> QED
    BY <1>1, <1>4, <2>1, <2>2 DEF FoundTrue, NoPhantom, Checked, InUnit
<1> QED
  BY <1>1, <1>2, <1>4, <1>5, <1>6, <1>7 DEF CopiesType, BufferType, FaultType, EndedType, VoteIsTrue,
     CopiesTrue, InUnit

(* The closing of the bracket: an intact input was never flipped.          *)
LEMMA CloseInv == ASSUME IInv, Close PROVE IInv'
<1> USE Bounds DEF IInv, Typed
<1>1. /\ UNCHANGED <<copies, unit, left, buffer, total, sent, ended, next, hurt, faults, silent>>
      /\ pc = "close compare" /\ pc' = "report"
      /\ found' = [found EXCEPT !.integrity = Closing]
  BY DEF Close
<1>2. TallyType'
  BY <1>1, CountedType DEF Close, TallyType
<1>3. /\ Closing \in {"intact", "during consumption"}
      /\ Closing = "during consumption" => hurt \cap {"input", "regenerated"} # {}
      /\ Closing = "intact" => buffer["input"].flipped = "no"
  BY <1>1, DifferenceIsHurt DEF Closing, Regenerated
<1>4. FoundType' /\ found'.verdict = found.verdict /\ found'.integrity = Closing
  BY <1>1, <1>3 DEF FoundType, Integrity
<1>5. PlaceType' /\ Room'
  BY <1>1 DEF PlaceType, Room, InUnit
<1>6. BuffersTrue'
  BY <1>1 DEF BuffersTrue, Generated, Regenerated
<1>7. NoPhantom'
  BY <1>1, <1>3, <1>4 DEF NoPhantom, InUnit
<1>8. FoundTrue'
  <2>1. ASSUME found'.verdict = "mismatch", found'.integrity = "intact" PROVE "output" \in hurt
    <3>1. found.verdict = "mismatch" /\ Closing = "intact"
      BY <1>4, <2>1
    <3> QED
      BY <1>1, <1>3, <3>1 DEF FoundTrue, Checked
  <2> QED
    BY <1>1, <2>1 DEF FoundTrue, Checked, InUnit
<1> QED
  BY <1>1, <1>2, <1>4, <1>5, <1>6, <1>7, <1>8 DEF CopiesType, BufferType, FaultType, EndedType,
     VoteIsTrue, CopiesTrue, InUnit

(* The records, and the index of the next unit.                            *)
LEMMA AdvanceInv == ASSUME IInv, Report \/ Advance PROVE IInv'
<1> USE Bounds DEF IInv, Typed
<1>1. CASE Report
  <2>1. /\ UNCHANGED <<copies, unit, left, buffer, found, tally, total, ended, next, hurt, faults, silent>>
        /\ pc = "report" /\ pc' = "advance"
    BY <1>1 DEF Report
  <2>2. TallyType'
    BY <1>1 DEF Report, TallyType
  <2> QED
    BY <2>1, <2>2 DEF CopiesType, PlaceType, BufferType, FoundType, FaultType, EndedType, VoteIsTrue,
       NoPhantom, Room, CopiesTrue, BuffersTrue, FoundTrue, InUnit, Generated, Regenerated, Checked
<1>2. CASE Advance
  <2> USE <1>2 DEF Advance
  <2>1. unit = next /\ next + 1 \in Indices /\ PlaceType' /\ Room'
    BY DEF PlaceType, Indices, Room, VoteIsTrue, InUnit
  <2>2. CopiesType' /\ CopiesTrue'
    BY <2>1 DEF CopiesType, CopiesTrue, Holds, Copies
  <2>3. BufferType' /\ FoundType' /\ TallyType' /\ EndedType'
    BY DEF BufferType, FoundType, TallyType, EndedType
  <2>5. FaultType'
    BY DEF FaultType
  <2>4. VoteIsTrue' /\ NoPhantom' /\ BuffersTrue' /\ FoundTrue'
    BY DEF VoteIsTrue, NoPhantom, BuffersTrue, FoundTrue, InUnit, Generated, Regenerated, Checked
  <2> QED
    BY <2>1, <2>2, <2>3, <2>4, <2>5
<1> QED
  BY <1>1, <1>2

(* Every step keeps the invariant.                                         *)
LEMMA NextInv == IInv /\ [Next]_vars => IInv'
<1> SUFFICES ASSUME IInv, [Next]_vars PROVE IInv'
  OBVIOUS
<1>1. ASSUME UNCHANGED vars PROVE IInv'
  <2>1. Typed'
    BY <1>1 DEF vars, IInv, Typed, CopiesType, PlaceType, BufferType, FoundType, TallyType, EndedType,
       FaultType
  <2>2. VoteIsTrue' /\ NoPhantom' /\ Room' /\ CopiesTrue'
    BY <1>1 DEF vars, IInv, VoteIsTrue, NoPhantom, Room, CopiesTrue, Holds, InUnit
  <2>3. BuffersTrue' /\ FoundTrue'
    BY <1>1 DEF vars, IInv, BuffersTrue, FoundTrue, InUnit, Generated, Regenerated, Checked
  <2> QED
    BY <2>1, <2>2, <2>3 DEF IInv
<1>2. CASE Next
  <2>1. CASE \E c \in Copies : FlipCopy(c) \/ \E index \in Indices : ForgeCopy(c, index)
    BY <2>1, Bounds, CopyInv DEF Indices
  <2>2. CASE \E b \in Buffers : FlipBuffer(b)
    BY <2>2, FlipInv
  <2>3. CASE \E n \in 1 .. MaxSlice : RunSlice(n)
    BY <2>3, RunSliceInv
  <2>4. CASE \E index \in Indices : Vote(index)
    BY <2>4, VoteInv
  <2>5. CASE \E wrong \in BOOLEAN : Compute(wrong)
    BY <2>5, ComputeInv
  <2>6. CASE \E believed \in BOOLEAN : Check(believed)
    BY <2>6, CheckInv
  <2>7. CASE Finish \/ EndSlice \/ Halt \/ Generate \/ Regenerate \/ Open \/ Close \/ Report \/ Advance
    BY <2>7, FinishInv, EndSliceInv, HaltInv, GenerateInv, RegenerateInv, OpenInv, CloseInv, AdvanceInv
  <2>8. CASE Over
    BY <1>1, <2>8 DEF Over
  <2> QED
    BY <1>2, <2>1, <2>2, <2>3, <2>4, <2>5, <2>6, <2>7, <2>8 DEF Next
<1> QED
  BY <1>1, <1>2

(* The unit that runs is the one that is next, whatever faults reach its   *)
(* control state, its buffers and its computation, as long as no two       *)
(* copies are changed under matching checksums between two votes; and the  *)
(* records blame the memory that was corrupted (slice_runner.cpp,          *)
(* control_state.cpp).                                                     *)
THEOREM VerdictsAreTrue == Spec => [](TypeOK /\ VoteIsTrue /\ NoPhantom /\ BlameIsRight)
<1>1. IInv => TypeOK /\ VoteIsTrue /\ NoPhantom /\ BlameIsRight
  <2>1. IInv => TypeOK
    BY DEF IInv, Typed, TypeOK, CopiesType, PlaceType, BufferType, FoundType, TallyType, EndedType,
       FaultType
  <2>2. IInv => BlameIsRight
    BY DEF IInv, FoundTrue, BlameIsRight
  <2> QED
    BY <2>1, <2>2 DEF IInv
<1> QED
  BY <1>1, InitInv, NextInv, PTL DEF Spec
=============================================================================
