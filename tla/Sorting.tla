------------------------------ MODULE Sorting -------------------------------
(***************************************************************************)
(* One unit of the sort workload (workloads/sort/sort.cpp) and its check   *)
(* by the independent oracle (verification/oracle/sort/sort_oracle.cpp),   *)
(* both written from workloads/sort/spec.hpp.                              *)
(*                                                                         *)
(* The sort is a least-significant-digit radix sort.  Each pass counts the *)
(* digits of every range of keys, places the ranges, and moves the keys;   *)
(* the ranges are tasks of the executor, whose steps interleave in any     *)
(* order, and run() returns when all of them are done.  The scratch and    *)
(* the output hold whatever the last unit left there.  The oracle never    *)
(* sorts: it reads the input positions the output carries beside its keys. *)
(***************************************************************************)
EXTENDS Integers, FiniteSets, FiniteSetsExt

CONSTANTS Keys,         \* kKeys
          KeyBits,      \* the bits of a key
          DigitBits,    \* kDigitBits: a digit, and an even number of passes
          ChunkCounts,  \* kChunkCounts
          DefaultChunks

VARIABLES unit,     \* its configuration, and its input: key of each position
          pass,     \* the pass under way, its phase, and what corrupted the unit
          side,     \* the scratch's copy of the keys and indices
          out,      \* the output
          ranges,   \* per range: its counters, and the keys it has dealt with
          verdict   \* the oracle's

vars == <<unit, pass, side, out, ranges, verdict>>

Positions == 0..(Keys - 1)
KeyValues == 0..(2^KeyBits - 1)
Radix == 2^DigitBits
Digits == 0..(Radix - 1)
Passes == KeyBits \div DigitBits
Entry(key, index) == [key |-> key, index |-> index]
Junk(key) == [j \in Positions |-> Entry(key, 0)]
NoVerdict == [is |-> "none", at |-> 0, bits |-> 0, blocks |-> 0]

(* precedes: by key as an unsigned integer, then by input position.        *)
Precedes(lhs, rhs) == lhs.key < rhs.key \/ (lhs.key = rhs.key /\ lhs.index < rhs.index)

IsChunkCount(chunks) == chunks \in ChunkCounts
Resolved(config) == IF config.decomposition = 0 THEN DefaultChunks ELSE config.decomposition
(* create(): the refusals in their order; a footprint counts in units.     *)
CreateOf(config) ==
  IF ~IsChunkCount(Resolved(config)) THEN "configuration"
  ELSE IF config.isa # "scalar" THEN "configuration"
  ELSE IF config.footprint = 0 THEN "footprint too small" ELSE "created"
(* make_sort_oracle(): of the configuration, and of the plan it came to.   *)
OracleOf(config, chunks) ==
  IF config.decomposition # 0 /\ ~IsChunkCount(config.decomposition) THEN "configuration"
  ELSE IF ~IsChunkCount(chunks) THEN "configuration" ELSE "created"

Chunks == Resolved(unit.config)
Ranges == 0..(Chunks - 1)
RangeKeys == Keys \div Chunks
First(r) == r * RangeKeys
AtRest == [r \in Ranges |-> [places |-> [d \in Digits |-> 0], dealt |-> 0]]

SortInit ==
  /\ unit \in [config : [decomposition : 0..(Keys + 1), isa : {"scalar", "avx2"}, footprint : 0..1],
               input : {[e \in Positions |-> 0]}]
  /\ pass = [number |-> 0, phase |-> "create", hurt |-> "nothing"]
  /\ side = Junk(0) /\ out = Junk(0)
  /\ ranges = [r \in {0} |-> [places |-> [d \in Digits |-> 0], dealt |-> 0]]
  /\ verdict = NoVerdict

(* The workload is created and given an input: any keys.                   *)
Create ==
  /\ pass.phase = "create"
  /\ IF CreateOf(unit.config) = "created"
     THEN /\ \E input \in [Positions -> KeyValues] : unit' = [unit EXCEPT !.input = input]
          /\ \E key \in {0, 2^KeyBits - 1} : side' = Junk(key) /\ out' = Junk(key)
          /\ ranges' = AtRest
          /\ pass' = [pass EXCEPT !.phase = "count"]
          /\ UNCHANGED verdict
     ELSE /\ pass' = [pass EXCEPT !.phase = "refused"]
          /\ UNCHANGED <<unit, side, out, ranges, verdict>>

(* What a pass reads: the input with its positions, then the two buffers   *)
(* in turn.                                                                *)
FromInput == pass.number = 0
ToOutput == pass.number % 2 = 1
Source(j) ==
  IF FromInput THEN Entry(unit.input[j], j) ELSE IF ToOutput THEN side[j] ELSE out[j]
DigitOf(key) == (key \div 2^(pass.number * DigitBits)) % Radix

(* count_range.                                                            *)
CountRange(r) ==
  /\ pass.phase = "count" /\ ranges[r].dealt = 0
  /\ ranges' = [ranges EXCEPT ![r] =
       [places |-> [d \in Digits |->
          Cardinality({j \in First(r)..(First(r) + RangeKeys - 1) : DigitOf(Source(j).key) = d})],
        dealt |-> RangeKeys]]
  /\ UNCHANGED <<unit, pass, side, out, verdict>>

(* place_ranges: all of digit 0 in range order, then digit 1, and so on.   *)
ByRange(d, r) ==
  {<<e, q>> \in Digits \X Ranges : q < r \/ (q = r /\ e < d)}
Before(d, r) ==
  {<<e, q>> \in Digits \X Ranges : e < d \/ (e = d /\ q < r)}
PlaceRanges ==
  /\ pass.phase = "count" /\ \A r \in Ranges : ranges[r].dealt = RangeKeys
  /\ ranges' = [r \in Ranges |->
       [places |-> [d \in Digits |-> MapThenSumSet(LAMBDA c : ranges[c[2]].places[c[1]], Before(d, r))],
        dealt |-> 0]]
  /\ pass' = [pass EXCEPT !.phase = "move"]
  /\ UNCHANGED <<unit, side, out, verdict>>

(* move_range, a key at a time.                                            *)
MoveKey(r) ==
  /\ pass.phase = "move" /\ ranges[r].dealt < RangeKeys
  /\ LET entry == Source(First(r) + ranges[r].dealt)
         digit == DigitOf(entry.key)
         place == ranges[r].places[digit]
     IN  /\ IF ToOutput THEN out' = [out EXCEPT ![place] = entry] /\ UNCHANGED side
            ELSE side' = [side EXCEPT ![place] = entry] /\ UNCHANGED out
         /\ ranges' = [ranges EXCEPT ![r].places[digit] = @ + 1, ![r].dealt = @ + 1]
  /\ UNCHANGED <<unit, pass, verdict>>

(* run() has returned: the next pass, or the end of compute().             *)
NextPass ==
  /\ pass.phase = "move" /\ \A r \in Ranges : ranges[r].dealt = RangeKeys
  /\ pass' = IF pass.number + 1 = Passes THEN [pass EXCEPT !.phase = "computed"]
             ELSE [pass EXCEPT !.number = @ + 1, !.phase = "count"]
  /\ ranges' = AtRest
  /\ UNCHANGED <<unit, side, out, verdict>>

(* Before the check a bit of the memory of the unit is flipped.            *)
BitsOf(lhs, rhs) == Cardinality({b \in 0..(KeyBits - 1) : (lhs \div 2^b) % 2 # (rhs \div 2^b) % 2})
Corrupt ==
  /\ pass.phase = "computed" /\ pass.hurt = "nothing"
  /\ \E j \in Positions :
       \/ \E key \in KeyValues :
            /\ BitsOf(key, out[j].key) = 1
            /\ out' = [out EXCEPT ![j].key = key]
            /\ pass' = [pass EXCEPT !.hurt = "key"] /\ UNCHANGED unit
       \/ \E index \in (Positions \cup {Keys}) \ {out[j].index} :
            /\ out' = [out EXCEPT ![j].index = index]
            /\ pass' = [pass EXCEPT !.hurt = "index"] /\ UNCHANGED unit
       \/ \E key \in KeyValues :
            /\ BitsOf(key, unit.input[j]) = 1
            /\ unit' = [unit EXCEPT !.input[j] = key]
            /\ pass' = [pass EXCEPT !.hurt = "input"] /\ UNCHANGED out
  /\ UNCHANGED <<side, ranges, verdict>>

(* The oracle's steps: the positions at which each would stop.             *)
NeverRepeats == {j \in Positions : out[j].index >= Keys}
BadIndices == {j \in Positions : out[j].index >= Keys \/ \E i \in 0..(j - 1) : out[i].index = out[j].index}
BadKeys == {j \in Positions : out[j].key # unit.input[out[j].index]}
BadOrder == {j \in Positions \ {0} : ~Precedes(out[j - 1], out[j])}
(* check(): the first step that fails gives the verdict.  A wrong key has  *)
(* an expected value, so its bits are counted over the whole region.       *)
CheckOf(memory) ==
  IF ~memory THEN [NoVerdict EXCEPT !.is = "not checked"]
  ELSE IF BadIndices # {} THEN [is |-> "indices", at |-> Min(BadIndices), bits |-> 0, blocks |-> Min(BadIndices) + 1]
  ELSE IF BadKeys # {}
       THEN [is |-> "keys", at |-> Min(BadKeys), blocks |-> Keys,
             bits |-> MapThenSumSet(LAMBDA j : BitsOf(out[j].key, unit.input[out[j].index]), BadKeys)]
  ELSE IF BadOrder # {} THEN [is |-> "order", at |-> Min(BadOrder), bits |-> 0, blocks |-> Keys]
  ELSE [is |-> "agreement", at |-> 0, bits |-> 0, blocks |-> Keys]
Check ==
  /\ pass.phase = "computed"
  /\ \E memory \in BOOLEAN :
       verdict' = IF OracleOf(unit.config, Chunks) = "created" THEN CheckOf(memory)
                  ELSE [NoVerdict EXCEPT !.is = "no oracle"]
  /\ pass' = [pass EXCEPT !.phase = "checked"]
  /\ UNCHANGED <<unit, side, out, ranges>>

SortDone == pass.phase \in {"refused", "checked"} /\ UNCHANGED vars
SortNext ==
  \/ Create
  \/ \E r \in DOMAIN ranges : CountRange(r) \/ MoveKey(r)
  \/ PlaceRanges \/ NextPass \/ Corrupt \/ Check \/ SortDone

-----------------------------------------------------------------------------
(* spec.hpp, the one right output of an input: the pairs of key and input  *)
(* position in their strict order.                                         *)
Rank(input, e) ==
  Cardinality({d \in Positions : input[d] < input[e] \/ (input[d] = input[e] /\ d < e)})
Right(input) ==
  [j \in Positions |-> LET e == CHOOSE e \in Positions : Rank(input, e) = j IN Entry(input[e], e)]

(* spec.hpp: the output is a function of the input alone, for every        *)
(* decomposition and however the ranges' tasks interleave.                 *)
SortIsStable == pass.phase = "computed" /\ pass.hurt = "nothing" => out = Right(unit.input)

(* spec.hpp: the oracle agrees exactly with the right output, although it  *)
(* never sorts; a flipped bit of a key is reported as one flipped bit, one *)
(* of an index as a broken permutation, and an input that changed after    *)
(* the computation as a wrong key.  An oracle without memory has checked   *)
(* nothing.  What the workload accepts has an oracle.                      *)
SortOracleIsExact ==
  verdict.is # "none" =>
    /\ verdict.is # "no oracle"
    /\ verdict.is = "agreement" => out = Right(unit.input)
    /\ verdict.is \in {"indices", "keys", "order"} => out # Right(unit.input)
    /\ verdict.is # "not checked" =>
         CASE pass.hurt = "nothing" -> verdict.is = "agreement"
           [] pass.hurt \in {"key", "input"} -> verdict.is = "keys" /\ verdict.bits = 1
           [] pass.hurt = "index" -> verdict.is = "indices"

SortIsRight == SortIsStable /\ SortOracleIsExact
=============================================================================
