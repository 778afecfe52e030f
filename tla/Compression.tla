---------------------------- MODULE Compression -----------------------------
(***************************************************************************)
(* One unit of the compression workload (workloads/compression), an LZ4    *)
(* block behind a header, and its check by the independent oracle's strict *)
(* decoder (verification/oracle/compression), both written from spec.hpp.  *)
(*                                                                         *)
(* A byte has Byte values and a token two fields of Escape + 1 values, so  *)
(* that lengths need their extension bytes within a short unit; the limits *)
(* at the end of a block are the format's.  What the match finder's table  *)
(* holds when a unit begins is what another unit left there.  Positions    *)
(* count from 0, as the code's do.                                         *)
(***************************************************************************)
EXTENDS Integers, Sequences, FiniteSets, SequencesExt, FiniteSetsExt

CONSTANTS Size,                                \* kInputBytes
          Byte, Escape,                        \* 256, and kLengthEscape
          MinMatch, LastLiterals, FindLimit,   \* the format's end-of-block rules
          MaxOffset, Slots,                    \* kMaxOffset, kHashEntries
          Fills,                               \* the random bytes of a stream
          LiteralRuns, CopyRuns, MaxDistance   \* what the generator draws from

VARIABLES unit,     \* its configuration and its input
          table,    \* the match finder's: the last position of each slot
          finder,   \* the phase of the unit, and where the compressor is
          out,      \* the output: magic, block length, body
          reader,   \* where the decoder is, and what it has decoded
          verdict   \* the oracle's

vars == <<unit, table, finder, out, reader, verdict>>

Bytes == 0..(Byte - 1)
More == Byte - 1
Lesser(a, b) == IF a < b THEN a ELSE b
CompressBound == Size + Size \div More + 16
Zeros(n) == [i \in 1..n |-> 0]
NoVerdict == [is |-> "none", rule |-> "", at |-> 0, last |-> 0, bits |-> 0]

(* create() of the workload, and of the oracle; a footprint counts units.  *)
CreateOf(config) ==
  IF config.isa # "scalar" \/ config.decomposition > 1 THEN "configuration"
  ELSE IF config.footprint = 0 THEN "footprint too small" ELSE "created"
OracleOf(config) == IF config.decomposition > 1 THEN "configuration" ELSE "created"

CompressionInit ==
  /\ unit \in [config : [decomposition : {0, 2}, isa : {"scalar", "avx2"}, footprint : 0..1], input : {<<>>}]
  /\ table = [s \in Slots |-> 0]
  /\ finder = [phase |-> "create", position |-> 0, anchor |-> 0, hurt |-> "nothing", where |-> 0]
  /\ out = [magic |-> TRUE, length |-> 0, body |-> <<>>]
  /\ reader = [at |-> 0, match |-> 0, decoded |-> <<>>, found |-> <<>>]
  /\ verdict = NoVerdict

Create ==
  /\ finder.phase = "create"
  /\ IF CreateOf(unit.config) = "created"
     THEN /\ \E fill \in Fills : unit' = [unit EXCEPT !.input = fill]
          /\ finder' = [finder EXCEPT !.phase = "generate"]
     ELSE finder' = [finder EXCEPT !.phase = "refused"] /\ UNCHANGED unit
  /\ UNCHANGED <<table, out, reader, verdict>>

-----------------------------------------------------------------------------
(* generate_input: a literal run left as it is, then a copy run, which     *)
(* repeats its own output when its distance is the shorter.                *)
Copied(input, at, end, distance) ==
  [j \in 1..Size |->
     IF j - 1 \in at..(end - 1) THEN input[at - distance + ((j - 1 - at) % distance) + 1] ELSE input[j]]
Generate ==
  /\ finder.phase = "generate" /\ finder.position < Size
  /\ \E literals \in LiteralRuns, run \in CopyRuns :
       LET at == finder.position + literals
           end == Lesser(at + run, Size)
       IN  \E distance \in 1..Lesser(at, MaxDistance) :
             /\ unit' = [unit EXCEPT !.input = Copied(@, at, end, distance)]
             /\ finder' = [finder EXCEPT !.position = IF at < end THEN end ELSE at]
  /\ UNCHANGED <<table, out, reader, verdict>>

(* compress_block clears the table, whatever is in it.                     *)
AsLeft(left) == left
Cleared(left) == [s \in Slots |-> 0]
Begin ==
  /\ finder.phase = "generate" /\ finder.position >= Size
  /\ \E junk \in {0, Size - 1} : table' = Cleared([s \in Slots |-> junk])
  /\ finder' = [finder EXCEPT !.phase = "find", !.position = 0]
  /\ UNCHANGED <<unit, out, reader, verdict>>

At(position) == unit.input[position + 1]
Word(position) == [i \in 0..(MinMatch - 1) |-> At(position + i)]
(* hash_slot: some function of the bytes, with collisions.                 *)
HashSlot(word) == (3 * word[0] + word[1] + word[2] + word[3]) % Cardinality(Slots)

(* write_length and write_sequence.                                        *)
LengthBytes(rest) == [i \in 1..(rest \div More) |-> More] \o <<rest % More>>
Extra(length) == IF length >= Escape THEN LengthBytes(length - Escape) ELSE <<>>
Sequence(literals, offset, match) ==
  LET code == IF match = 0 THEN 0 ELSE match - MinMatch
  IN  <<Lesser(Len(literals), Escape) * (Escape + 1) + Lesser(code, Escape)>>
        \o Extra(Len(literals)) \o literals
        \o (IF match = 0 THEN <<>> ELSE <<offset % Byte, offset \div Byte>> \o Extra(code))
Literals(from, to) == SubSeq(unit.input, from + 1, to)

(* How far a match reaches: no match covers the last literals.             *)
ToTheEnd == Size
MatchEnd == Size - LastLiterals
MatchLength(candidate, position) ==
  Max({n \in MinMatch..(MatchEnd - position) :
         \A k \in MinMatch..(n - 1) : At(candidate + k) = At(position + k)})
(* Whether the table's candidate is one: a cleared slot says 0, which is   *)
(* below every position but the first.                                     *)
HashIsEnough(candidate, position) == candidate < position /\ position - candidate <= MaxOffset
IsMatch(candidate, position) ==
  candidate < position /\ position - candidate <= MaxOffset /\ Word(candidate) = Word(position)

MayFind == Size > FindLimit /\ finder.position <= Size - FindLimit
Find ==
  /\ finder.phase = "find" /\ MayFind
  /\ LET position == finder.position
         slot == HashSlot(Word(position))
         candidate == table[slot]
         length == MatchLength(candidate, position)
     IN  /\ table' = [table EXCEPT ![slot] = position]
         /\ IF IsMatch(candidate, position)
            THEN /\ out' = [out EXCEPT !.body =
                              @ \o Sequence(Literals(finder.anchor, position), position - candidate, length)]
                 /\ finder' = [finder EXCEPT !.position = position + length, !.anchor = position + length]
            ELSE finder' = [finder EXCEPT !.position = @ + 1] /\ UNCHANGED out
  /\ UNCHANGED <<unit, reader, verdict>>

(* The literals that end the block; then write_unit's header and padding.  *)
WriteUnit ==
  /\ finder.phase = "find" /\ ~MayFind
  /\ LET block == out.body \o Sequence(Literals(finder.anchor, Size), 0, 0)
     IN  out' = [magic |-> TRUE, length |-> Len(block), body |-> block \o Zeros(CompressBound - Len(block))]
  /\ finder' = [finder EXCEPT !.phase = "computed"]
  /\ UNCHANGED <<unit, table, reader, verdict>>

(* Before the check some of the unit's memory goes wrong.                  *)
Hurt(what, where) == finder' = [finder EXCEPT !.hurt = what, !.where = where]
BitsOf(a, b) == Cardinality({k \in {1, 2} : (a \div k) % 2 # (b \div k) % 2})
Flipped(byte) == {b \in Bytes : BitsOf(b, byte) = 1}
OtherLengths == {0, out.length - 1, out.length + 1, CompressBound, CompressBound + 1} \ {out.length}
Corrupt ==
  /\ finder.phase = "computed" /\ finder.hurt = "nothing"
  /\ \/ out' = [out EXCEPT !.magic = FALSE] /\ Hurt("magic", 0) /\ UNCHANGED unit
     \/ \E length \in OtherLengths :
          out' = [out EXCEPT !.length = length] /\ Hurt("length", 0) /\ UNCHANGED unit
     \/ \E j \in 1..(out.length + 1) : \E byte \in Flipped(out.body[j]) :
          /\ out' = [out EXCEPT !.body[j] = byte]
          /\ Hurt(IF j > out.length THEN "padding" ELSE "block", j - 1) /\ UNCHANGED unit
     \/ \E j \in 1..Size : \E byte \in Flipped(unit.input[j]) :
          unit' = [unit EXCEPT !.input[j] = byte] /\ Hurt("input", j - 1) /\ UNCHANGED out
  /\ UNCHANGED <<table, reader, verdict>>

-----------------------------------------------------------------------------
(* CompressionOracle::check up to the block: evidence of another size, the *)
(* magic, the length, the padding; then the scratch.  A place counts from  *)
(* the start of the block, which the header's eight bytes come before.     *)
Malformed(at, rule) == [NoVerdict EXCEPT !.is = "malformed", !.at = at, !.rule = rule]
BadPadding == {j \in out.length..(CompressBound - 1) : out.body[j + 1] # 0}
HeaderOf(sized, scratch) ==
  IF ~sized THEN [NoVerdict EXCEPT !.is = "not checked"]
  ELSE IF ~out.magic THEN Malformed(-8, "magic")
  ELSE IF out.length > CompressBound THEN Malformed(-4, "length")
  ELSE IF BadPadding # {} THEN Malformed(Min(BadPadding), "padding")
  ELSE IF ~scratch THEN [NoVerdict EXCEPT !.is = "not checked"] ELSE NoVerdict
CheckHeader ==
  /\ finder.phase = "computed"
  /\ \E sized, scratch \in BOOLEAN :
       verdict' = IF OracleOf(unit.config) = "created" THEN HeaderOf(sized, scratch)
                  ELSE [NoVerdict EXCEPT !.is = "no oracle"]
  /\ finder' = [finder EXCEPT !.phase = IF verdict'.is = "none" THEN "literals" ELSE "checked"]
  /\ UNCHANGED <<unit, table, out, reader>>

Block(at) == out.body[at + 1]
Decoded == Len(reader.decoded)
(* extend: the bytes of a length up to the first that is not the mark.     *)
Ends(at) == {j \in at..(out.length - 1) : Block(j) # More}
LengthAt(field, at) ==
  IF field # Escape THEN [whole |-> TRUE, length |-> field, next |-> at]
  ELSE IF Ends(at) = {} THEN [whole |-> FALSE, length |-> 0, next |-> out.length]
  ELSE LET end == Min(Ends(at))
       IN  [whole |-> TRUE, length |-> field + More * (end - at) + Block(end), next |-> end + 1]

(* What is wrong with a sequence's literals, with its match, and with the  *)
(* last token: the first rule that is broken, or none.                     *)
LiteralsBroken(literals) ==
  IF ~literals.whole THEN "literal length truncated"
  ELSE IF literals.length > out.length - literals.next THEN "literals truncated"
  ELSE IF literals.length > Size - Decoded THEN "literals too long" ELSE "none"
Lenient(match) == IF Decoded # Size THEN "decoded too short" ELSE "none"
LastBroken(match) ==
  IF match # 0 THEN "last token has match"
  ELSE IF Decoded # Size THEN "decoded too short" ELSE "none"
MatchBroken(offset, match) ==
  IF offset = 0 THEN "offset zero"
  ELSE IF offset > Decoded THEN "offset before start"
  ELSE IF ~match.whole THEN "match length truncated"
  ELSE IF Size - Decoded < FindLimit THEN "match too late"
  ELSE IF match.length + MinMatch > Size - Decoded - LastLiterals THEN "match into last literals" ELSE "none"

Judge(v) == verdict' = v /\ finder' = [finder EXCEPT !.phase = "checked"] /\ UNCHANGED reader
GoOn(phase) == finder' = [finder EXCEPT !.phase = phase] /\ UNCHANGED verdict

(* A token and its literals.                                               *)
DecodeLiterals ==
  /\ finder.phase = "literals"
  /\ IF reader.at = out.length THEN Judge(Malformed(reader.at, "no last sequence"))
     ELSE LET token == Block(reader.at)
              literals == LengthAt(token \div (Escape + 1), reader.at + 1)
              bytes == SubSeq(out.body, literals.next + 1, literals.next + literals.length)
          IN  IF LiteralsBroken(literals) # "none" THEN Judge(Malformed(literals.next, LiteralsBroken(literals)))
              ELSE /\ reader' = [at |-> literals.next + literals.length, match |-> token % (Escape + 1),
                                 decoded |-> reader.decoded \o bytes,
                                 found |-> Append(reader.found, [token |-> reader.at, literals |-> bytes, offset |-> 0, match |-> 0])]
                   /\ GoOn(IF reader'.at = out.length THEN "last" ELSE "match")
  /\ UNCHANGED <<unit, table, out>>

(* Its match, byte by byte from the front.                                 *)
Repeated(offset, length) == [i \in 1..length |-> reader.decoded[Decoded - offset + ((i - 1) % offset) + 1]]
DecodeMatch ==
  /\ finder.phase = "match"
  /\ IF out.length - reader.at < 2 THEN Judge(Malformed(reader.at, "offset truncated"))
     ELSE LET offset == Block(reader.at) + Byte * Block(reader.at + 1)
              match == LengthAt(reader.match, reader.at + 2)
              broken == MatchBroken(offset, match)
              length == match.length + MinMatch
          IN  IF broken # "none"
              THEN Judge(Malformed(IF broken = "match length truncated" THEN match.next ELSE reader.at, broken))
              ELSE /\ reader' = [reader EXCEPT !.at = match.next, !.decoded = @ \o Repeated(offset, length),
                                   !.found[Len(reader.found)] = [@ EXCEPT !.offset = offset, !.match = length]]
                   /\ GoOn("literals")
  /\ UNCHANGED <<unit, table, out>>

(* derived_difference: where the decoded bytes and the input differ.       *)
Differing == {j \in 0..(Size - 1) : reader.decoded[j + 1] # At(j)}
(* The block has ended after literals.                                     *)
DecodeLast ==
  /\ finder.phase = "last"
  /\ LET broken == LastBroken(reader.match)
     IN  Judge(IF broken # "none" THEN Malformed(Last(reader.found).token, broken)
               ELSE IF Differing = {} THEN [NoVerdict EXCEPT !.is = "agreement"]
               ELSE [is |-> "mismatch", rule |-> "", at |-> Min(Differing), last |-> Max(Differing),
                     bits |-> MapThenSumSet(LAMBDA j : BitsOf(reader.decoded[j + 1], At(j)), Differing)])
  /\ UNCHANGED <<unit, table, out>>

CompressionDone == finder.phase \in {"refused", "checked"} /\ UNCHANGED vars
CompressionNext ==
  \/ Create \/ Generate \/ Begin \/ Find \/ WriteUnit \/ Corrupt
  \/ CheckHeader \/ DecodeLiterals \/ DecodeMatch \/ DecodeLast \/ CompressionDone

-----------------------------------------------------------------------------
(* lz4_block.hpp: every candidate the table holds is a position this call  *)
(* wrote there, below the current one, so the block depends on nothing     *)
(* another unit left; and the block stays within compress_bound.           *)
BlockIsOwn ==
  /\ finder.phase = "find" =>
       \A s \in Slots : table[s] # 0 => table[s] < finder.position /\ HashSlot(Word(table[s])) = s
  /\ Len(out.body) <= CompressBound

(* spec.hpp: what the compressor wrote decodes to its input, whatever the  *)
(* input; a wrong header, length or padding never agrees, and an input     *)
(* that changed afterwards is reported as the one bit that changed.        *)
UnitIsJudged ==
  verdict.is \notin {"none", "not checked"} =>
    CASE finder.hurt = "nothing" -> verdict.is = "agreement"
      [] finder.hurt = "magic" -> verdict.rule = "magic"
      [] finder.hurt = "padding" -> verdict.rule = "padding" /\ verdict.at = finder.where
      [] finder.hurt = "length" -> verdict.is = "malformed"
      [] finder.hurt = "input" ->
           verdict.is = "mismatch" /\ verdict.at = finder.where /\ verdict.last = finder.where /\ verdict.bits = 1
      [] finder.hurt = "block" -> verdict.is \in {"malformed", "mismatch", "agreement"}

(* decoder.hpp, strict because a lenient decoder hides corruption: a block *)
(* that is said to decode is the one encoding of the sequences found in    *)
(* it, they give the whole of what was decoded, and they keep the rules at *)
(* the end of a block.  Agreement means that they give the input.          *)
Expanded(found) ==
  FoldLeft(LAMBDA bytes, s :
             bytes \o s.literals
               \o [i \in 1..s.match |-> (bytes \o s.literals)[Len(bytes) + Len(s.literals) - s.offset + ((i - 1) % s.offset) + 1]],
           <<>>, found)
Encoded(found) == FoldLeft(LAMBDA bytes, s : bytes \o Sequence(s.literals, s.offset, s.match), <<>>, found)
DecodingIsStrict ==
  verdict.is \in {"agreement", "mismatch"} =>
    /\ Encoded(reader.found) = SubSeq(out.body, 1, out.length)
    /\ Len(Expanded(reader.found)) = Size
    /\ (verdict.is = "agreement") <=> (Expanded(reader.found) = unit.input)
    /\ \A i \in 1..Len(reader.found) :
         LET after == Size - Len(Expanded(SubSeq(reader.found, 1, i)))
         IN  IF i = Len(reader.found) THEN reader.found[i].match = 0
             ELSE after >= LastLiterals /\ after + reader.found[i].match >= FindLimit

CompressionIsRight == BlockIsOwn /\ UnitIsJudged /\ DecodingIsStrict
=============================================================================
