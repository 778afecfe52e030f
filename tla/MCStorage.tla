----------------------------- MODULE MCStorage -----------------------------
(***************************************************************************)
(* What a run leaves on the disk, its journal and its result files, and    *)
(* what it is made of: its command line, its configuration, its plan, the  *)
(* bytes its processes exchange, and the build it was found fit to be run  *)
(* with.                                                                   *)
(* The parts share no state, so each is explored with the others at rest.  *)
(***************************************************************************)
EXTENDS Journal, SetupInputs

CONSTANTS a, b, c
VARIABLES part, pc, fd, partial, path, kept, written, synced, said, power,
          request, plan, sent, queue, workers

resultVars == <<pc, fd, partial, path, kept, written, synced, said, power>>
setupVars == <<request, plan, sent, queue, workers>>
diskVars == <<vars, resultVars>>
Result == INSTANCE ResultFile WITH Writers <- {"a"}, Parts <- 3

ThreeRuns == {a, b, c}
Symmetric == Permutations(Runs)

Plan == INSTANCE Plan WITH Requests <- Mixed \cup Cycling \cup Planned, MaxSteps <- 6, MaxCommands <- 15,
                           MinInterval <- 1, MaxInterval <- 3
(* The integers are of nine bits, a unit is two or four of the one below.  *)
Setup == INSTANCE Argv WITH
  file <- request, text <- sent, read <- plan, again <- queue, line <- request, outcome <- plan, asked <- request, argv <- queue, got <- plan,
  Names <- {"sort", "fft"}, MaxInt <- 5, MaxWorkers <- 2, MaxLine <- 4,
  MaxUnsigned <- 511, MaxSigned <- 255, MaxThreads <- 3, Kibi <- 2, Sixty <- 2, Thousand <- 4, Nanos <- 4, MaxCelsius <- 4, Chunk <- 2,
  Registry <- {"sort", "fft", "dense_linear"}, LongestTrial <- 15, MostWorkers <- 2, MostElimination <- 3, LeastFootprint <- 3,
  Defaults <- [test |-> 8, trial |-> 8, interval |-> 3, window |-> 4, settle |-> 8]
(* A byte is of three bits, the widest integer of three bytes.             *)
Coded == INSTANCE Codec WITH
  item <- request, wire <- sent, hurt <- queue, taken <- plan,
  ByteBits <- 3, WordBytes <- 2, MaxText <- 3, MaxWindow <- 4, MaxLabel <- 2, MaxPayload <- 40, IsaPaths <- 3, Optionals <- 2, MaxCpu <- 16
Tripwire == INSTANCE Selftest WITH
  asked <- request, text <- sent, edit <- queue, told <- plan,
  MaxU32 <- 3, MaxU64 <- 15, IsaPaths <- {"scalar", "avx2", "avx512", "neon"}, Names <- {"sort", "fft"}
Drawn == INSTANCE Document WITH
  input <- request, result <- plan, tree <- sent, written <- queue,
  Reports <- TwoReports, MaxU64 <- 9, Texts <- ByteTexts, Cells <- CellPairs
Printed == INSTANCE Fingerprint WITH
  machine <- request, reading <- plan, met <- sent, Machines <- <<{Laptop, Lacking(Mains)}, OddMachines>>, Events <- LaptopEvents, MaxEvents <- 2

-----------------------------------------------------------------------------
PlanStart == part = "plan" /\ Plan!Init
FileStart == part = "file" /\ Setup!ConfigInit /\ workers = <<>>
LineStart == part = "line" /\ Setup!OptionsInit /\ sent = 0 /\ queue = <<>> /\ workers = <<>>
ArgvStart == part = "argv" /\ Setup!ArgvInit /\ sent = 0 /\ workers = <<>>
BytesStart == part = "bytes" /\ Coded!CodecInit /\ workers = <<>>
GoldenStart == part = "golden" /\ Tripwire!GoldenInit /\ workers = <<>>
SelftestStart == part = "selftest" /\ Tripwire!SelftestInit /\ workers = <<>>
DocumentStart == part = "document" /\ Drawn!DocumentInit /\ workers = <<>>
TextsStart == part = "texts" /\ Drawn!TextsInit /\ workers = <<>>
PrintStart == part = "print" /\ Printed!FingerprintInit /\ queue = <<>> /\ workers = <<>>
SetupAtRest ==
  part \in {"journal", "result"} /\ request = "none" /\ plan = "none" /\ sent = 0 /\ queue = <<>> /\ workers = <<>>
StorageInit ==
  /\ PlanStart \/ FileStart \/ LineStart \/ ArgvStart \/ BytesStart \/ GoldenStart \/ SelftestStart
     \/ DocumentStart \/ TextsStart \/ PrintStart \/ SetupAtRest
  /\ Init /\ Result!Init
  /\ part # "result" => partial = Result!None /\ path = Result!None
StorageNext ==
  \/ part = "journal" /\ Next /\ UNCHANGED <<part, resultVars, setupVars>>
  \/ part = "result" /\ Result!Next /\ UNCHANGED <<part, vars, setupVars>>
  \/ part = "plan" /\ Plan!Next /\ UNCHANGED <<part, diskVars>>
  \/ part = "file" /\ Setup!ConfigNext /\ UNCHANGED <<part, diskVars, workers>>
  \/ part = "line" /\ Setup!OptionsNext /\ UNCHANGED <<part, diskVars, sent, queue, workers>>
  \/ part = "argv" /\ Setup!ArgvNext /\ UNCHANGED <<part, diskVars, sent, workers>>
  \/ part = "bytes" /\ Coded!CodecNext /\ UNCHANGED <<part, diskVars, workers>>
  \/ part = "golden" /\ Tripwire!GoldenNext /\ UNCHANGED <<part, diskVars, workers>>
  \/ part = "selftest" /\ Tripwire!SelftestNext /\ UNCHANGED <<part, diskVars, workers>>
  \/ part = "document" /\ Drawn!DocumentNext /\ UNCHANGED <<part, diskVars, workers>>
  \/ part = "print" /\ Printed!FingerprintNext /\ UNCHANGED <<part, diskVars, queue, workers>>
  \/ part = "texts" /\ Drawn!TextsNext /\ UNCHANGED <<part, diskVars, workers>>
StorageSpec == StorageInit /\ [][StorageNext]_<<part, diskVars, setupVars>>
(* The journal on its own, and the command line.                           *)
JournalSpec == StorageInit /\ part = "journal" /\ [][StorageNext]_<<part, diskVars, setupVars>>
LineSpec == StorageInit /\ part = "line" /\ [][StorageNext]_<<part, diskVars, setupVars>>

-----------------------------------------------------------------------------
(* The journal's variables keep their types, the names of the result's     *)
(* directory are files that exist, and the plan, the configuration and     *)
(* what they come to keep theirs.                                          *)
TypesOK ==
  /\ TypeOK /\ Result!TypeOK
  /\ part = "plan" => Plan!TypeOK
  /\ part = "file" => Setup!ConfigTypeOK

(* What is at a result's path is always the whole of one result, and once  *)
(* store() has said so, a power cut does not take it away.  Its two        *)
(* formats say the same, and nothing a run records is lost in them; its    *)
(* fingerprint is what the machine said, or says why there is none.        *)
ResultIsKept ==
  /\ Result!WholeOrNothing /\ Result!StoredIsDurable
  /\ part = "document" => Drawn!DocumentIsTrue
  /\ part = "print" => Printed!FingerprintIsTrue

(* A run is made of what was asked for.  A schedule leaves its workers     *)
(* where it says and within the memory there is, and the workers of a plan *)
(* can be run; a configuration says what its file says, and is read back   *)
(* as it was written; the words of a command line decide it in any order,  *)
(* and come to what can be done; a process reads what it was told; and a   *)
(* self test that passes has run what a run of the same request would use. *)
SetupIsTrue ==
  /\ part = "plan" => Plan!ScheduleIsKept /\ Plan!PlanIsRunnable
  /\ part = "file" => Setup!ConfigIsTrue
  /\ part = "line" => Setup!WordsDecide /\ Setup!CommandCanBe
  /\ part = "argv" => Setup!ProcessesAreTold
  /\ part = "selftest" => Tripwire!SelftestIsTrue

(* What is sent or kept as bytes is read as it was written, or refused as  *)
(* what is wrong with it, and never taken for something else: an error     *)
(* record, a command, a tally, the journal of a machine that died, the     *)
(* golden vector a later build is compared with, the texts of a result.    *)
BytesAreExact ==
  /\ part = "bytes" => Coded!BytesAreExact
  /\ part = "golden" => Tripwire!GoldenIsTrue
  /\ part = "texts" => Drawn!TextsAreExact

(* config.hpp of the longest run: "The command line's `--duration` is held *)
(* to the same bound."                                                     *)
DurationIsHeld == part = "line" => Setup!DurationIsHeld
=============================================================================
