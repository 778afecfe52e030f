------------------------------ MODULE Journal ------------------------------
(***************************************************************************)
(* The crash journal at one path: runs that open it (main/journal_rig.cpp),*)
(* keep or remove what the run before left there, append and sync entries  *)
(* (controller/orchestration.cpp) and end it (main/cli.cpp), over a file   *)
(* system in which a machine that dies loses what was not synced.          *)
(*                                                                         *)
(* Name 0 of the directory is the path, name n the kept path.n.  A file    *)
(* holds the records written to it: an "entry", the "end" mark, or a       *)
(* record cut short: "cut" when an end mark after it still leaves it short *)
(* of the length it claims, "part" when one completes that length.         *)
(***************************************************************************)
EXTENDS Naturals, Sequences, SequencesExt, FiniteSetsExt

CONSTANTS Runs,          \* the runs given this path
          MaxEntries,    \* bound: entries one run writes
          MaxKept,       \* kMostKeptJournals
          MaxCrashes,    \* bound: times the machine dies
          MaxFaults,     \* bound: calls the file system refuses
          Overlap        \* bound: whether two runs may open the path at once

ASSUME JournalAssumption ==
  /\ {MaxEntries, MaxKept, MaxCrashes, MaxFaults} \subseteq Nat /\ Overlap \in BOOLEAN

VARIABLES run,       \* each run: where it is, its descriptors, what it read
          file,      \* every file: its records, how many are durable, its lock
          dirs,      \* the directory now (last) and since it was last synced
          crashes, faults

vars == <<run, file, dirs, crashes, faults>>

Names == 0 .. MaxKept
None == 0
Nobody == "nobody"
Kinds == {"entry", "end", "cut", "part"}

Dir == Last(dirs)
Opening == {"open", "sync first", "lock", "replay", "pick", "move", "remove", "open fresh",
            "sync fresh", "lock fresh", "start"}
Writing == {"write", "append", "sync", "closing"}
Over == {"refused", "ended", "dead"}

Init ==
  /\ run = [r \in Runs |-> [at |-> "idle", fd |-> None, fresh |-> None, kept |-> 0,
                            live |-> TRUE, written |-> 0, ended |-> FALSE]]
  /\ file = <<>> /\ dirs = <<[n \in Names |-> None]>>
  /\ crashes = 0 /\ faults = 0

-----------------------------------------------------------------------------
(* The format                                                              *)

Whole(data) ==
  LET bad == {i \in DOMAIN data : data[i].kind # "entry"} IN
  IF bad = {} THEN data ELSE SubSeq(data, 1, Min(bad) - 1)

(* scan: the entries before the first record that is none, and how the     *)
(* file ends there.                                                        *)
Ending(data) ==
  LET rest == SubSeq(data, Len(Whole(data)) + 1, Len(data)) IN
  IF data = <<>> THEN "empty"
  ELSE IF rest = <<>> THEN "unterminated"
  ELSE IF rest[1].kind = "end" THEN IF Len(rest) = 1 THEN "terminated" ELSE "corrupt"
  ELSE IF Len(rest) = 1 \/ rest[1].kind = "cut" THEN "torn tail" ELSE "corrupt"

-----------------------------------------------------------------------------
(* Opening                                                                 *)

Goes(r, at) == [run EXCEPT ![r].at = at]

(* A run that is refused, or over, has no descriptors and holds no lock.   *)
Leaves(r, at) == [run EXCEPT ![r].at = at, ![r].fd = None, ![r].fresh = None]
Unlocked(files, r) == [i \in DOMAIN files |->
                         IF files[i].lock = r THEN [files[i] EXCEPT !.lock = Nobody] ELSE files[i]]

Alone(r) == \A s \in Runs \ {r} : run[s].at \notin Opening

Begin(r) ==
  /\ run[r].at = "idle" /\ (Overlap \/ Alone(r))
  /\ run' = Goes(r, "open")
  /\ UNCHANGED <<file, dirs, crashes, faults>>

Empty == [data |-> <<>>, synced |-> 0, lock |-> Nobody]

(* open(O_CREAT | O_APPEND): the file at the path, made when there is none.*)
Opened == IF Dir[0] # None THEN Dir[0] ELSE Len(file) + 1

OpenPath ==
  /\ IF Dir[0] # None THEN UNCHANGED <<file, dirs>>
     ELSE /\ file' = Append(file, Empty)
          /\ dirs' = Append(dirs, [Dir EXCEPT ![0] = Opened])
  /\ UNCHANGED <<crashes, faults>>

Open(r) ==
  /\ run[r].at = "open" /\ OpenPath
  /\ run' = [run EXCEPT ![r].at = "sync first", ![r].fd = Opened]

OpenFresh(r) ==
  /\ run[r].at = "open fresh" /\ OpenPath
  /\ run' = [run EXCEPT ![r].at = "sync fresh", ![r].fresh = Opened]

(* sync_directory: its names, as they are, survive the machine.            *)
SyncDirectory(r) ==
  /\ run[r].at \in {"sync first", "sync fresh"}
  /\ run' = Goes(r, IF run[r].at = "sync first" THEN "lock" ELSE "lock fresh")
  /\ dirs' = <<Dir>>
  /\ UNCHANGED <<file, crashes, faults>>

NotHeld(f, r) == f
Held(f, r) == [f EXCEPT !.lock = r]

Free(f) == f.lock = Nobody

(* flock(LOCK_EX | LOCK_NB) on the first file: a journal in use is refused.*)
Lock(r) ==
  /\ run[r].at = "lock"
  /\ IF Free(file[run[r].fd])
     THEN file' = [file EXCEPT ![run[r].fd] = Held(@, r)] /\ run' = Goes(r, "replay")
     ELSE run' = Leaves(r, "refused") /\ UNCHANGED file
  /\ UNCHANGED <<dirs, crashes, faults>>

(* What is done with what is at the path, which is read by its name: an    *)
(* empty file is used, one that is no journal refused, one that ended      *)
(* cleanly removed, any other kept.                                        *)
SetAside(ending) == IF ending = "terminated" THEN "remove" ELSE "pick"

Replay(r) ==
  /\ run[r].at = "replay"
  /\ LET data == IF Dir[0] = None THEN <<>> ELSE file[Dir[0]].data IN
     IF Dir[0] = None \/ (Ending(data) = "corrupt" /\ Whole(data) = <<>>)
     THEN run' = Leaves(r, "refused") /\ file' = Unlocked(file, r)
     ELSE /\ run' = Goes(r, IF Ending(data) = "empty" THEN "start" ELSE SetAside(Ending(data)))
          /\ UNCHANGED file
  /\ UNCHANGED <<dirs, crashes, faults>>

RemoveEnded(r) ==
  /\ run[r].at = "remove"
  /\ dirs' = IF Dir[0] = None THEN dirs ELSE Append(dirs, [Dir EXCEPT ![0] = None])
  /\ run' = Goes(r, "open fresh")
  /\ UNCHANGED <<file, crashes, faults>>

(* The first name that is free; when every one is taken the run is refused.*)
FromZero(taken) == Min((0 .. MaxKept) \ taken)
FirstFree(taken) == Min((1 .. MaxKept) \ taken)

Pick(r) ==
  /\ run[r].at = "pick"
  /\ LET taken == {n \in 1 .. MaxKept : Dir[n] # None} IN
     IF taken = 1 .. MaxKept
     THEN run' = Leaves(r, "refused") /\ file' = Unlocked(file, r)
     ELSE run' = [run EXCEPT ![r].at = "move", ![r].kept = FirstFree(taken)] /\ UNCHANGED file
  /\ UNCHANGED <<dirs, crashes, faults>>

(* rename(2): by the name, whatever file is there now.                     *)
Move(r) ==
  /\ run[r].at = "move"
  /\ IF Dir[0] = None
     THEN run' = Leaves(r, "refused") /\ file' = Unlocked(file, r) /\ UNCHANGED dirs
     ELSE /\ dirs' = Append(dirs, [Dir EXCEPT ![0] = None, ![run[r].kept] = Dir[0]])
          /\ run' = Goes(r, "open fresh") /\ UNCHANGED file
  /\ UNCHANGED <<crashes, faults>>

(* The new file is locked, and only then is the old one, with its lock,    *)
(* let go.                                                                 *)
LockFresh(r) ==
  /\ run[r].at = "lock fresh"
  /\ LET i == run[r].fresh IN
     IF Free(file[i])
     THEN /\ file' = [Unlocked(file, r) EXCEPT ![i] = Held(@, r)]
          /\ run' = [run EXCEPT ![r].at = "start", ![r].fd = i, ![r].fresh = None]
     ELSE run' = Leaves(r, "refused") /\ file' = Unlocked(file, r)
  /\ UNCHANGED <<dirs, crashes, faults>>

(* open_writer: what is at the path must hold nothing.                     *)
Start(r) ==
  /\ run[r].at = "start"
  /\ IF Dir[0] = None \/ file[Dir[0]].data # <<>>
     THEN run' = Leaves(r, "refused") /\ file' = Unlocked(file, r)
     ELSE run' = Goes(r, "write") /\ UNCHANGED file
  /\ UNCHANGED <<dirs, crashes, faults>>

-----------------------------------------------------------------------------
(* Writing                                                                 *)

Puts(r, kind) == [file EXCEPT ![run[r].fd].data = Append(@, [of |-> r, kind |-> kind])]

(* The first bytes of an entry are in the file ...                         *)
Write(r) ==
  /\ run[r].at = "write" /\ run[r].live /\ run[r].written < MaxEntries
  /\ \E kind \in {"cut", "part"} : file' = Puts(r, kind)
  /\ run' = Goes(r, "append")
  /\ UNCHANGED <<dirs, crashes, faults>>

(* ... and the rest; or the file system refuses them, and journaling ends. *)
Latest(r) == Max({i \in DOMAIN file[run[r].fd].data : file[run[r].fd].data[i].of = r})

Written(r) ==
  /\ run[r].at = "append"
  /\ file' = [file EXCEPT ![run[r].fd].data[Latest(r)].kind = "entry"]
  /\ run' = [run EXCEPT ![r].at = "sync", ![r].written = @ + 1]
  /\ UNCHANGED <<dirs, crashes, faults>>

Fault == faults < MaxFaults /\ faults' = faults + 1

(* append, or the sync after it, fails.                                    *)
WriteFails(r) ==
  /\ run[r].at \in {"append", "sync"} /\ Fault
  /\ run' = [run EXCEPT ![r].at = "write", ![r].live = FALSE]
  /\ UNCHANGED <<file, dirs, crashes>>

NotSynced(f) == f
Synced(f) == [f EXCEPT !.synced = Len(f.data)]

Sync(r) ==
  /\ run[r].at = "sync"
  /\ file' = [file EXCEPT ![run[r].fd] = Synced(@)]
  /\ run' = Goes(r, "write")
  /\ UNCHANGED <<dirs, crashes, faults>>

(* end_journal: the end mark, whether or not journaling had ended before.  *)
Close(r) ==
  /\ run[r].at = "write"
  /\ file' = Puts(r, "end")
  /\ run' = [run EXCEPT ![r].at = "closing", ![r].ended = TRUE]
  /\ UNCHANGED <<dirs, crashes, faults>>

Closed(r) ==
  /\ run[r].at = "closing"
  /\ file' = Unlocked([file EXCEPT ![run[r].fd].synced = Len(file[run[r].fd].data)], r)
  /\ run' = Leaves(r, "ended")
  /\ UNCHANGED <<dirs, crashes, faults>>

-----------------------------------------------------------------------------
(* What goes wrong                                                         *)

(* A call of the opening is refused.                                       *)
Refused(r) ==
  /\ run[r].at \in Opening /\ Fault
  /\ run' = Leaves(r, "refused") /\ file' = Unlocked(file, r)
  /\ UNCHANGED <<dirs, crashes>>

(* The end mark cannot be written, or not whole, or not synced.            *)
CloseFails(r) ==
  /\ run[r].at \in {"write", "closing"} /\ Fault
  /\ file' = Unlocked(file, r) \/ (run[r].at = "write" /\ file' = Unlocked(Puts(r, "cut"), r))
  /\ run' = Leaves(r, "ended")
  /\ UNCHANGED <<dirs, crashes>>

(* The controller fails or is killed: what it wrote is in the file.        *)
Die(r) ==
  /\ run[r].at \in Opening \cup Writing /\ Fault
  /\ run' = Leaves(r, "dead") /\ file' = Unlocked(file, r)
  /\ UNCHANGED <<dirs, crashes>>

(* The machine dies.  Of each file what was synced is left and some of     *)
(* what followed, cut anywhere; of the directory, its state at the last    *)
(* sync or after any later change to it.                                   *)
Leftovers(data, synced) ==
  {SubSeq(data, 1, n) : n \in synced .. Len(data)}
    \cup {Append(SubSeq(data, 1, n), [data[n + 1] EXCEPT !.kind = kind]) :
            n \in synced .. Len(data) - 1, kind \in {"cut", "part"}}

MachineDies ==
  /\ crashes < MaxCrashes /\ crashes' = crashes + 1
  /\ \E left \in [DOMAIN file -> UNION {Leftovers(f.data, f.synced) : f \in ToSet(file)}] :
       /\ \A i \in DOMAIN file : left[i] \in Leftovers(file[i].data, file[i].synced)
       /\ file' = [i \in DOMAIN file |->
                     [data |-> left[i], synced |-> Len(left[i]), lock |-> Nobody]]
  /\ \E i \in DOMAIN dirs : dirs' = <<dirs[i]>>
  /\ run' = [r \in Runs |-> IF run[r].at \in {"idle"} \cup Over THEN run[r]
                            ELSE [run[r] EXCEPT !.at = "dead", !.fd = None, !.fresh = None]]
  /\ UNCHANGED faults

Done == (\A r \in Runs : run[r].at \in Over) /\ UNCHANGED vars

Next ==
  \/ \E r \in Runs :
       \/ Begin(r) \/ Open(r) \/ SyncDirectory(r) \/ Lock(r) \/ Replay(r) \/ RemoveEnded(r)
       \/ Pick(r) \/ Move(r) \/ OpenFresh(r) \/ LockFresh(r) \/ Start(r)
       \/ Write(r) \/ Written(r) \/ WriteFails(r) \/ Sync(r) \/ Close(r) \/ Closed(r)
       \/ CloseFails(r) \/ Refused(r) \/ Die(r)
  \/ MachineDies \/ Done

Spec == Init /\ [][Next]_vars

-----------------------------------------------------------------------------
(* The variables keep their types.                                         *)
TypeOK ==
  /\ run \in [Runs -> [at : {"idle"} \cup Opening \cup Writing \cup Over,
                        fd : 0 .. Len(file), fresh : 0 .. Len(file), kept : Names,
                        live : BOOLEAN, written : 0 .. MaxEntries, ended : BOOLEAN]]
  /\ \A r \in Runs : run[r].at = "move" => run[r].kept # 0
  /\ \A i \in DOMAIN file :
       /\ file[i].data \in Seq([of : Runs, kind : Kinds])
       /\ file[i].synced \in 0 .. Len(file[i].data) /\ file[i].lock \in Runs \cup {Nobody}
  /\ dirs \in Seq([Names -> 0 .. Len(file)]) /\ dirs # <<>>
  /\ crashes \in 0 .. MaxCrashes /\ faults \in 0 .. MaxFaults

EntriesOf(r, data) == {i \in DOMAIN Whole(data) : data[i].of = r}

(* A run that was killed, or whose machine died, is found in the directory,*)
(* at the path or kept beside it, with every entry it wrote but at most    *)
(* the last: through the runs that came after it and their own crashes.    *)
EvidenceKept ==
  \A r \in Runs : run[r].at = "dead" /\ run[r].written > 1 /\ ~run[r].ended =>
    \E n \in Names :
      /\ Dir[n] # None
      /\ Cardinality(EntriesOf(r, file[Dir[n]].data)) >= run[r].written - 1

(* A file holds the records of one run: replay never reports one run's     *)
(* entries as another's.                                                   *)
OneRunPerFile ==
  \A f \in ToSet(file) : \A a, b \in ToSet(f.data) : a.of = b.of

(* The journal of a run that is writing it is the file at its path, where  *)
(* the next start, or `loadforge journal`, will look for it.               *)
LiveIsAtPath ==
  \A r \in Runs : run[r].at \in Writing => Dir[0] = run[r].fd

(* "no second run can take the old file's lock in between and then move    *)
(* the new journal away": nobody moves the file a run is writing.          *)
LiveIsNotMoved ==
  [][\A r \in Runs :
       run'[r].at \in Writing \ {"closing"} /\ Dir[0] = run[r].fd =>
         Dir'[0] = run[r].fd]_vars

(* Every run has a file of its own, at the path while it writes it.        *)
OwnFile == OneRunPerFile /\ LiveIsAtPath
=============================================================================
