----------------------------- MODULE ResultFile ------------------------------
(***************************************************************************)
(* How a result file is put in place (main/result_files.cpp                *)
(* FileResultSink::store, over controller/journal/file_storage.cpp and     *)
(* file_ops.cpp): the bytes go to ".partial", which is synced, closed and  *)
(* renamed over the path, and the directory is synced.  Every call may     *)
(* fail; the machine may lose power at any point, and then keeps, of what  *)
(* was not synced, any part.  Several runs may store into one directory.   *)
(***************************************************************************)
EXTENDS Integers, Sequences, FiniteSets

CONSTANTS Writers,    \* runs; each opens one file, which bears its name
          Parts       \* how many writes the bytes take

None == "none"
Old == "old"           \* the result of an earlier run
Leftover == "leftover" \* the ".partial" of a run that died
Files == Writers \union {Old, Leftover, None}

VARIABLES pc, fd,      \* of each writer
          partial, path,  \* the directory: which file each name is
          kept,        \* the directories a power cut may leave: since the last sync
          written,     \* of each file, the parts written, in order
          synced,      \* how many of them are on the disk
          said,        \* what store() answered
          power

vars == <<pc, fd, partial, path, kept, written, synced, said, power>>

Whole(w) == [i \in 1 .. Parts |-> <<w, i>>]

Init ==
  /\ pc = [w \in Writers |-> "remove"] /\ fd = [w \in Writers |-> None]
  /\ partial \in {None, Leftover} /\ path \in {None, Old}
  /\ kept = {<<partial, path>>}
  /\ written = [f \in Files |-> IF f = Old THEN Whole(Old) ELSE IF f = Leftover THEN <<<<Leftover, 1>>>> ELSE <<>>]
  /\ synced = [f \in Files |-> Len(written[f])]
  /\ said = [w \in Writers |-> "nothing"] /\ power = TRUE

At(w, place) == power /\ pc[w] = place
Goto(w, place) == pc' = [pc EXCEPT ![w] = place]
Directory(p, q) == partial' = p /\ path' = q /\ kept' = kept \union {<<p, q>>}
SameDirectory == UNCHANGED <<partial, path, kept>>
Answer(w, what) == said' = [said EXCEPT ![w] = what] /\ Goto(w, "done")

(* abandon: the ".partial" goes, whoever's it is by now.                   *)
RemovePartial(w) == Directory(None, path)
Abandon(w) == RemovePartial(w) /\ Answer(w, "failed")

RemoveLeftover(w) == Directory(None, path)

Remove(w) ==
  /\ At(w, "remove") /\ Goto(w, "open") /\ RemoveLeftover(w)
  /\ UNCHANGED <<fd, written, synced, said, power>>

(* FileStorage::open: created if it is not there, and the directory synced *)
Open(w, ok) ==
  /\ At(w, "open")
  /\ IF ok
     THEN /\ fd' = [fd EXCEPT ![w] = IF partial = None THEN w ELSE partial]
          /\ partial' = fd'[w] /\ kept' = {<<fd'[w], path>>} /\ Goto(w, "append")
          /\ UNCHANGED <<path, said>>
     ELSE Abandon(w) /\ UNCHANGED fd
  /\ UNCHANGED <<written, synced, power>>

Mine(w) == Cardinality({i \in DOMAIN written[fd[w]] : written[fd[w]][i][1] = w})

Append1(w, ok) ==
  /\ At(w, "append")
  /\ IF ok
     THEN /\ written' = [written EXCEPT ![fd[w]] = Append(@, <<w, Mine(w) + 1>>)]
          /\ Goto(w, IF Mine(w) + 1 = Parts THEN "sync" ELSE "append")
          /\ SameDirectory /\ UNCHANGED said
     ELSE Abandon(w) /\ UNCHANGED written
  /\ UNCHANGED <<fd, synced, power>>

NotSynced(w) == synced
OnDisk(w) == [synced EXCEPT ![fd[w]] = Len(written[fd[w]])]

Sync(w, ok) ==
  /\ At(w, "sync")
  /\ IF ok THEN synced' = OnDisk(w) /\ Goto(w, "close") /\ SameDirectory /\ UNCHANGED said
     ELSE Abandon(w) /\ UNCHANGED synced
  /\ UNCHANGED <<fd, written, power>>

Close(w, ok) ==
  /\ At(w, "close")
  /\ IF ok THEN Goto(w, "rename") /\ SameDirectory /\ UNCHANGED said ELSE Abandon(w)
  /\ UNCHANGED <<fd, written, synced, power>>

(* rename fails also when another run took the ".partial" away.            *)
Rename(w, ok) ==
  /\ At(w, "rename")
  /\ IF ok /\ partial # None THEN Directory(None, partial) /\ Goto(w, "directory") /\ UNCHANGED said
     ELSE Abandon(w)
  /\ UNCHANGED <<fd, written, synced, power>>

DirectorySynced(w) == {<<partial, path>>}

SyncDirectory(w, ok) ==
  /\ At(w, "directory")
  /\ IF ok THEN kept' = DirectorySynced(w) /\ Answer(w, "stored")
     ELSE Answer(w, "failed") /\ UNCHANGED kept
  /\ UNCHANGED <<fd, partial, path, written, synced, power>>

Prefixes(f) == {SubSeq(written[f], 1, n) : n \in synced[f] .. Len(written[f])}

PowerCut ==
  /\ power /\ power' = FALSE
  /\ \E d \in kept : partial' = d[1] /\ path' = d[2] /\ kept' = {d}
  /\ \E survives \in [Files -> UNION {Prefixes(f) : f \in Files}] :
       /\ \A f \in Files : survives[f] \in Prefixes(f)
       /\ written' = survives
  /\ synced' = [f \in Files |-> Len(written'[f])]
  /\ UNCHANGED <<pc, fd, said>>

Step(w) ==
  \/ Remove(w)
  \/ \E ok \in BOOLEAN : Open(w, ok) \/ Append1(w, ok) \/ Sync(w, ok) \/ Close(w, ok) \/ Rename(w, ok)
                         \/ SyncDirectory(w, ok)

Over == (~power \/ \A w \in Writers : pc[w] = "done") /\ UNCHANGED vars

Next == PowerCut \/ (\E w \in Writers : Step(w)) \/ Over
Spec == Init /\ [][Next]_vars

-----------------------------------------------------------------------------
(* The names are files that exist, a writer never writes to what a run     *)
(* that died left, and no more is on the disk than was written.            *)
TypeOK ==
  /\ {partial, path} \subseteq Files /\ \A w \in Writers : fd[w] \in Writers \union {None}
  /\ \A f \in Files : synced[f] \in 0 .. Len(written[f])
  /\ \A w \in Writers : pc[w] \in {"append", "sync", "close"} => fd[w] # None
  /\ said \in [Writers -> {"nothing", "stored", "failed"}]

(* What is at the path is always the whole of one result, also after a     *)
(* power cut at any point: never a part, and never a mixture.              *)
WholeOrNothing == path # None => \E w \in Writers \union {Old} : written[path] = Whole(w)

(* Once store() has said so, a power cut does not take the result away.    *)
StoredIsDurable ==
  Cardinality(Writers) = 1 =>
    \A w \in Writers : said[w] = "stored" => path = w /\ written[path] = Whole(w)
=============================================================================
