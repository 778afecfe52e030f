--------------------------- MODULE MCSupervision ---------------------------
(* A run of one worker to which two things go wrong, or of two workers to  *)
(* which nothing does.  The first is long enough for a worker whose beat   *)
(* is stale to be signalled twice before the deadline.                     *)
EXTENDS Supervision

Plan(workers, duration, mishaps, signals) ==
  [workers |-> workers, duration |-> duration, mishaps |-> mishaps, signals |-> signals]
OneTroubledOrTwo == {Plan(1, 3, 2, 1), Plan(1, 1, 1, 2), Plan(2, 1, 0, 2)}
=============================================================================
