------------------------------ MODULE Executor ------------------------------
(***************************************************************************)
(* What an executor promises (the contract in worker/executor.hpp): run    *)
(* calls the task exactly once for each index below count and for no       *)
(* other, no two calls at one time in one slot, and returns only after     *)
(* every call has returned.                                                *)
(***************************************************************************)
EXTENDS Integers

CONSTANTS Slots,      \* one per thread
          Counts      \* what a run may be asked for

VARIABLES running,    \* whether a run is under way
          todo,       \* the indices not yet called
          calling     \* per slot, the index it is in the call of, or None

vars == <<running, todo, calling>>

None == -1

Init == running = FALSE /\ todo = {} /\ calling = [s \in Slots |-> None]

Begin(count) ==
  /\ ~running
  /\ running' = TRUE /\ todo' = 0 .. count - 1
  /\ UNCHANGED calling

Call(slot, index) ==
  /\ running /\ index \in todo /\ calling[slot] = None
  /\ todo' = todo \ {index}
  /\ calling' = [calling EXCEPT ![slot] = index]
  /\ UNCHANGED running

Returned(slot) ==
  /\ calling[slot] # None
  /\ calling' = [calling EXCEPT ![slot] = None]
  /\ UNCHANGED <<running, todo>>

End ==
  /\ running /\ todo = {} /\ \A s \in Slots : calling[s] = None
  /\ running' = FALSE
  /\ UNCHANGED <<todo, calling>>

Next ==
  \/ \E count \in Counts : Begin(count)
  \/ \E s \in Slots : Returned(s) \/ \E index \in todo : Call(s, index)
  \/ End

Spec == Init /\ [][Next]_vars
=============================================================================
