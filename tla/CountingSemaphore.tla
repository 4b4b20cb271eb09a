------------------------- MODULE CountingSemaphore -------------------------
(***************************************************************************)
(* What a semaphore of zigpy promises to the tasks that share it: at most  *)
(* `limit' of them are admitted at the moment another one enters.  The     *)
(* limit may be changed while tasks are inside; lowering it below the      *)
(* number of tasks inside throws nobody out.                               *)
(***************************************************************************)
EXTENDS Integers, FiniteSets

CONSTANTS Tasks,      \* the tasks that use the semaphore
          Limits      \* the values the limit may take

VARIABLES holders,    \* the tasks between acquire() and release()
          limit       \* the number of tasks that may be inside

vars == <<holders, limit>>

Init == holders = {} /\ limit \in Limits

Enter(t) ==
  /\ t \notin holders
  /\ Cardinality(holders) < limit
  /\ holders' = holders \cup {t}
  /\ UNCHANGED limit

Leave(t) ==
  /\ t \in holders
  /\ holders' = holders \ {t}
  /\ UNCHANGED limit

Resize(n) == limit' = n /\ UNCHANGED holders

Next ==
  \/ \E t \in Tasks : Enter(t) \/ Leave(t)
  \/ \E n \in Limits : Resize(n)

Spec == Init /\ [][Next]_vars
=============================================================================
