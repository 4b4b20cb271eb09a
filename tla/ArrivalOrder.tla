---------------------------- MODULE ArrivalOrder -----------------------------
(***************************************************************************)
(* PrioritySemaphore with a history: which of the tasks inside acquire()   *)
(* called it before which.                                                 *)
(***************************************************************************)
EXTENDS PrioritySemaphore

VARIABLE cameBefore    \* pairs of tasks inside acquire(), the earlier call first

orderVars == <<vars, cameBefore>>

InAcquire(p, t) == p[t] \in {"waiting", "woken", "cancelling"}

OrderInit == Init /\ cameBefore = {}

\* A call comes after those of all tasks that are inside; a task that leaves is forgotten.
OrderNext ==
  /\ Next
  /\ cameBefore' =
       {c \in Tasks \X Tasks :
          /\ InAcquire(pc', c[1]) /\ InAcquire(pc', c[2])
          /\ c \in cameBefore \/ (InAcquire(pc, c[1]) /\ ~InAcquire(pc, c[2]))}

OrderSpec == OrderInit /\ [][OrderNext]_orderVars

\* Tasks of one priority enter in the order in which they called acquire(): a
\* task neither overtakes nor barges in past one that was there before it.
FirstComeFirstServed ==
  [][\A t \in Tasks :
       pc[t] # "holding" /\ pc'[t] = "holding" =>
         \A u \in Tasks \ {t} :
           PriorityOf[u] = PriorityOf[t] /\ InAcquire(pc, u)
             => <<t, u>> \in cameBefore]_orderVars
=============================================================================
