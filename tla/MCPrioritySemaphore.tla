------------------------ MODULE MCPrioritySemaphore ------------------------
(***************************************************************************)
(* Tasks and priorities of PrioritySemaphore for TLC.                      *)
(***************************************************************************)
EXTENDS ArrivalOrder, TLC

CONSTANTS t1, t2, t3, t4

\* Two ordinary requests and an important one; t4 is a third ordinary one.
MCPriority == [t \in Tasks |-> IF t = t3 THEN 1 ELSE 0]
=============================================================================
