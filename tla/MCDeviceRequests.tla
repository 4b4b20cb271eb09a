-------------------------- MODULE MCDeviceRequests --------------------------
EXTENDS DeviceRequests, TLC

CONSTANTS c1, c2, c3

\* c3 asks for an acknowledgement only; c1's requests may be overtaken by the others'.
MCPriority == [c \in Callers |-> IF c = c1 THEN 0 ELSE 1]

\* There are always more requests: the numbers start over, with the same TSNs.  What was
\* not recent stays so, for MaxRequests is 2 * TsnModulus + Window.
Renumbered(n) == IF n > TsnModulus THEN n - TsnModulus ELSE n

StartOver ==
  /\ last = MaxRequests
  /\ last' = last - TsnModulus
  /\ number' = [c \in Callers |-> Renumbered(number[c])]
  /\ air' = {n - TsnModulus : n \in air}
  /\ result' = [c \in Callers |-> [result[c] EXCEPT !.from = Renumbered(@)]]
  /\ UNCHANGED <<semVars, stage, interrupt, pending>>

EndlessNext == Next \/ StartOver
=============================================================================
