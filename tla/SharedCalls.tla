---------------------------- MODULE SharedCalls ----------------------------
(***************************************************************************)
(* combine_concurrent_calls (zigpy/util.py) for one set of arguments: the  *)
(* OTA providers download an index or an image once for all the callers    *)
(* that ask for it at the same time.                                       *)
(***************************************************************************)
EXTENDS Integers

CONSTANTS
  SharedCallers,   \* the tasks that call the decorated function
  MaxTasks         \* bound: the tasks that are created

ASSUME TaskBound == MaxTasks \in Nat

SharedTasks == 1 .. MaxTasks
Finished == {"returned", "raised", "cancelled"}

VARIABLES
  entry,        \* tasks[key], or 0
  created,      \* the number of the latest task
  task,         \* per task: "none", "running", "cancelling" or how it finished
  awaiting,     \* per caller: the task it awaits, or 0
  creator,      \* per caller: whether it has made that task
  interrupted   \* per caller: whether it was cancelled itself

sharedVars == <<entry, created, task, awaiting, creator, interrupted>>

SharedInit ==
  /\ entry = 0
  /\ created = 0
  /\ task = [t \in SharedTasks |-> "none"]
  /\ awaiting = [c \in SharedCallers |-> 0]
  /\ creator = [c \in SharedCallers |-> FALSE]
  /\ interrupted = [c \in SharedCallers |-> FALSE]

-----------------------------------------------------------------------------
\* `if key in tasks'.
Join(c) ==
  /\ awaiting[c] = 0
  /\ entry # 0
  /\ awaiting' = [awaiting EXCEPT ![c] = entry]
  /\ UNCHANGED <<entry, created, task, creator, interrupted>>

Create(c) ==
  /\ awaiting[c] = 0
  /\ entry = 0
  /\ created < MaxTasks
  /\ created' = created + 1
  /\ entry' = created + 1
  /\ task' = [task EXCEPT ![created + 1] = "running"]
  /\ awaiting' = [awaiting EXCEPT ![c] = created + 1]
  /\ creator' = [creator EXCEPT ![c] = TRUE]
  /\ UNCHANGED interrupted

\* The function returns, raises, or is left by the CancelledError.
FunctionEnds(t) ==
  /\ task[t] \in {"running", "cancelling"}
  /\ \E how \in (IF task[t] = "running" THEN {"returned", "raised"} ELSE {"cancelled"}) :
       task' = [task EXCEPT ![t] = how]
  /\ UNCHANGED <<entry, created, awaiting, creator, interrupted>>

\* task.cancel() on a caller reaches the task that all of them await, and the
\* caller resumes only when that has finished.
CancelCaller(c) ==
  /\ awaiting[c] # 0
  /\ ~interrupted[c]
  /\ interrupted' = [interrupted EXCEPT ![c] = TRUE]
  /\ task' = [task EXCEPT ![awaiting[c]] = IF @ = "running" THEN "cancelling" ELSE @]
  /\ UNCHANGED <<entry, created, awaiting, creator>>

\* Mutant of Return: whoever resumes deletes the entry, as if it had made the task.
ReturnDeletes(c) ==
  /\ awaiting[c] # 0
  /\ task[awaiting[c]] \in Finished
  /\ entry' = 0
  /\ awaiting' = [awaiting EXCEPT ![c] = 0]
  /\ creator' = [creator EXCEPT ![c] = FALSE]
  /\ interrupted' = [interrupted EXCEPT ![c] = FALSE]
  /\ UNCHANGED <<created, task>>

\* A caller gets what the task returned or raised, or CancelledError if either
\* was cancelled; the one that made the task deletes the entry.
Return(c) ==
  /\ awaiting[c] # 0
  /\ task[awaiting[c]] \in Finished
  /\ entry' = IF creator[c] THEN 0 ELSE entry
  /\ awaiting' = [awaiting EXCEPT ![c] = 0]
  /\ creator' = [creator EXCEPT ![c] = FALSE]
  /\ interrupted' = [interrupted EXCEPT ![c] = FALSE]
  /\ UNCHANGED <<created, task>>

SharedCallerStep(c) == Join(c) \/ Create(c) \/ CancelCaller(c) \/ Return(c)

SharedNext ==
  \/ \E c \in SharedCallers : SharedCallerStep(c)
  \/ \E t \in SharedTasks : FunctionEnds(t)

SharedSpec == SharedInit /\ [][SharedNext]_sharedVars

-----------------------------------------------------------------------------
(* Properties.                                                             *)

SharedTypeOK ==
  /\ entry \in 0 .. MaxTasks
  /\ created \in 0 .. MaxTasks
  /\ task \in [SharedTasks -> {"none", "running", "cancelling"} \cup Finished]
  /\ awaiting \in [SharedCallers -> 0 .. MaxTasks]
  /\ creator \in [SharedCallers -> BOOLEAN]
  /\ interrupted \in [SharedCallers -> BOOLEAN]

\* The expensive function never runs twice at the same time, whoever is
\* cancelled while it runs: the assertion in the `finally' of the source holds.
RunsOnce ==
  \A t \in SharedTasks : task[t] \in {"running", "cancelling"} => entry = t

\* An entry is there only as long as its maker is, so that nobody is given the
\* result of a call that was over before: the table is no cache.
EntryIsOwned ==
  entry # 0 => \E c \in SharedCallers : creator[c] /\ awaiting[c] = entry
=============================================================================
