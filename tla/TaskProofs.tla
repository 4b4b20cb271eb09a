----------------------------- MODULE TaskProofs -----------------------------
(***************************************************************************)
(* Proofs about the components that run tasks and timers.                  *)
(* BackgroundTasks, for any number of scans and loops: one topology scan   *)
(* runs at a time, a scan that was started by hand is left alone by the    *)
(* loops, and a startup that fails stops what it has started.              *)
(* SharedCalls, for any set of callers and any number of tasks: the        *)
(* function that callers share never runs twice at once, and its entry in  *)
(* the table goes with the caller that made it.  Debouncer, for any        *)
(* objects, any bounds of the clock and of the calls, and any windows, or  *)
(* any one window: the order of the heap plays no part in it, what matters *)
(* is that a push keeps every entry, although it moves some of them, and   *)
(* that clean() takes the same objects from the list and from the          *)
(* dictionary, and only expired ones.                                      *)
(***************************************************************************)
EXTENDS BackgroundTasks, SharedCalls, Debouncer, FiniteSetTheorems, SequenceTheorems,
        WellFoundedInduction, TLAPS

-----------------------------------------------------------------------------
(* The inductive invariant of the tasks.                                   *)

StartedScans == {s \in Scans : scan[s] # "none"}
StartedLoops == {l \in ScanLoops : scanLoop[l] # "none"}

\* Scans are started in the order of their numbers, so that the next one is new.
ScansInOrder == LastScan \in 0 .. MaxScans /\ StartedScans = 1 .. LastScan

\* What _scan_task refers to, what was started by hand and what loops await has
\* been started.
NoFutureScans ==
  /\ scanTask <= LastScan
  /\ byHand \subseteq StartedScans
  /\ \A l \in ScanLoops : awaits[l] <= LastScan

\* A scan that runs is the one _scan_task refers to: what replaces it cancels it.
RunningIsCurrent == \A s \in Scans : scan[s] = "running" => s = scanTask

\* No loop awaits a scan that was started by hand.
LoopsAwaitTheirOwn == \A l \in ScanLoops : scanLoop[l] = "scanning" => awaits[l] \notin byHand

\* What concerns the scans and their loops.
ScanInv ==
  /\ scanLoop \in [ScanLoops -> {"none", "asleep", "scanning", "ended"}]
  /\ awaits \in [ScanLoops -> 0 .. MaxScans]
  /\ scan \in [Scans -> {"none", "running", "cancelling", "done"}]
  /\ scanTask \in 0 .. MaxScans
  /\ byHand \subseteq Scans
  /\ stopped \subseteq ScanLoops
  /\ ScansInOrder /\ NoFutureScans /\ RunningIsCurrent /\ LoopsAwaitTheirOwn

\* What concerns startup() and shutdown().
StartupInv ==
  /\ startup \in {"none", "connecting", "initializing", "done", "failed", "cancelled"}
  /\ shutdown \in {"none", "disconnecting", "done"}
  /\ worker \in [Workers -> {"none", "running", "ended"}]
  /\ FailedStartupIsStopped

TasksInv == ScanInv /\ StartupInv

-----------------------------------------------------------------------------
(* Numbers of scans and loops.                                             *)

LEMMA LastLoopBounded == LastLoop \in 0 .. MaxLoops
<1>1. IsFiniteSet(ScanLoops) /\ Cardinality(ScanLoops) = MaxLoops
  BY ScanBounds, FS_Interval DEF ScanLoops
<1>2. StartedLoops \subseteq ScanLoops
  BY DEF StartedLoops
<1>3. Cardinality(StartedLoops) <= MaxLoops /\ Cardinality(StartedLoops) \in Nat
  BY <1>1, <1>2, FS_Subset, FS_CardinalityType
<1> QED BY <1>3, ScanBounds DEF LastLoop, StartedLoops

\* When the same scans have been started, the last one is the same.
LEMMA SameScans ==
  ASSUME ScansInOrder, StartedScans' = StartedScans
  PROVE  ScansInOrder' /\ LastScan' = LastScan
BY DEF ScansInOrder, LastScan, StartedScans

\* When the next scan has been started, it is the last one.
LEMMA NextScan ==
  ASSUME ScansInOrder, LastScan < MaxScans,
         StartedScans' = StartedScans \cup {LastScan + 1}
  PROVE  ScansInOrder' /\ LastScan' = LastScan + 1
<1>1. StartedScans' = 1 .. LastScan + 1
  BY DEF ScansInOrder
<1>2. Cardinality(1 .. LastScan + 1) = LastScan + 1
  BY FS_Interval, ScanBounds DEF ScansInOrder
<1>3. LastScan' = LastScan + 1
  BY <1>1, <1>2 DEF LastScan, StartedScans
<1> QED BY <1>1, <1>3, ScanBounds DEF ScansInOrder

-----------------------------------------------------------------------------
LEMMA TasksInitInv == TasksInit => TasksInv
<1> SUFFICES ASSUME TasksInit PROVE TasksInv
  OBVIOUS
<1> USE ScanBounds DEF TasksInit
<1>1. StartedScans = {} /\ LastScan = 0
  BY FS_EmptySet DEF StartedScans, LastScan
<1>2. ScanInv
  BY <1>1 DEF ScanInv, ScansInOrder, NoFutureScans, RunningIsCurrent, LoopsAwaitTheirOwn
<1>3. StartupInv
  BY DEF StartupInv, FailedStartupIsStopped
<1> QED BY <1>2, <1>3 DEF TasksInv

\* A new scan takes the place of the one that runs.
LEMMA ScanStartedKeeps ==
  ASSUME ScanInv, LastScan < MaxScans, scan' = ScanStarted, scanTask' = LastScan + 1
  PROVE  /\ scan' \in [Scans -> {"none", "running", "cancelling", "done"}]
         /\ scanTask' \in 0 .. MaxScans
         /\ ScansInOrder' /\ LastScan' = LastScan + 1
         /\ StartedScans' = StartedScans \cup {LastScan + 1}
         /\ RunningIsCurrent'
         /\ \A s \in Scans : scan[s] = "running" /\ scan'[s] = "cancelling" => s = scanTask
<1> USE ScanBounds DEF ScanInv
<1>1. LastScan + 1 \in Scans
  BY DEF ScansInOrder, Scans
<1>2. scan' \in [Scans -> {"none", "running", "cancelling", "done"}]
  BY DEF ScanStarted
<1>3. StartedScans' = StartedScans \cup {LastScan + 1}
  BY <1>1 DEF StartedScans, ScanStarted
<1>4. ScansInOrder' /\ LastScan' = LastScan + 1
  BY <1>3, NextScan
<1>5. RunningIsCurrent'
  BY DEF RunningIsCurrent, ScanStarted
<1>6. \A s \in Scans : scan[s] = "running" /\ scan'[s] = "cancelling" => s = scanTask
  BY DEF RunningIsCurrent
<1>7. scanTask' \in 0 .. MaxScans
  BY <1>1 DEF Scans
<1> QED BY <1>2, <1>3, <1>4, <1>5, <1>6, <1>7

\* Stopping or restarting the loops starts no scan, and ends none that was started
\* by hand.
LEMMA LoopsStoppedKeeps ==
  ASSUME ScanInv, scan' = ScansAfterStop
  PROVE  /\ scan' \in [Scans -> {"none", "running", "cancelling", "done"}]
         /\ ScansInOrder' /\ LastScan' = LastScan
         /\ StartedScans' = StartedScans
         /\ \A s \in Scans : scan'[s] = "running" => scan[s] = "running"
         /\ \A s \in byHand : scan'[s] = scan[s]
<1> USE DEF ScanInv
<1>1. scan' \in [Scans -> {"none", "running", "cancelling", "done"}]
  BY DEF ScansAfterStop
<1>2. StartedScans' = StartedScans
  BY DEF StartedScans, ScansAfterStop
<1>3. \A s \in Scans : scan'[s] = "running" => scan[s] = "running"
  BY DEF ScansAfterStop
<1>4. ASSUME NEW s \in byHand PROVE scan'[s] = scan[s]
  <2>1. LastLoop > 0 => LastLoop \in ScanLoops
    BY LastLoopBounded, ScanBounds DEF ScanLoops
  <2> QED BY <2>1 DEF LoopsAwaitTheirOwn, ScansAfterStop
<1> QED BY <1>1, <1>2, <1>3, <1>4, SameScans

LEMMA LoopsTyped ==
  ASSUME ScanInv
  PROVE  /\ LoopsAfterStop \in [ScanLoops -> {"none", "asleep", "scanning", "ended"}]
         /\ \A l \in ScanLoops : LoopsAfterStop[l] = "scanning" => scanLoop[l] = "scanning"
         /\ StoppedAfterStop \subseteq ScanLoops
<1>1. LastLoop # 0 => LastLoop \in ScanLoops
  BY LastLoopBounded, ScanBounds DEF ScanLoops
<1> QED BY <1>1 DEF ScanInv, LoopsAfterStop, StoppedAfterStop

-----------------------------------------------------------------------------
(* The scans.                                                              *)

LEMMA ScanByHandInv ==
  ASSUME ScanInv, ScanByHand PROVE ScanInv'
<1> USE ScanBounds DEF ScanByHand
<1>1. LastScan + 1 \in Scans
  BY DEF ScanInv, ScansInOrder, Scans
<1>2. NoFutureScans'
  BY <1>1, ScanStartedKeeps DEF ScanInv, NoFutureScans, ScansInOrder
<1>3. LoopsAwaitTheirOwn'
  BY DEF ScanInv, LoopsAwaitTheirOwn, NoFutureScans, ScansInOrder
<1> QED BY <1>1, <1>2, <1>3, ScanStartedKeeps DEF ScanInv

LEMMA LoopScansInv ==
  ASSUME ScanInv, NEW l \in ScanLoops, LoopScans(l) PROVE ScanInv'
<1> USE ScanBounds DEF LoopScans
<1>1. LastScan + 1 \in Scans /\ LastScan + 1 \in 0 .. MaxScans
  BY DEF ScanInv, ScansInOrder, Scans
<1>2. \A k \in ScanLoops : awaits'[k] = IF k = l THEN LastScan + 1 ELSE awaits[k]
  BY DEF ScanInv
<1>3. NoFutureScans'
  BY <1>1, <1>2, ScanStartedKeeps DEF ScanInv, NoFutureScans, ScansInOrder
<1>4. LastScan + 1 \notin byHand
  BY DEF ScanInv, NoFutureScans, ScansInOrder
<1>5. LoopsAwaitTheirOwn'
  BY <1>2, <1>4 DEF ScanInv, LoopsAwaitTheirOwn
<1> QED BY <1>1, <1>3, <1>5, ScanStartedKeeps DEF ScanInv

LEMMA ScanEndsInv ==
  ASSUME ScanInv, NEW s \in Scans, ScanEnds(s) PROVE ScanInv'
<1>1. StartedScans' = StartedScans
  BY DEF ScanEnds, ScanInv, StartedScans
<1> QED
  BY <1>1, SameScans
  DEF ScanEnds, ScanInv, NoFutureScans, RunningIsCurrent, LoopsAwaitTheirOwn

LEMMA LoopResumesInv ==
  ASSUME ScanInv, NEW l \in ScanLoops, LoopResumes(l) PROVE ScanInv'
<1>1. StartedScans' = StartedScans
  BY DEF LoopResumes, StartedScans
<1> QED
  BY <1>1, SameScans
  DEF LoopResumes, ScanInv, NoFutureScans, RunningIsCurrent, LoopsAwaitTheirOwn

\* Stopping the loops, and starting another one.
LEMMA StopInv ==
  ASSUME ScanInv, scan' = ScansAfterStop, stopped' = StoppedAfterStop,
         UNCHANGED <<awaits, scanTask, byHand>>,
         scanLoop' = LoopsAfterStop \/
         (LastLoop < MaxLoops /\ scanLoop' = [LoopsAfterStop EXCEPT ![LastLoop + 1] = "asleep"])
  PROVE  ScanInv'
<1>1. /\ scanLoop' \in [ScanLoops -> {"none", "asleep", "scanning", "ended"}]
      /\ \A l \in ScanLoops : scanLoop'[l] = "scanning" => scanLoop[l] = "scanning"
  BY LoopsTyped
<1>2. LoopsAwaitTheirOwn'
  BY <1>1 DEF ScanInv, LoopsAwaitTheirOwn
<1>3. NoFutureScans' /\ RunningIsCurrent'
  BY LoopsStoppedKeeps DEF ScanInv, NoFutureScans, RunningIsCurrent
<1> QED BY <1>1, <1>2, <1>3, LoopsStoppedKeeps, LoopsTyped DEF ScanInv

LEMMA ScansUnchangedInv ==
  ASSUME ScanInv, UNCHANGED scanVars PROVE ScanInv'
<1>1. StartedScans' = StartedScans
  BY DEF scanVars, StartedScans
<1> QED
  BY <1>1, SameScans
  DEF scanVars, ScanInv, NoFutureScans, RunningIsCurrent, LoopsAwaitTheirOwn

LEMMA ScanStepInv ==
  ASSUME ScanInv, [TasksNext]_taskVars PROVE ScanInv'
<1>1. CASE ScanByHand
  BY <1>1, ScanByHandInv
<1>2. CASE StopPeriodicScans
  BY <1>2, StopInv DEF StopPeriodicScans
<1>3. CASE StartPeriodicScans \/ Initialized
  BY <1>3, StopInv DEF StartPeriodicScans, Initialized, Restarted
<1>4. CASE StartupFails \/ Shutdown
  BY <1>4, StopInv DEF StartupFails, Shutdown, StopTasks
<1>5. CASE Startup \/ StartWatchdog \/ StartupCancelled \/ Disconnected \/ WatchdogFails
  BY <1>5, ScansUnchangedInv
  DEF Startup, StartWatchdog, StartupCancelled, Disconnected, WatchdogFails
<1>6. CASE UNCHANGED taskVars
  BY <1>6, ScansUnchangedInv DEF taskVars, scanVars
<1> QED
  BY <1>1, <1>2, <1>3, <1>4, <1>5, <1>6, LoopScansInv, LoopResumesInv, ScanEndsInv
  DEF TasksNext

-----------------------------------------------------------------------------
(* Startup and shutdown.                                                   *)

LEMMA StartupStepInv ==
  ASSUME StartupInv, [TasksNext]_taskVars PROVE StartupInv'
<1> USE DEF StartupInv, FailedStartupIsStopped
<1>1. CASE UNCHANGED <<startup, shutdown, worker>>
  BY <1>1
<1>2. CASE Startup
  BY <1>2 DEF Startup
<1>3. CASE StartWatchdog
  BY <1>3 DEF StartWatchdog
<1>4. CASE Initialized
  BY <1>4 DEF Initialized
<1>5. CASE StartupFails \/ Shutdown
  BY <1>5 DEF StartupFails, Shutdown, StopTasks
<1>6. CASE StartupCancelled
  BY <1>6 DEF StartupCancelled
<1>7. CASE Disconnected
  BY <1>7 DEF Disconnected
<1>8. CASE WatchdogFails
  BY <1>8 DEF WatchdogFails
<1>9. CASE ScanByHand \/ StopPeriodicScans \/ StartPeriodicScans
  BY <1>1, <1>9 DEF ScanByHand, StopPeriodicScans, StartPeriodicScans
<1>10. ASSUME NEW l \in ScanLoops, LoopScans(l) \/ LoopResumes(l) PROVE StartupInv'
  BY <1>1, <1>10 DEF LoopScans, LoopResumes
<1>11. ASSUME NEW s \in Scans, ScanEnds(s) PROVE StartupInv'
  BY <1>1, <1>11 DEF ScanEnds
<1>12. CASE UNCHANGED taskVars
  BY <1>1, <1>12 DEF taskVars
<1> QED
  BY <1>2, <1>3, <1>4, <1>5, <1>6, <1>7, <1>8, <1>9, <1>10, <1>11, <1>12 DEF TasksNext

LEMMA TasksStepInv == TasksInv /\ [TasksNext]_taskVars => TasksInv'
BY ScanStepInv, StartupStepInv DEF TasksInv

\* TasksInv always holds.
LEMMA TasksInvariant == TasksSpec => []TasksInv
BY TasksInitInv, TasksStepInv, PTL DEF TasksSpec

-----------------------------------------------------------------------------
(* Theorems.                                                               *)

\* Every variable of the tasks of ControllerApplication keeps its type.
THEOREM TasksTypes == TasksSpec => []TasksTypeOK
<1>1. TasksInv => TasksTypeOK
  BY DEF TasksInv, ScanInv, StartupInv, TasksTypeOK
<1> QED BY TasksInvariant, <1>1, PTL

\* For any number of loops and callers, no two topology scans run at once.
THEOREM ScansTakeTurns == TasksSpec => []OneScanAtATime
<1>1. TasksInv => OneScanAtATime
  BY DEF TasksInv, ScanInv, RunningIsCurrent, OneScanAtATime
<1> QED BY TasksInvariant, <1>1, PTL

\* For any number of loops and callers, a startup that has failed leaves none of
\* the simple loops running.
THEOREM FailedStartupStops == TasksSpec => []FailedStartupIsStopped
<1>1. TasksInv => FailedStartupIsStopped
  BY DEF TasksInv, StartupInv
<1> QED BY TasksInvariant, <1>1, PTL

\* A step that cancels a scan that was started by hand is another scan by hand.
LEMMA OnlyHandsPreempt ==
  ASSUME TasksInv, [TasksNext]_taskVars,
         NEW s \in byHand, scan[s] = "running", scan'[s] = "cancelling"
  PROVE  scanTask' # scanTask /\ scanTask' \in byHand'
<1>1. s \in Scans /\ s = scanTask
  BY DEF TasksInv, ScanInv, RunningIsCurrent
<1>2. CASE ScanByHand
  <2>1. scanTask' = LastScan + 1 /\ LastScan + 1 \in byHand'
    BY <1>2 DEF ScanByHand
  <2>2. scanTask <= LastScan /\ scanTask \in Nat /\ LastScan \in Nat
    BY ScanBounds DEF TasksInv, ScanInv, NoFutureScans, ScansInOrder
  <2> QED BY <2>1, <2>2
<1>3. ASSUME NEW l \in ScanLoops, LoopScans(l) PROVE FALSE
  <2>1. scanTask # 0
    BY <1>1, ScanBounds DEF Scans
  <2> QED BY <1>1, <1>3, <2>1 DEF LoopScans, ScanUnderWay
<1>4. ASSUME NEW r \in Scans, ScanEnds(r) PROVE FALSE
  BY <1>1, <1>4 DEF ScanEnds, TasksInv, ScanInv
<1>5. ASSUME scan' = ScansAfterStop PROVE FALSE
  BY <1>5, LoopsStoppedKeeps DEF TasksInv
<1>6. ASSUME scan' = scan PROVE FALSE
  BY <1>6
<1>7. CASE StopPeriodicScans \/ StartPeriodicScans \/ Initialized \/ StartupFails \/ Shutdown
  BY <1>5, <1>7
  DEF StopPeriodicScans, StartPeriodicScans, Initialized, StartupFails, Shutdown, Restarted,
      StopTasks
<1>8. CASE Startup \/ StartWatchdog \/ StartupCancelled \/ Disconnected \/ WatchdogFails
           \/ UNCHANGED taskVars
  BY <1>6, <1>8
  DEF Startup, StartWatchdog, StartupCancelled, Disconnected, WatchdogFails, taskVars, scanVars
<1>9. ASSUME NEW l \in ScanLoops, LoopResumes(l) PROVE FALSE
  BY <1>6, <1>9 DEF LoopResumes
<1> QED BY <1>2, <1>3, <1>4, <1>7, <1>8, <1>9 DEF TasksNext

\* For any number of loops and callers, a scan that was started by hand is cancelled
\* only for another one that was started by hand.
THEOREM ManualScansStand == TasksSpec => ManualScanStands
<1>1. TasksInv /\ [TasksNext]_taskVars =>
        [\A s \in byHand : scan[s] = "running" /\ scan'[s] = "cancelling" =>
           scanTask' # scanTask /\ scanTask' \in byHand']_taskVars
  BY OnlyHandsPreempt
<1> QED BY TasksInvariant, <1>1, PTL DEF TasksSpec, ManualScanStands

-----------------------------------------------------------------------------
(* The shared calls.  RunsOnce is not inductive alone: an entry that was    *)
(* deleted while its task runs would let the next caller start another one, *)
(* so it takes that only the maker deletes the entry, that there is one     *)
(* maker, and that it awaits the very task of the entry.                    *)

\* The tasks that were not created have not started.
Uncreated == \A t \in SharedTasks : t > created => task[t] = "none"

\* A maker awaits the task of the entry, and there is only one.
MakerAwaitsEntry ==
  \A c \in SharedCallers : creator[c] => entry # 0 /\ awaiting[c] = entry
OneMaker ==
  \A c, d \in SharedCallers : creator[c] /\ creator[d] => c = d

SharedInv ==
  /\ SharedTypeOK /\ entry <= created
  /\ Uncreated /\ MakerAwaitsEntry /\ OneMaker
  /\ RunsOnce /\ EntryIsOwned

-----------------------------------------------------------------------------
LEMMA SharedInitInv == SharedInit => SharedInv
BY TaskBound DEF SharedInit, SharedInv, SharedTypeOK, Uncreated, MakerAwaitsEntry, OneMaker,
   RunsOnce, EntryIsOwned, SharedTasks, Finished

LEMMA JoinInv ==
  ASSUME SharedInv, NEW c \in SharedCallers, Join(c) PROVE SharedInv'
BY TaskBound DEF Join, SharedInv, SharedTypeOK, Uncreated, MakerAwaitsEntry, OneMaker,
   RunsOnce, EntryIsOwned, SharedTasks, Finished

\* There is no entry, so that nobody is a maker and nothing runs.
LEMMA CreateInv ==
  ASSUME SharedInv, NEW c \in SharedCallers, Create(c) PROVE SharedInv'
<1> USE TaskBound DEF Create, SharedInv, SharedTasks
<1>1. SharedTypeOK' /\ (entry <= created)'
  BY DEF SharedTypeOK, Finished
<1>2. Uncreated'
  BY DEF SharedTypeOK, Uncreated
<1>3. \A d \in SharedCallers : ~creator[d]
  BY DEF MakerAwaitsEntry
<1>4. \A t \in SharedTasks : task[t] \notin {"running", "cancelling"}
  BY DEF RunsOnce, SharedTypeOK
<1>5. MakerAwaitsEntry' /\ OneMaker'
  BY <1>3 DEF SharedTypeOK, MakerAwaitsEntry, OneMaker
<1>6. RunsOnce'
  BY <1>4 DEF SharedTypeOK, RunsOnce
<1>7. EntryIsOwned'
  BY DEF SharedTypeOK, EntryIsOwned
<1> QED BY <1>1, <1>2, <1>5, <1>6, <1>7

LEMMA FunctionEndsInv ==
  ASSUME SharedInv, NEW t \in SharedTasks, FunctionEnds(t) PROVE SharedInv'
<1>1. PICK how \in Finished : task' = [task EXCEPT ![t] = how]
  BY DEF FunctionEnds, Finished
<1> QED
  BY <1>1, TaskBound DEF FunctionEnds, SharedInv, SharedTypeOK, Uncreated, MakerAwaitsEntry,
     OneMaker, RunsOnce, EntryIsOwned, SharedTasks, Finished

LEMMA CancelCallerInv ==
  ASSUME SharedInv, NEW c \in SharedCallers, CancelCaller(c) PROVE SharedInv'
<1> USE TaskBound DEF CancelCaller, SharedInv, SharedTasks
<1>1. awaiting[c] \in 1 .. MaxTasks
  BY DEF SharedTypeOK
<1>2. SharedTypeOK'
  BY <1>1 DEF SharedTypeOK, Finished
<1>3. \A t \in SharedTasks :
        task'[t] = task[t] \/ (task[t] = "running" /\ task'[t] = "cancelling")
  BY <1>1 DEF SharedTypeOK
<1> QED
  BY <1>2, <1>3 DEF Uncreated, MakerAwaitsEntry, OneMaker, RunsOnce, EntryIsOwned, SharedTypeOK

\* The task of the entry has finished when its maker deletes the entry.
LEMMA ReturnInv ==
  ASSUME SharedInv, NEW c \in SharedCallers, Return(c) PROVE SharedInv'
<1> USE TaskBound DEF Return, SharedInv, SharedTasks
<1>1. SharedTypeOK' /\ (entry <= created)' /\ Uncreated'
  BY DEF SharedTypeOK, Finished, Uncreated
<1>2. \A d \in SharedCallers : creator'[d] => creator[d] /\ d # c /\ awaiting'[d] = awaiting[d]
  BY DEF SharedTypeOK
<1>3. CASE creator[c]
  <2>1. awaiting[c] = entry /\ entry \in SharedTasks /\ task[entry] \in Finished
    BY <1>3 DEF MakerAwaitsEntry, SharedTypeOK
  <2>2. RunsOnce' /\ EntryIsOwned'
    BY <1>3, <2>1 DEF RunsOnce, EntryIsOwned, Finished
  <2>3. MakerAwaitsEntry' /\ OneMaker'
    BY <1>2, <1>3 DEF MakerAwaitsEntry, OneMaker
  <2> QED BY <1>1, <2>2, <2>3
<1>4. CASE ~creator[c]
  <2>1. RunsOnce' /\ MakerAwaitsEntry' /\ OneMaker'
    BY <1>2, <1>4 DEF RunsOnce, MakerAwaitsEntry, OneMaker
  <2>2. EntryIsOwned'
    BY <1>4 DEF EntryIsOwned, SharedTypeOK
  <2> QED BY <1>1, <2>1, <2>2
<1> QED BY <1>3, <1>4

LEMMA SharedStepInv == SharedInv /\ [SharedNext]_sharedVars => SharedInv'
<1> SUFFICES ASSUME SharedInv, [SharedNext]_sharedVars PROVE SharedInv'
  OBVIOUS
<1>1. CASE UNCHANGED sharedVars
  BY <1>1 DEF sharedVars, SharedInv, SharedTypeOK, Uncreated, MakerAwaitsEntry, OneMaker,
     RunsOnce, EntryIsOwned
<1>2. ASSUME NEW c \in SharedCallers, SharedCallerStep(c) PROVE SharedInv'
  BY <1>2, JoinInv, CreateInv, CancelCallerInv, ReturnInv DEF SharedCallerStep
<1>3. ASSUME NEW t \in SharedTasks, FunctionEnds(t) PROVE SharedInv'
  BY <1>3, FunctionEndsInv
<1> QED BY <1>1, <1>2, <1>3 DEF SharedNext

\* SharedInv always holds.
LEMMA SharedInvariant == SharedSpec => []SharedInv
BY SharedInitInv, SharedStepInv, PTL DEF SharedSpec

-----------------------------------------------------------------------------
(* Theorems about the shared calls.                                        *)

\* Every variable of combine_concurrent_calls keeps its type.
THEOREM SharedTypes == SharedSpec => []SharedTypeOK
<1>1. SharedInv => SharedTypeOK
  BY DEF SharedInv
<1> QED BY SharedInvariant, <1>1, PTL

\* For any number of callers and tasks, the function that is shared never runs
\* twice at the same time, whoever is cancelled while it runs.
THEOREM SharedCallsRunOnce == SharedSpec => []RunsOnce
<1>1. SharedInv => RunsOnce
  BY DEF SharedInv
<1> QED BY SharedInvariant, <1>1, PTL

\* For any number of callers and tasks, an entry of the table belongs to a caller
\* that awaits its task: results are not handed out after the call.
THEOREM SharedEntriesAreOwned == SharedSpec => []EntryIsOwned
<1>1. SharedInv => EntryIsOwned
  BY DEF SharedInv
<1> QED BY SharedInvariant, <1>1, PTL

-----------------------------------------------------------------------------
(* The heap.                                                               *)

LEMMA LeastElement ==
  ASSUME NEW T, T \subseteq Nat, T # {}
  PROVE  \E x \in T : \A y \in T : x <= y
<1> DEFINE R == OpToRel(<, Nat)
<1>1. \A x, y \in Nat : x < y => <<x, y>> \in R
  BY DEF OpToRel
<1>2. IsWellFoundedOn(R, Nat)
  BY NatLessThanWellFounded
<1> HIDE DEF R
<1>3. \E x \in T : \A y \in T : ~(<<y, x>> \in R)
  BY <1>2, WFMin, Zenon
<1>4. PICK x \in T : \A y \in T : ~(<<y, x>> \in R)
  BY <1>3
<1>5. ASSUME NEW y \in T
      PROVE  x <= y
  <2>1. x \in Nat /\ y \in Nat /\ ~(y < x)
    BY <1>1, <1>4
  <2> QED BY <2>1
<1> QED BY <1>5

\* The same from the other end.
LEMMA GreatestElement ==
  ASSUME NEW n \in Nat, NEW T \in SUBSET (0 .. n), T # {}
  PROVE  \E x \in T : \A y \in T : y <= x
<1> DEFINE Down == {n - i : i \in T}
<1>1. Down \subseteq Nat /\ Down # {}
  <2>1. \A i \in T : n - i \in Nat
    OBVIOUS
  <2> QED BY <2>1
<1>2. PICK d \in Down : \A e \in Down : d <= e
  BY <1>1, LeastElement, Zenon
<1>3. PICK x \in T : d = n - x
  OBVIOUS
<1>4. ASSUME NEW y \in T
      PROVE  y <= x
  <2>1. d <= n - y
    BY <1>2
  <2> QED BY <2>1, <1>3
<1> QED BY <1>4

\* The path goes on to the root ...
LEMMA PathClosed ==
  ASSUME NEW n \in Nat, n >= 1
  PROVE  /\ Path(n) \subseteq 1 .. n
         /\ n \in Path(n)
         /\ \A i \in Path(n) \ {1} : i \div 2 \in Path(n)
<1>1. Path(n) \subseteq 1 .. n /\ n \in Path(n)
  BY DEF Path
<1>2. ASSUME NEW i \in Path(n) \ {1}
      PROVE  i \div 2 \in Path(n)
  <2>1. i \in 1 .. n /\ i # 1
    BY <1>1
  <2>2. i \div 2 \in 1 .. n
    BY <2>1
  <2>3. \A S \in SUBSET (1 .. n) :
          n \in S /\ (\A k \in S \ {1} : k \div 2 \in S) => i \div 2 \in S
    BY <1>2 DEF Path
  <2> QED BY <2>2, <2>3 DEF Path
<1> QED BY <1>1, <1>2

\* ... and has nothing else than what it has to have.
LEMMA PathLeast ==
  ASSUME NEW n \in Nat, n >= 1, NEW S \in SUBSET (1 .. n),
         n \in S, \A k \in S \ {1} : k \div 2 \in S
  PROVE  Path(n) \subseteq S
BY DEF Path

\* Between a place on the path and its parent the path has no other place.
LEMMA PathIsChain ==
  ASSUME NEW n \in Nat, n >= 1
  PROVE  \A i, j \in Path(n) : i < j => i <= j \div 2
<1> DEFINE S == {i \in Path(n) : \A j \in Path(n) : i < j => i <= j \div 2}
<1>1. S \in SUBSET (1 .. n) /\ Path(n) \subseteq 1 .. n
  BY PathClosed
<1>2. n \in S
  BY PathClosed
<1>3. ASSUME NEW i \in S \ {1}
      PROVE  i \div 2 \in S
  <2> DEFINE U == {j \in Path(n) : j >= i \/ j <= i \div 2}
  <2>1. i \in 1 .. n /\ i \in Path(n) /\ i \div 2 \in Path(n)
    BY <1>1, PathClosed
  <2>2. U \in SUBSET (1 .. n) /\ n \in U
    BY <1>1, <2>1, PathClosed
  <2>3. ASSUME NEW j \in U \ {1}
        PROVE  j \div 2 \in U
    <3>1. j \in 1 .. n /\ j \div 2 \in Path(n) /\ j \div 2 \in 1 .. n
      BY <1>1, PathClosed
    <3>2. CASE j > i
      <4>1. i <= j \div 2
        BY <3>2, <1>1, <2>1
      <4> QED BY <3>1, <4>1, <2>1
    <3>3. CASE j = i
      BY <3>1, <3>3
    <3>4. CASE j <= i \div 2
      <4>1. j \div 2 <= i \div 2
        BY <3>1, <3>4, <2>1
      <4> QED BY <3>1, <4>1
    <3> QED BY <3>1, <2>1, <3>2, <3>3, <3>4
  <2>4. Path(n) \subseteq U
    BY <2>2, <2>3, PathLeast, Zenon
  <2>5. ASSUME NEW j \in Path(n), i \div 2 < j
        PROVE  i \div 2 <= j \div 2
    <3>1. j >= i /\ j \in 1 .. n
      BY <2>4, <2>5, <1>1, <2>1
    <3> QED BY <3>1, <2>1
  <2> QED BY <2>1, <2>5
<1>4. Path(n) \subseteq S
  BY <1>1, <1>2, <1>3, PathLeast, Zenon
<1> QED BY <1>4

LEMMA PathHasRoot ==
  ASSUME NEW n \in Nat, n >= 1
  PROVE  1 \in Path(n)
<1>1. PICK i \in Path(n) : \A j \in Path(n) : i <= j
  <2>1. Path(n) \subseteq Nat /\ Path(n) # {}
    BY PathClosed
  <2> QED BY <2>1, LeastElement, Zenon
<1>2. i \in 1 .. n /\ (i # 1 => i \div 2 \in Path(n))
  BY PathClosed
<1>3. i # 1 => i <= i \div 2
  BY <1>1, <1>2
<1> QED BY <1>2, <1>3

\* What is on the path below the end has a child there.
LEMMA PathHasChild ==
  ASSUME NEW n \in Nat, n >= 1, NEW k \in Path(n), k < n
  PROVE  \E i \in Path(n) : i > k /\ i \div 2 = k
<1> DEFINE Later == {i \in Path(n) : i > k}
<1>1. Path(n) \subseteq 1 .. n /\ n \in Path(n)
  BY PathClosed
<1>2. PICK i \in Later : \A j \in Later : i <= j
  <2>1. Later \subseteq Nat /\ Later # {}
    BY <1>1
  <2> QED BY <2>1, LeastElement, Zenon
<1>3. i \in 1 .. n /\ k \in 1 .. n /\ i > k /\ i # 1
  BY <1>1, <1>2
<1>4. i \div 2 \in Path(n) /\ k <= i \div 2
  BY <1>2, <1>3, PathClosed, PathIsChain
<1>5. ~(i \div 2 > k)
  <2>1. i \div 2 < i
    BY <1>3
  <2>2. i \div 2 > k => i <= i \div 2
    BY <1>2, <1>4
  <2> QED BY <2>1, <2>2, <1>3
<1>6. i \div 2 = k
  BY <1>3, <1>4, <1>5
<1> QED BY <1>2, <1>3, <1>6

\* A push keeps every entry of the heap and adds one: `from' says where in the old
\* list an entry of the new one was, 0 being the new entry.
LEMMA PushKeepsEntries ==
  ASSUME NEW q \in Seq(Entry), NEW x \in Entry
  PROVE  /\ Push(q, x) \in Seq(Entry)
         /\ Len(Push(q, x)) = Len(q) + 1
         /\ \E from \in [1 .. Len(q) + 1 -> 0 .. Len(q)] :
              /\ \A i \in 1 .. Len(q) + 1 :
                   Push(q, x)[i] = IF from[i] = 0 THEN x ELSE q[from[i]]
              /\ \A i, j \in 1 .. Len(q) + 1 : from[i] = from[j] => i = j
              /\ \A k \in 0 .. Len(q) : \E i \in 1 .. Len(q) + 1 : from[i] = k
<1> DEFINE n == Len(q) + 1
           path == Path(n)
           stays == {i \in path : i = 1 \/ ~Less(x, q[i \div 2])}
           place == CHOOSE i \in stays : \A j \in stays : j <= i
           from == [i \in 1 .. n |-> IF i = place THEN 0
                                     ELSE IF i \in path /\ i > place THEN i \div 2
                                     ELSE i]
<1>0. n \in Nat /\ n >= 1 /\ Len(q) \in Nat /\ Len(q) = n - 1
  OBVIOUS
<1>1. path \subseteq 1 .. n /\ n \in path
  BY <1>0, PathClosed
<1>2. place \in path
  <2>1. 1 \in stays
    BY <1>0, PathHasRoot
  <2>2. stays \in SUBSET (0 .. n) /\ stays # {}
    BY <1>1, <2>1
  <2>3. \E i \in stays : \A j \in stays : j <= i
    BY <1>0, <2>2, GreatestElement, Zenon
  <2>4. place \in stays
    BY <2>3
  <2> QED BY <2>4
<1>3. Push(q, x) = [i \in 1 .. n |-> IF i = place THEN x
                                     ELSE IF i \in path /\ i > place THEN q[i \div 2]
                                     ELSE q[i]]
  BY DEF Push
<1>4. \A i, j \in path : i < j => i <= j \div 2
  BY <1>0, PathIsChain, Zenon
<1>5. \A k \in path : k < n => \E i \in path : i > k /\ i \div 2 = k
  BY <1>0, PathHasChild, Zenon
<1>6. \A i \in path \ {1} : i \div 2 \in path
  BY <1>0, PathClosed, Zenon
<1> HIDE DEF n, path, place, stays
<1>7. from \in [1 .. n -> 0 .. Len(q)]
  <2> SUFFICES ASSUME NEW i \in 1 .. n
               PROVE  from[i] \in 0 .. Len(q)
    OBVIOUS
  <2>1. CASE i = place
    BY <2>1, <1>0
  <2>2. CASE i # place /\ i \in path /\ i > place
    <3>1. place \in 1 .. n
      BY <1>1, <1>2
    <3>2. i \div 2 \in 0 .. n - 1
      BY <2>2, <3>1, <1>0
    <3> QED BY <2>2, <3>2, <1>0
  <2>3. CASE i # place /\ ~(i \in path /\ i > place)
    <3>1. i # n
      BY <2>3, <1>1, <1>2, <1>0
    <3> QED BY <2>3, <3>1, <1>0
  <2> QED BY <2>1, <2>2, <2>3
<1>8. \A i \in 1 .. n : from[i] = 0 <=> i = place
  <2> SUFFICES ASSUME NEW i \in 1 .. n, i # place
               PROVE  from[i] # 0
    OBVIOUS
  <2>1. place \in 1 .. n
    BY <1>1, <1>2
  <2>2. i > place => i \div 2 # 0
    BY <2>1
  <2> QED BY <2>2, <1>0
<1>9. \A i \in 1 .. n : Push(q, x)[i] = IF from[i] = 0 THEN x ELSE q[from[i]]
  BY <1>3, <1>8
<1>10. ASSUME NEW i \in 1 .. n, NEW j \in 1 .. n, from[i] = from[j]
       PROVE  i = j
  <2>1. CASE i = place \/ j = place
    BY <2>1, <1>8, <1>10
  <2>2. CASE i # place /\ j # place
    <3> DEFINE Moves(k) == k \in path /\ k > place
    <3>0. place \in 1 .. n
      BY <1>1, <1>2
    <3>1. CASE Moves(i) /\ Moves(j)
      <4>1. i \div 2 = j \div 2
        BY <1>10, <2>2, <3>1
      <4>2. ~(i < j) /\ ~(j < i)
        <5>1. i < j => i <= j \div 2
          BY <1>4, <3>1
        <5>2. j < i => j <= i \div 2
          BY <1>4, <3>1
        <5> QED BY <4>1, <5>1, <5>2
      <4> QED BY <4>2
    <3>2. ASSUME NEW k \in 1 .. n, NEW l \in 1 .. n, Moves(k), ~Moves(l),
                 k \div 2 = l, l # place
          PROVE  FALSE
      <4>1. k # 1
        BY <3>0, <3>2
      <4>2. l \in path
        BY <1>6, <4>1, <3>2
      <4>3. place <= l
        BY <1>2, <1>4, <3>2
      <4> QED BY <4>2, <4>3, <3>2, <3>0
    <3>3. CASE Moves(i) /\ ~Moves(j)
      BY <1>10, <2>2, <3>2, <3>3
    <3>4. CASE ~Moves(i) /\ Moves(j)
      BY <1>10, <2>2, <3>2, <3>4
    <3>5. CASE ~Moves(i) /\ ~Moves(j)
      BY <1>10, <2>2, <3>5
    <3> QED BY <3>1, <3>3, <3>4, <3>5
  <2> QED BY <2>1, <2>2
<1>11. ASSUME NEW k \in 0 .. Len(q)
       PROVE  \E i \in 1 .. n : from[i] = k
  <2>0. place \in 1 .. n
    BY <1>1, <1>2
  <2>1. CASE k = 0
    BY <2>0, <2>1, <1>8
  <2>2. CASE k # 0 /\ k \in path /\ k >= place
    <3>1. PICK i \in path : i > k /\ i \div 2 = k
      BY <1>5, <2>2, <1>0
    <3>2. i \in 1 .. n /\ i > place
      BY <3>1, <2>2, <2>0, <1>1
    <3> QED BY <3>1, <3>2
  <2>3. CASE k # 0 /\ ~(k \in path /\ k >= place)
    <3>1. k \in 1 .. n /\ k # place
      BY <2>3, <1>0, <1>2
    <3> QED BY <3>1, <2>3, <2>0
  <2> QED BY <2>1, <2>2, <2>3
<1>12. \A i \in 1 .. n : Push(q, x)[i] \in Entry
  <2> SUFFICES ASSUME NEW i \in 1 .. n
               PROVE  Push(q, x)[i] \in Entry
    OBVIOUS
  <2>1. from[i] \in 0 .. Len(q)
    BY <1>7
  <2>2. from[i] # 0 => q[from[i]] \in Entry
    BY <2>1
  <2> QED BY <1>9, <2>1, <2>2
<1>13. Push(q, x) \in Seq(Entry) /\ Len(Push(q, x)) = n
  BY <1>0, <1>3, <1>12
<1> HIDE DEF from
<1> USE DEF n
<1> QED BY <1>7, <1>9, <1>10, <1>11, <1>13

\* clean() takes only what has expired, all of it from the end.
LEMMA KeptIsPrefix ==
  ASSUME NEW q \in Seq(Entry), now \in Nat
  PROVE  /\ Kept(q) \in 0 .. Len(q)
         /\ \A i \in Kept(q) + 1 .. Len(q) : q[i].at < now
<1> DEFINE Expired(n) == \A i \in n + 1 .. Len(q) : q[i].at < now
           T == {n \in 0 .. Len(q) : Expired(n)}
<1>1. Len(q) \in Nat /\ \A i \in 1 .. Len(q) : q[i].at \in Nat
  <2>1. Len(q) \in Nat /\ \A i \in 1 .. Len(q) : q[i] \in Entry
    OBVIOUS
  <2> QED BY <2>1 DEF Entry
<1>2. PICK n \in T : \A m \in T : n <= m
  <2>1. Len(q) \in T
    BY <1>1
  <2>2. T \subseteq Nat /\ T # {}
    BY <1>1, <2>1
  <2> QED BY <2>2, LeastElement, Zenon
<1>3. n = 0 \/ q[n].at >= now
  <2> SUFFICES ASSUME n # 0, q[n].at < now
               PROVE  FALSE
    BY <1>1, <1>2
  <2>1. n \in 1 .. Len(q) /\ Expired(n)
    BY <1>1, <1>2
  <2>2. ASSUME NEW i \in n - 1 + 1 .. Len(q)
        PROVE  q[i].at < now
    <3>1. i = n \/ i \in n + 1 .. Len(q)
      BY <1>1, <2>1
    <3> QED BY <2>1, <3>1
  <2>3. n - 1 \in T
    BY <1>1, <2>1, <2>2
  <2>4. n <= n - 1
    BY <1>2, <2>3
  <2> QED BY <1>1, <2>1, <2>4
<1>4. \E m \in 0 .. Len(q) : /\ m = 0 \/ q[m].at >= now
                             /\ \A i \in m + 1 .. Len(q) : q[i].at < now
  BY <1>2, <1>3
<1> QED BY <1>4 DEF Kept

-----------------------------------------------------------------------------
(* The heap and the dictionary.                                            *)

\* TrackedOnce of any list and any dictionary.
Tracks(q, t) ==
  /\ \A i \in 1 .. Len(q) : q[i].obj \in DOMAIN t /\ t[q[i].obj] = q[i].at
  /\ \A o \in DOMAIN t : \E i \in 1 .. Len(q) : q[i].obj = o
  /\ \A i, j \in 1 .. Len(q) : q[i].obj = q[j].obj => i = j

LEMMA TracksIsTrackedOnce ==
  ASSUME queue \in Seq(Entry)
  PROVE  Tracks(queue, times) <=> TrackedOnce
<1>1. DOMAIN queue = 1 .. Len(queue)
  OBVIOUS
<1> QED BY <1>1 DEF Tracks, TrackedOnce

LEMMA CleanedTracks ==
  ASSUME queue \in Seq(Entry), now \in Nat, Tracks(queue, times)
  PROVE  /\ Cleaned \in Seq(Entry)
         /\ Tracks(Cleaned, TimesLeft)
         /\ \A i \in 1 .. Len(Cleaned) : i \in 1 .. Len(queue) /\ Cleaned[i] = queue[i]
         /\ DOMAIN TimesLeft \subseteq DOMAIN times
         /\ \A o \in DOMAIN TimesLeft : TimesLeft[o] = times[o]
         /\ \A o \in DOMAIN times \ DOMAIN TimesLeft : times[o] < now
<1> DEFINE k == Kept(queue)
           Gone == {queue[i].obj : i \in k + 1 .. Len(queue)}
<1>1. k \in 0 .. Len(queue) /\ \A i \in k + 1 .. Len(queue) : queue[i].at < now
  BY KeptIsPrefix
<1>2. Len(queue) \in Nat
  OBVIOUS
<1>3. /\ Cleaned \in Seq(Entry)
      /\ Len(Cleaned) = k
      /\ \A i \in 1 .. k : Cleaned[i] = queue[i]
  BY <1>1, <1>2, SubSeqProperties DEF Cleaned
<1>4. /\ DOMAIN TimesLeft = DOMAIN times \ Gone
      /\ \A o \in DOMAIN times \ Gone : TimesLeft[o] = times[o]
  BY DEF TimesLeft
<1> HIDE DEF k
<1>5. Tracks(Cleaned, TimesLeft)
  <2>1. ASSUME NEW i \in 1 .. Len(Cleaned)
        PROVE  Cleaned[i].obj \in DOMAIN TimesLeft /\ TimesLeft[Cleaned[i].obj] = Cleaned[i].at
    <3>1. i \in 1 .. k /\ i \in 1 .. Len(queue) /\ Cleaned[i] = queue[i]
      BY <1>1, <1>2, <1>3
    <3>2. queue[i].obj \notin Gone
      <4> SUFFICES ASSUME NEW j \in k + 1 .. Len(queue), queue[j].obj = queue[i].obj
                   PROVE  FALSE
        OBVIOUS
      <4>1. j \in 1 .. Len(queue) /\ i # j
        BY <1>1, <1>2, <3>1
      <4> QED BY <3>1, <4>1 DEF Tracks
    <3>3. queue[i].obj \in DOMAIN times /\ times[queue[i].obj] = queue[i].at
      BY <3>1 DEF Tracks
    <3> QED BY <1>4, <3>1, <3>2, <3>3
  <2>2. ASSUME NEW o \in DOMAIN TimesLeft
        PROVE  \E i \in 1 .. Len(Cleaned) : Cleaned[i].obj = o
    <3>1. o \in DOMAIN times /\ o \notin Gone
      BY <1>4
    <3>2. PICK i \in 1 .. Len(queue) : queue[i].obj = o
      BY <3>1 DEF Tracks
    <3>3. i \in 1 .. k
      BY <1>1, <1>2, <3>1, <3>2
    <3> QED BY <1>3, <3>2, <3>3
  <2>3. ASSUME NEW i \in 1 .. Len(Cleaned), NEW j \in 1 .. Len(Cleaned),
               Cleaned[i].obj = Cleaned[j].obj
        PROVE  i = j
    <3>1. /\ i \in 1 .. k /\ i \in 1 .. Len(queue)
          /\ j \in 1 .. k /\ j \in 1 .. Len(queue)
      BY <1>1, <1>2, <1>3
    <3>2. queue[i].obj = queue[j].obj
      BY <1>3, <2>3, <3>1
    <3> QED BY <3>1, <3>2 DEF Tracks
  <2> QED BY <2>1, <2>2, <2>3 DEF Tracks
<1>6. ASSUME NEW o \in DOMAIN times \ DOMAIN TimesLeft
      PROVE  times[o] < now
  <2>1. PICK i \in k + 1 .. Len(queue) : queue[i].obj = o
    BY <1>4
  <2>2. i \in 1 .. Len(queue)
    BY <1>1, <1>2
  <2> QED BY <1>1, <2>1, <2>2 DEF Tracks
<1>7. \A i \in 1 .. Len(Cleaned) : i \in 1 .. Len(queue) /\ Cleaned[i] = queue[i]
  BY <1>1, <1>2, <1>3
<1> QED BY <1>3, <1>4, <1>5, <1>6, <1>7

LEMMA PushedTracks ==
  ASSUME NEW q \in Seq(Entry), NEW t, Tracks(q, t), NEW x \in Entry, x.obj \notin DOMAIN t
  PROVE  Tracks(Push(q, x), [o \in DOMAIN t \cup {x.obj} |->
                               IF o = x.obj THEN x.at ELSE t[o]])
<1> DEFINE p == Push(q, x)
           u == [o \in DOMAIN t \cup {x.obj} |-> IF o = x.obj THEN x.at ELSE t[o]]
           n == Len(q) + 1
<1>0. Len(q) \in Nat /\ Len(p) = n
  BY PushKeepsEntries
<1>1. PICK from \in [1 .. n -> 0 .. Len(q)] :
        /\ \A i \in 1 .. n : p[i] = IF from[i] = 0 THEN x ELSE q[from[i]]
        /\ \A i, j \in 1 .. n : from[i] = from[j] => i = j
        /\ \A k \in 0 .. Len(q) : \E i \in 1 .. n : from[i] = k
  BY PushKeepsEntries
<1>2. DOMAIN u = DOMAIN t \cup {x.obj}
      /\ u[x.obj] = x.at /\ \A o \in DOMAIN t : u[o] = t[o]
  OBVIOUS
<1> HIDE DEF p, u
<1>3. \A k \in 1 .. Len(q) : q[k].obj \in DOMAIN t /\ t[q[k].obj] = q[k].at /\ q[k].obj # x.obj
  BY DEF Tracks
<1>4. ASSUME NEW i \in 1 .. n
      PROVE  p[i].obj \in DOMAIN u /\ u[p[i].obj] = p[i].at
  <2>1. CASE from[i] = 0
    BY <1>1, <1>2, <2>1
  <2>2. CASE from[i] # 0
    <3>1. from[i] \in 1 .. Len(q) /\ p[i] = q[from[i]]
      BY <1>0, <1>1, <2>2
    <3> QED BY <1>2, <1>3, <3>1
  <2> QED BY <2>1, <2>2
<1>5. ASSUME NEW o \in DOMAIN u
      PROVE  \E i \in 1 .. n : p[i].obj = o
  <2>1. PICK k \in 0 .. Len(q) : IF o = x.obj THEN k = 0 ELSE k # 0 /\ q[k].obj = o
    <3>1. CASE o = x.obj
      BY <1>0, <3>1
    <3>2. CASE o # x.obj
      <4>1. PICK k \in 1 .. Len(q) : q[k].obj = o
        BY <1>2, <3>2 DEF Tracks
      <4> QED BY <1>0, <3>2, <4>1
    <3> QED BY <3>1, <3>2
  <2>2. PICK i \in 1 .. n : from[i] = k
    BY <1>1
  <2> QED BY <1>1, <2>1, <2>2
<1>6. ASSUME NEW i \in 1 .. n, NEW j \in 1 .. n, p[i].obj = p[j].obj
      PROVE  i = j
  <2>1. from[i] \in 0 .. Len(q) /\ from[j] \in 0 .. Len(q)
    BY <1>1
  <2>2. \A k, l \in 1 .. Len(q) : q[k].obj = q[l].obj => k = l
    BY DEF Tracks
  <2>3. from[i] = from[j]
    BY <1>0, <1>1, <1>3, <1>6, <2>1, <2>2
  <2> QED BY <1>1, <2>3
<1>7. Tracks(p, u)
  BY <1>0, <1>4, <1>5, <1>6 DEF Tracks
<1> QED BY <1>7 DEF p, u

-----------------------------------------------------------------------------
(* Types, and that what has passed is remembered.                          *)

\* An object whose window is not over is in the dictionary, with that window.
Remembers ==
  \A o \in Objects : passed[o] >= now => o \in DOMAIN times /\ times[o] = passed[o]

DebouncerInv == DebouncerTypeOK /\ Tracks(queue, times) /\ Remembers

LEMMA InvAtStart == DebouncerInit => DebouncerInv
<1> SUFFICES ASSUME DebouncerInit PROVE DebouncerInv
  OBVIOUS
<1>1. DebouncerTypeOK
  <2>1. <<>> \in Seq(Entry)
    OBVIOUS
  <2> QED BY <2>1, BoundsAreNaturals DEF DebouncerInit, DebouncerTypeOK
<1>2. Tracks(queue, times)
  BY DEF DebouncerInit, Tracks
<1>3. Remembers
  BY DEF DebouncerInit, Remembers
<1> QED BY <1>1, <1>2, <1>3 DEF DebouncerInv

\* What clean() leaves has the types it had, and remembers the same.
LEMMA CleanedInv ==
  ASSUME DebouncerInv
  PROVE  /\ Cleaned \in Seq(Entry)
         /\ Tracks(Cleaned, TimesLeft)
         /\ DOMAIN TimesLeft \subseteq Objects
         /\ \A o \in DOMAIN TimesLeft : TimesLeft[o] = times[o] /\ times[o] \in Nat
         /\ \A o \in Objects : passed[o] >= now =>
              o \in DOMAIN TimesLeft /\ TimesLeft[o] = passed[o]
<1>1. queue \in Seq(Entry) /\ now \in Nat /\ Tracks(queue, times)
  BY DEF DebouncerInv, DebouncerTypeOK
<1>2. /\ Cleaned \in Seq(Entry) /\ Tracks(Cleaned, TimesLeft)
      /\ DOMAIN TimesLeft \subseteq DOMAIN times
      /\ \A o \in DOMAIN TimesLeft : TimesLeft[o] = times[o]
      /\ \A o \in DOMAIN times \ DOMAIN TimesLeft : times[o] < now
  BY <1>1, CleanedTracks
<1>3. DOMAIN times \subseteq Objects /\ \A o \in DOMAIN times : times[o] \in Nat
  BY DEF DebouncerInv, DebouncerTypeOK
<1>4. ASSUME NEW o \in Objects, passed[o] >= now
      PROVE  o \in DOMAIN TimesLeft /\ TimesLeft[o] = passed[o]
  <2>1. o \in DOMAIN times /\ times[o] = passed[o]
    BY <1>4 DEF DebouncerInv, Remembers
  <2>2. ~(times[o] < now)
    BY <1>1, <1>3, <1>4, <2>1
  <2> QED BY <1>2, <2>1, <2>2
<1> QED BY <1>2, <1>3, <1>4

\* The new entry, and what it makes of the heap and of the dictionary.
LEMMA LetPassInv ==
  ASSUME DebouncerInv, NEW obj \in Objects, NEW window \in Windows,
         Dedup <= MaxCalls, LetPass(obj, window)
  PROVE  /\ queue' \in Seq(Entry)
         /\ Tracks(queue', times')
         /\ DOMAIN times' \subseteq Objects
         /\ \A o \in DOMAIN times' : times'[o] \in Nat
         /\ passed' \in [Objects -> Nat]
         /\ \A o \in Objects : passed'[o] >= now => o \in DOMAIN times' /\ times'[o] = passed'[o]
<1> DEFINE x == [at |-> now + window, dedup |-> Dedup, obj |-> obj]
<1>1. now \in Nat /\ now + window \in Nat /\ passed \in [Objects -> Nat]
  BY WindowsArePositive DEF DebouncerInv, DebouncerTypeOK
<1>2. x \in Entry
  <2>1. Dedup \in 1 .. MaxCalls
    BY BoundsAreNaturals DEF Dedup, DebouncerInv, DebouncerTypeOK
  <2> QED BY <1>1, <2>1 DEF Entry
<1>3. /\ Cleaned \in Seq(Entry) /\ Tracks(Cleaned, TimesLeft)
      /\ DOMAIN TimesLeft \subseteq Objects
      /\ \A o \in DOMAIN TimesLeft : TimesLeft[o] = times[o] /\ times[o] \in Nat
      /\ \A o \in Objects : passed[o] >= now =>
           o \in DOMAIN TimesLeft /\ TimesLeft[o] = passed[o]
  BY CleanedInv
<1>4. /\ obj \notin DOMAIN TimesLeft
      /\ queue' = Push(Cleaned, x)
      /\ times' = [o \in DOMAIN TimesLeft \cup {obj} |->
                     IF o = obj THEN now + window ELSE times[o]]
      /\ passed' = [passed EXCEPT ![obj] = now + window]
  BY DEF LetPass, Remembered
<1>5. x.obj = obj /\ x.at = now + window
  OBVIOUS
<1> HIDE DEF x
<1>6. times' = [o \in DOMAIN TimesLeft \cup {x.obj} |->
                  IF o = x.obj THEN x.at ELSE TimesLeft[o]]
  BY <1>3, <1>4, <1>5
<1>7. queue' \in Seq(Entry) /\ Tracks(queue', times')
  <2>1. Push(Cleaned, x) \in Seq(Entry)
    BY <1>2, <1>3, PushKeepsEntries
  <2>2. Tracks(Push(Cleaned, x), [o \in DOMAIN TimesLeft \cup {x.obj} |->
                                    IF o = x.obj THEN x.at ELSE TimesLeft[o]])
    BY <1>2, <1>3, <1>4, <1>5, PushedTracks
  <2> QED BY <1>4, <1>6, <2>1, <2>2
<1>8. /\ DOMAIN times' \subseteq Objects
      /\ \A o \in DOMAIN times' : times'[o] \in Nat
  BY <1>1, <1>3, <1>4
<1>9. passed' \in [Objects -> Nat]
  BY <1>1, <1>4
<1>10. ASSUME NEW o \in Objects, passed'[o] >= now
       PROVE  o \in DOMAIN times' /\ times'[o] = passed'[o]
  <2>1. CASE o = obj
    BY <1>1, <1>4, <2>1
  <2>2. CASE o # obj
    BY <1>1, <1>3, <1>4, <1>10, <2>2
  <2> QED BY <2>1, <2>2
<1> QED BY <1>7, <1>8, <1>9, <1>10

LEMMA InvKept == DebouncerInv /\ [DebouncerNext]_debouncerVars => DebouncerInv'
<1> SUFFICES ASSUME DebouncerInv, [DebouncerNext]_debouncerVars
             PROVE  DebouncerInv'
  OBVIOUS
<1>0. /\ now \in Nat /\ lastTime \in 0 .. now /\ dedup \in 0 .. MaxCalls
      /\ passed \in [Objects -> Nat] /\ filtered \subseteq Objects
  BY DEF DebouncerInv, DebouncerTypeOK
<1>1. /\ Cleaned \in Seq(Entry) /\ Tracks(Cleaned, TimesLeft)
      /\ DOMAIN TimesLeft \subseteq Objects
      /\ \A o \in DOMAIN TimesLeft : TimesLeft[o] = times[o] /\ times[o] \in Nat
      /\ \A o \in Objects : passed[o] >= now =>
           o \in DOMAIN TimesLeft /\ TimesLeft[o] = passed[o]
  BY CleanedInv
<1>2. ASSUME NEW obj \in Objects, NEW window \in Windows, Filter(obj, window)
      PROVE  DebouncerInv'
  <2>1. /\ now' = now
        /\ lastTime' \in 0 .. now
        /\ dedup' = Dedup /\ Dedup <= MaxCalls
    BY <1>0, <1>2 DEF Filter
  <2>2. dedup' \in 0 .. MaxCalls
    BY <1>0, <2>1, BoundsAreNaturals DEF Dedup
  <2>3. CASE HoldBack(obj)
    <3>1. queue' = Cleaned /\ times' = TimesLeft /\ filtered' = {obj} /\ passed' = passed
      BY <2>3 DEF HoldBack
    <3>2. DebouncerTypeOK'
      BY <1>0, <1>1, <2>1, <2>2, <3>1 DEF DebouncerTypeOK
    <3>3. Tracks(queue, times)'
      BY <1>1, <3>1
    <3>4. Remembers'
      BY <1>1, <2>1, <3>1 DEF Remembers
    <3> QED BY <3>2, <3>3, <3>4 DEF DebouncerInv
  <2>4. CASE LetPass(obj, window)
    <3>1. /\ queue' \in Seq(Entry)
          /\ Tracks(queue', times')
          /\ DOMAIN times' \subseteq Objects
          /\ \A o \in DOMAIN times' : times'[o] \in Nat
          /\ passed' \in [Objects -> Nat]
          /\ \A o \in Objects : passed'[o] >= now =>
               o \in DOMAIN times' /\ times'[o] = passed'[o]
      BY <2>1, <2>4, LetPassInv
    <3>2. filtered' = {}
      BY <2>4 DEF LetPass
    <3>3. DebouncerTypeOK'
      BY <1>0, <2>1, <2>2, <3>1, <3>2 DEF DebouncerTypeOK
    <3>4. Remembers'
      BY <2>1, <3>1 DEF Remembers
    <3>5. Tracks(queue, times)'
      BY <3>1
    <3> QED BY <3>3, <3>4, <3>5 DEF DebouncerInv
  <2> QED BY <1>2, <2>3, <2>4 DEF Filter
<1>3. CASE Clean
  <2>1. /\ queue' = Cleaned /\ times' = TimesLeft /\ filtered' = {}
        /\ UNCHANGED <<now, lastTime, dedup, passed>>
    BY <1>3 DEF Clean
  <2>2. DebouncerTypeOK'
    BY <1>0, <1>1, <2>1 DEF DebouncerTypeOK
  <2>3. Tracks(queue, times)'
    BY <1>1, <2>1
  <2>4. Remembers'
    BY <1>1, <2>1 DEF Remembers
  <2> QED BY <2>2, <2>3, <2>4 DEF DebouncerInv
<1>4. CASE Tick
  <2>1. now' = now + 1 /\ filtered' = {} /\ UNCHANGED <<times, queue, lastTime, dedup, passed>>
    BY <1>4 DEF Tick
  <2>2. DebouncerTypeOK'
    BY <1>0, <2>1 DEF DebouncerInv, DebouncerTypeOK
  <2>3. Tracks(queue, times)'
    BY <2>1 DEF DebouncerInv
  <2>4. Remembers'
    <3> SUFFICES ASSUME NEW o \in Objects, passed[o] >= now + 1
                 PROVE  o \in DOMAIN times /\ times[o] = passed[o]
      BY <2>1 DEF Remembers
    <3>1. passed[o] >= now
      BY <1>0
    <3> QED BY <3>1 DEF DebouncerInv, Remembers
  <2> QED BY <2>2, <2>3, <2>4 DEF DebouncerInv
<1>5. CASE UNCHANGED debouncerVars
  BY <1>5 DEF debouncerVars, DebouncerInv, DebouncerTypeOK, Remembers, Tracks
<1> QED BY <1>2, <1>3, <1>4, <1>5 DEF DebouncerNext

LEMMA InvAlways == DebouncerSpec => []DebouncerInv
BY InvAtStart, InvKept, PTL DEF DebouncerSpec

\* Every variable of the debouncer keeps its type.
THEOREM DebouncerTypes == DebouncerSpec => []DebouncerTypeOK
<1>1. DebouncerInv => DebouncerTypeOK
  BY DEF DebouncerInv
<1> QED BY <1>1, InvAlways, PTL

\* The heap and the dictionary hold the same objects, each once, with the same time:
\* clean() never pops what is not in _times.
THEOREM HeapAndTimesAgree == DebouncerSpec => []TrackedOnce
<1>1. DebouncerInv => TrackedOnce
  BY TracksIsTrackedOnce DEF DebouncerInv, DebouncerTypeOK
<1> QED BY <1>1, InvAlways, PTL

\* No packet passes a second time within its window, however the heap is arranged and
\* whatever was taken from its end.
THEOREM NothingPassesTwice == DebouncerSpec => DuplicatesHeldBack
<1> DEFINE Step == \A o \in Objects : passed'[o] # passed[o] => now > passed[o]
<1>1. DebouncerInv /\ [DebouncerNext]_debouncerVars => [Step]_debouncerVars
  <2> SUFFICES ASSUME DebouncerInv, DebouncerNext,
                      NEW o \in Objects, passed'[o] # passed[o]
               PROVE  now > passed[o]
    OBVIOUS
  <2>0. now \in Nat /\ passed \in [Objects -> Nat]
    BY DEF DebouncerInv, DebouncerTypeOK
  <2>1. PICK obj \in Objects, window \in Windows : LetPass(obj, window)
    BY DEF DebouncerNext, Filter, HoldBack, Clean, Tick
  <2>2. o = obj /\ o \notin DOMAIN TimesLeft
    BY <2>0, <2>1 DEF LetPass, Remembered
  <2>3. ~(passed[o] >= now)
    BY <2>2, CleanedInv
  <2> QED BY <2>0, <2>3
<1> QED BY <1>1, InvAlways, PTL DEF DebouncerSpec, DuplicatesHeldBack

-----------------------------------------------------------------------------
(* That filter() does not raise.  It is the counter that tells entries     *)
(* apart, and it starts again at every reading of the clock: the times of  *)
(* the entries tell those of two readings apart only if the window is      *)
(* always the same, as PACKET_DEBOUNCE_WINDOW is.                          *)

\* The entries are no newer than the latest call, and no two are equal.
Apart(q, newest, count) ==
  /\ \A i \in 1 .. Len(q) : /\ q[i].at <= newest
                            /\ q[i].at = newest => q[i].dedup <= count
  /\ \A i, j \in 1 .. Len(q) : q[i].at = q[j].at /\ q[i].dedup = q[j].dedup => i = j

ApartInv(window) == Apart(queue, lastTime + window, dedup)

\* Time has passed, or the counter has gone up: the old entries are older yet.
LEMMA StillApart ==
  ASSUME NEW q \in Seq(Entry), NEW newest \in Nat, NEW count \in Nat,
         NEW later \in Nat, NEW more \in Nat, Apart(q, newest, count),
         newest < later \/ (newest = later /\ count <= more)
  PROVE  Apart(q, later, more)
<1>1. \A i \in 1 .. Len(q) : q[i] \in Entry
  OBVIOUS
<1>2. \A i \in 1 .. Len(q) : q[i].at \in Nat /\ q[i].dedup \in Nat
  BY <1>1, BoundsAreNaturals DEF Entry
<1> QED BY <1>2 DEF Apart

LEMMA CleanedApart ==
  ASSUME DebouncerInv, NEW window, ApartInv(window)
  PROVE  Apart(Cleaned, lastTime + window, dedup)
<1>1. queue \in Seq(Entry) /\ now \in Nat /\ Tracks(queue, times)
  BY DEF DebouncerInv, DebouncerTypeOK
<1>2. \A i \in 1 .. Len(Cleaned) : i \in 1 .. Len(queue) /\ Cleaned[i] = queue[i]
  BY <1>1, CleanedTracks
<1> QED BY <1>2 DEF Apart, ApartInv

LEMMA PushedApart ==
  ASSUME NEW q \in Seq(Entry), NEW x \in Entry, NEW count \in Nat,
         Apart(q, x.at, count), count < x.dedup
  PROVE  Apart(Push(q, x), x.at, x.dedup)
<1> DEFINE p == Push(q, x)
           n == Len(q) + 1
<1>0. Len(q) \in Nat /\ Len(p) = n
  BY PushKeepsEntries
<1>1. PICK from \in [1 .. n -> 0 .. Len(q)] :
        /\ \A i \in 1 .. n : p[i] = IF from[i] = 0 THEN x ELSE q[from[i]]
        /\ \A i, j \in 1 .. n : from[i] = from[j] => i = j
        /\ \A k \in 0 .. Len(q) : \E i \in 1 .. n : from[i] = k
  BY PushKeepsEntries
<1> HIDE DEF p
<1>2. x.at \in Nat /\ x.dedup \in Nat
  BY BoundsAreNaturals DEF Entry
<1>3. \A k \in 1 .. Len(q) : q[k] \in Entry
  OBVIOUS
<1>4. \A k \in 1 .. Len(q) : q[k].at \in Nat /\ q[k].dedup \in Nat
  BY <1>3, BoundsAreNaturals DEF Entry
<1>5. \A k \in 1 .. Len(q) : /\ q[k].at <= x.at
                             /\ q[k].at = x.at => q[k].dedup < x.dedup
  BY <1>2, <1>4 DEF Apart
<1>6. ASSUME NEW i \in 1 .. n
      PROVE  \/ from[i] = 0 /\ p[i] = x
             \/ from[i] \in 1 .. Len(q) /\ p[i] = q[from[i]]
  <2>1. from[i] \in 0 .. Len(q) /\ p[i] = IF from[i] = 0 THEN x ELSE q[from[i]]
    BY <1>1
  <2> QED BY <1>0, <2>1
<1>7. ASSUME NEW i \in 1 .. n
      PROVE  /\ p[i].at <= x.at
             /\ p[i].at = x.at => p[i].dedup <= x.dedup
  <2>1. CASE from[i] = 0 /\ p[i] = x
    BY <1>2, <2>1
  <2>2. CASE from[i] \in 1 .. Len(q) /\ p[i] = q[from[i]]
    BY <1>2, <1>4, <1>5, <2>2
  <2> QED BY <1>6, <2>1, <2>2
<1>8. ASSUME NEW i \in 1 .. n, NEW j \in 1 .. n,
             p[i].at = p[j].at, p[i].dedup = p[j].dedup
      PROVE  i = j
  <2>1. \A k, l \in 1 .. Len(q) : q[k].at = q[l].at /\ q[k].dedup = q[l].dedup => k = l
    BY DEF Apart
  <2>2. \A k \in 1 .. Len(q) : ~(q[k].at = x.at /\ q[k].dedup = x.dedup)
    BY <1>2, <1>4, <1>5
  <2>3. /\ (from[i] = 0 /\ p[i] = x) \/ (from[i] \in 1 .. Len(q) /\ p[i] = q[from[i]])
        /\ (from[j] = 0 /\ p[j] = x) \/ (from[j] \in 1 .. Len(q) /\ p[j] = q[from[j]])
    BY <1>6
  <2>4. from[i] = from[j]
    BY <1>8, <2>1, <2>2, <2>3
  <2> QED BY <1>1, <2>4
<1>9. Apart(p, x.at, x.dedup)
  BY <1>0, <1>7, <1>8 DEF Apart
<1> QED BY <1>9 DEF p

LEMMA ApartKept ==
  ASSUME NEW window \in Nat, Windows = {window},
         DebouncerInv, ApartInv(window), [DebouncerNext]_debouncerVars
  PROVE  ApartInv(window)'
<1>0. /\ now \in Nat /\ lastTime \in 0 .. now /\ dedup \in 0 .. MaxCalls
      /\ queue \in Seq(Entry)
  BY DEF DebouncerInv, DebouncerTypeOK
<1>1. Apart(Cleaned, lastTime + window, dedup) /\ Cleaned \in Seq(Entry)
  BY CleanedApart, CleanedInv
<1>2. ASSUME NEW obj \in Objects, Filter(obj, window)
      PROVE  ApartInv(window)'
  <2>1. /\ lastTime' = now
        /\ dedup' = Dedup /\ Dedup \in 1 .. MaxCalls
    BY <1>0, <1>2, BoundsAreNaturals DEF Filter, Dedup
  <2>2. Apart(Cleaned, now + window, Dedup - 1)
    <3>1. lastTime < now \/ (lastTime = now /\ dedup = Dedup - 1)
      BY <1>0 DEF Dedup
    <3>2. /\ lastTime + window \in Nat /\ now + window \in Nat
          /\ dedup \in Nat /\ Dedup - 1 \in Nat
          /\ \/ lastTime + window < now + window
             \/ (lastTime + window = now + window /\ dedup <= Dedup - 1)
      BY <1>0, <2>1, <3>1, BoundsAreNaturals
    <3> HIDE DEF Dedup
    <3> QED BY <1>1, <3>2, StillApart
  <2>3. CASE HoldBack(obj)
    <3>1. Apart(Cleaned, now + window, Dedup)
      <4>1. now + window \in Nat /\ Dedup - 1 \in Nat /\ Dedup \in Nat /\ Dedup - 1 <= Dedup
        BY <1>0, <2>1, BoundsAreNaturals
      <4> QED BY <1>1, <2>2, <4>1, StillApart
    <3>2. queue' = Cleaned
      BY <2>3 DEF HoldBack
    <3> QED BY <2>1, <3>1, <3>2 DEF ApartInv
  <2>4. CASE LetPass(obj, window)
    <3> DEFINE x == [at |-> now + window, dedup |-> Dedup, obj |-> obj]
    <3>1. x \in Entry /\ x.at = now + window /\ x.dedup = Dedup
      BY <1>0, <2>1 DEF Entry
    <3>2. queue' = Push(Cleaned, x)
      BY <2>4 DEF LetPass
    <3>3. Dedup - 1 \in Nat /\ Dedup - 1 < x.dedup
      BY <2>1, <3>1, BoundsAreNaturals
    <3> HIDE DEF x
    <3>4. Apart(Push(Cleaned, x), x.at, x.dedup)
      BY <1>1, <2>2, <3>1, <3>3, PushedApart
    <3> QED BY <2>1, <3>1, <3>2, <3>4 DEF ApartInv
  <2> QED BY <1>2, <2>3, <2>4 DEF Filter
<1>3. CASE Clean
  BY <1>1, <1>3 DEF Clean, ApartInv
<1>4. CASE Tick
  BY <1>4 DEF Tick, ApartInv
<1>5. CASE UNCHANGED debouncerVars
  BY <1>5 DEF debouncerVars, ApartInv
<1> QED BY <1>2, <1>3, <1>4, <1>5 DEF DebouncerNext

\* With one window, filter() never raises: clean() finds in the dictionary
\* what it pops from the heap, and the heap never compares two objects, which
\* have no order.
THEOREM FilterIsSafe ==
  ASSUME NEW window \in Nat, Windows = {window}
  PROVE  DebouncerSpec => []FilterNeverRaises
<1>1. DebouncerInit => ApartInv(window)
  BY DEF DebouncerInit, ApartInv, Apart
<1>2. DebouncerInv /\ ApartInv(window) /\ [DebouncerNext]_debouncerVars => ApartInv(window)'
  BY ApartKept
<1>3. DebouncerInv /\ ApartInv(window) => FilterNeverRaises
  <2> SUFFICES ASSUME DebouncerInv, ApartInv(window)
               PROVE  FilterNeverRaises
    OBVIOUS
  <2>1. queue \in Seq(Entry) /\ Tracks(queue, times)
    BY DEF DebouncerInv, DebouncerTypeOK
  <2>2. TrackedOnce
    BY <2>1, TracksIsTrackedOnce
  <2>3. DOMAIN queue = 1 .. Len(queue)
    BY <2>1
  <2>4. NeverCompared
    BY <2>3 DEF ApartInv, Apart, NeverCompared
  <2> QED BY <2>2, <2>4 DEF FilterNeverRaises
<1> QED BY <1>1, <1>2, <1>3, InvAtStart, InvKept, PTL DEF DebouncerSpec
=============================================================================
