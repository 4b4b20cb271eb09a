-------------------------- MODULE BackgroundTasks --------------------------
(***************************************************************************)
(* The tasks that ControllerApplication starts and stops                   *)
(* (zigpy/application.py): the watchdog, the periodic backups              *)
(* (zigpy/backups.py), the periodic broadcasts (zigpy/ota/__init__.py) and *)
(* the topology scans, scheduled and by hand (zigpy/topology.py).          *)
(***************************************************************************)
EXTENDS Integers, FiniteSets

CONSTANTS
  MaxScans,     \* bound: the scans that are started
  MaxLoops      \* bound: the calls of start_periodic_scans

ASSUME ScanBounds == MaxScans \in Nat /\ MaxLoops \in Nat

Scans == 1 .. MaxScans
ScanLoops == 1 .. MaxLoops
Workers == {"watchdog", "backups", "broadcasts"}

VARIABLES
  startup,      \* "none", "connecting", "initializing", "done", "failed" or
                \* "cancelled"
  shutdown,     \* "none", "disconnecting" or "done"
  worker,       \* per simple loop: "none", "running" or "ended"
  scanLoop,     \* per scan loop: "none", "asleep", "scanning" or "ended"
  awaits,       \* per scan loop: the scan it awaits
  scan,         \* per scan: "none", "running", "cancelling" or "done"
  scanTask,     \* _scan_task, 0 for None
  byHand,       \* history: the scans that were not started by a loop
  stopped       \* history: the scan loops that stop_periodic_scans has cancelled

taskVars == <<startup, shutdown, worker, scanLoop, awaits, scan, scanTask, byHand, stopped>>
scanVars == <<scanLoop, awaits, scan, scanTask, byHand, stopped>>

TasksInit ==
  /\ startup = "none"
  /\ shutdown = "none"
  /\ worker = [w \in Workers |-> "none"]
  /\ scanLoop = [l \in ScanLoops |-> "none"]
  /\ awaits = [l \in ScanLoops |-> 0]
  /\ scan = [s \in Scans |-> "none"]
  /\ scanTask = 0
  /\ byHand = {}
  /\ stopped = {}

LastLoop == Cardinality({l \in ScanLoops : scanLoop[l] # "none"})
LastScan == Cardinality({s \in Scans : scan[s] # "none"})
ScanUnderWay == scanTask # 0 /\ scan[scanTask] # "done"

-----------------------------------------------------------------------------
(* zigpy.topology.                                                         *)

\* Mutant of ScanStarted: the old task is left to itself.
ScanStartedBeside ==
  [s \in Scans |-> IF s = LastScan + 1 THEN "running" ELSE scan[s]]

\* scan(): the task that is under way is cancelled, and a new one takes its
\* place in _scan_task.
ScanStarted ==
  [s \in Scans |-> IF s = LastScan + 1 THEN "running"
                   ELSE IF s = scanTask /\ scan[s] = "running" THEN "cancelling"
                   ELSE scan[s]]

ScanByHand ==
  /\ LastScan < MaxScans
  /\ scan' = ScanStarted
  /\ scanTask' = LastScan + 1
  /\ byHand' = byHand \cup {LastScan + 1}
  /\ UNCHANGED <<startup, shutdown, worker, scanLoop, awaits, stopped>>

\* Mutant of LoopScans: the loop does not look whether a scan is under way.
LoopScansAnyway(l) ==
  /\ scanLoop[l] = "asleep"
  /\ LastScan < MaxScans
  /\ scan' = ScanStarted
  /\ scanTask' = LastScan + 1
  /\ scanLoop' = [scanLoop EXCEPT ![l] = "scanning"]
  /\ awaits' = [awaits EXCEPT ![l] = LastScan + 1]
  /\ UNCHANGED <<startup, shutdown, worker, byHand, stopped>>

\* The loop wakes up and starts a scan unless one is under way: then it goes
\* back to sleep, which is no step here.
LoopScans(l) ==
  /\ scanLoop[l] = "asleep"
  /\ ~ScanUnderWay
  /\ LastScan < MaxScans
  /\ scan' = ScanStarted
  /\ scanTask' = LastScan + 1
  /\ scanLoop' = [scanLoop EXCEPT ![l] = "scanning"]
  /\ awaits' = [awaits EXCEPT ![l] = LastScan + 1]
  /\ UNCHANGED <<startup, shutdown, worker, byHand, stopped>>

\* The scan has come to its end, or gets the CancelledError, which nothing in
\* _scan catches.
ScanEnds(s) ==
  /\ scan[s] \in {"running", "cancelling"}
  /\ scan' = [scan EXCEPT ![s] = "done"]
  /\ UNCHANGED <<startup, shutdown, worker, scanLoop, awaits, scanTask, byHand, stopped>>

\* The loop goes on behind `await self.scan()' whether the scan was finished,
\* failed or was cancelled, and even when the loop itself was cancelled.
LoopResumes(l) ==
  /\ scanLoop[l] = "scanning"
  /\ scan[awaits[l]] = "done"
  /\ scanLoop' = [scanLoop EXCEPT ![l] = "asleep"]
  /\ UNCHANGED <<startup, shutdown, worker, awaits, scan, scanTask, byHand, stopped>>

\* _scan_loop_task.cancel(), which knows of the latest loop only.  It ends a loop
\* that is asleep; of one that scans it cancels the scan.
LoopsAfterStop ==
  [l \in ScanLoops |-> IF l = LastLoop /\ scanLoop[l] = "asleep" THEN "ended"
                       ELSE scanLoop[l]]
ScansAfterStop ==
  [s \in Scans |-> IF /\ scan[s] = "running" /\ LastLoop > 0
                      /\ scanLoop[LastLoop] = "scanning" /\ awaits[LastLoop] = s
                   THEN "cancelling" ELSE scan[s]]
StoppedAfterStop == IF LastLoop = 0 THEN stopped ELSE stopped \cup {LastLoop}

StopPeriodicScans ==
  /\ scanLoop' = LoopsAfterStop
  /\ scan' = ScansAfterStop
  /\ stopped' = StoppedAfterStop
  /\ UNCHANGED <<startup, shutdown, worker, awaits, scanTask, byHand>>

\* start_periodic_scans: the old loop is stopped and a new one started.
Restarted ==
  /\ LastLoop < MaxLoops
  /\ scanLoop' = [LoopsAfterStop EXCEPT ![LastLoop + 1] = "asleep"]
  /\ scan' = ScansAfterStop
  /\ stopped' = StoppedAfterStop
  /\ UNCHANGED <<awaits, scanTask, byHand>>

StartPeriodicScans ==
  /\ Restarted
  /\ UNCHANGED <<startup, shutdown, worker>>

-----------------------------------------------------------------------------
(* zigpy.application: startup() and initialize() in one task, shutdown()    *)
(* in another one or at the end of a startup that fails.                    *)

Startup ==
  /\ startup = "none"
  /\ startup' = "connecting"
  /\ UNCHANGED <<shutdown, worker, scanVars>>

\* The radio is connected and the watchdog was fed.
StartWatchdog ==
  /\ startup = "connecting"
  /\ startup' = "initializing"
  /\ worker' = [worker EXCEPT !["watchdog"] = "running"]
  /\ UNCHANGED <<shutdown, scanVars>>

\* The end of initialize(), whatever happened since it last looked.
Initialized ==
  /\ startup = "initializing"
  /\ startup' = "done"
  /\ worker' = [worker EXCEPT !["backups"] = "running", !["broadcasts"] = "running"]
  /\ Restarted
  /\ UNCHANGED shutdown

\* Mutant of StopTasks: only what initialize() starts at its end is stopped.
StopTasksButWatchdog ==
  /\ worker' = [w \in Workers |-> IF worker[w] = "running" /\ w # "watchdog"
                                  THEN "ended" ELSE worker[w]]
  /\ scanLoop' = LoopsAfterStop
  /\ scan' = ScansAfterStop
  /\ stopped' = StoppedAfterStop
  /\ UNCHANGED <<awaits, scanTask, byHand>>

\* The part of shutdown() before its first await.
StopTasks ==
  /\ worker' = [w \in Workers |-> IF worker[w] = "running" THEN "ended" ELSE worker[w]]
  /\ scanLoop' = LoopsAfterStop
  /\ scan' = ScansAfterStop
  /\ stopped' = StoppedAfterStop
  /\ UNCHANGED <<awaits, scanTask, byHand>>

\* Anything in connect() or initialize() raises an Exception: startup() shuts
\* down.
StartupFails ==
  /\ startup \in {"connecting", "initializing"}
  /\ startup' = "failed"
  /\ shutdown' = "disconnecting"
  /\ StopTasks

\* CancelledError is no Exception: nothing is shut down.
StartupCancelled ==
  /\ startup \in {"connecting", "initializing"}
  /\ startup' = "cancelled"
  /\ UNCHANGED <<shutdown, worker, scanVars>>

\* shutdown() is called by another task, at any time.
Shutdown ==
  /\ startup # "none"
  /\ shutdown' = "disconnecting"
  /\ StopTasks
  /\ UNCHANGED startup

\* disconnect() has returned or raised.
Disconnected ==
  /\ shutdown = "disconnecting"
  /\ shutdown' = "done"
  /\ UNCHANGED <<startup, worker, scanVars>>

\* The watchdog fails: connection_lost() tells the listeners, and its loop ends.
WatchdogFails ==
  /\ worker["watchdog"] = "running"
  /\ worker' = [worker EXCEPT !["watchdog"] = "ended"]
  /\ UNCHANGED <<startup, shutdown, scanVars>>

TasksNext ==
  \/ ScanByHand \/ StopPeriodicScans \/ StartPeriodicScans
  \/ \E l \in ScanLoops : LoopScans(l) \/ LoopResumes(l)
  \/ \E s \in Scans : ScanEnds(s)
  \/ Startup \/ StartWatchdog \/ Initialized \/ StartupFails \/ StartupCancelled
  \/ Shutdown \/ Disconnected \/ WatchdogFails

TasksSpec == TasksInit /\ [][TasksNext]_taskVars

-----------------------------------------------------------------------------
(* Properties.                                                             *)

TasksTypeOK ==
  /\ startup \in {"none", "connecting", "initializing", "done", "failed", "cancelled"}
  /\ shutdown \in {"none", "disconnecting", "done"}
  /\ worker \in [Workers -> {"none", "running", "ended"}]
  /\ scanLoop \in [ScanLoops -> {"none", "asleep", "scanning", "ended"}]
  /\ awaits \in [ScanLoops -> 0 .. MaxScans]
  /\ scan \in [Scans -> {"none", "running", "cancelling", "done"}]
  /\ scanTask \in 0 .. MaxScans
  /\ byHand \subseteq Scans
  /\ stopped \subseteq ScanLoops

\* At most one scan is running, however many loops and callers there are: the
\* others are about to get their CancelledError.
OneScanAtATime ==
  \A s, r \in Scans : scan[s] = "running" /\ scan[r] = "running" => s = r

\* A scan that was started by hand is cancelled only for another one that was
\* started by hand: no loop preempts it, and stopping a loop does not reach it.
ManualScanStands ==
  [][\A s \in byHand : scan[s] = "running" /\ scan'[s] = "cancelling" =>
       scanTask' # scanTask /\ scanTask' \in byHand']_taskVars

\* A startup that has failed leaves none of the simple loops running, however
\* far it had come and whoever else shut down meanwhile.  (One that was
\* cancelled does leave its watchdog, and one that outlives a shutdown goes on
\* to start everything.)
FailedStartupIsStopped ==
  startup = "failed" => \A w \in Workers : worker[w] # "running"

\* test_scan_start_concurrent says of stop_periodic_scans that all of the tasks
\* have been stopped: a loop that was stopped starts no other scan.
StopStops ==
  [][\A l \in stopped : scanLoop[l] = "asleep" => scanLoop'[l] # "scanning"]_taskVars
=============================================================================
