--------------------------- MODULE FirmwareUpdate ---------------------------
(***************************************************************************)
(* The firmware updates of one device: Device.update_firmware              *)
(* (zigpy/device.py), OTAManager (zigpy/ota/manager.py), its               *)
(* ReschedulableTimeout (zigpy/datastructures.py) and the callback         *)
(* listeners that start a handler for each frame (zigpy/listeners.py).     *)
(*                                                                         *)
(* Updates are numbered 1, 2, ...; each has a manager of its own, whose    *)
(* handlers and timer live on after update_firmware has returned.  Times   *)
(* are the time that is left, so that the clock needs no bound.            *)
(***************************************************************************)
EXTENDS Integers

CONSTANTS
  MaxUpdates,   \* bound: the updates that are started
  MaxFrames,    \* bound: the frames the device sends; it stops asking some day
  StallTime     \* MAX_TIME_WITHOUT_PROGRESS, 30 seconds in the code

ASSUME UpdateBounds == MaxUpdates \in Nat /\ MaxFrames \in Nat
ASSUME StallTimeIsPositive == StallTime \in Nat \ {0}

Updates == 1 .. MaxUpdates
Off == -1       \* no TimerHandle

VARIABLES
  latest,       \* the number of the latest update
  phase,        \* of update_firmware: "idle", "notifying" or "waiting"
  outcome,      \* per update: _upgrade_end_future
  timerIn,      \* per update: when its TimerHandle is due, or Off
  whenIn,       \* per update: the time that is left until _when
  quiet,        \* history: the time since the timer was last rescheduled
  handlers,     \* the handler tasks that await the response they send
  frames        \* the frames the device has sent

updateVars == <<latest, phase, outcome, timerIn, whenIn, quiet, handlers, frames>>

UpdateInit ==
  /\ latest = 0
  /\ phase = "idle"
  /\ outcome = [u \in Updates |-> "none"]
  /\ timerIn = [u \in Updates |-> Off]
  /\ whenIn = [u \in Updates |-> 0]
  /\ quiet = [u \in Updates |-> 0]
  /\ handlers = {}
  /\ frames = 0

-----------------------------------------------------------------------------
\* OTAManager._finish: the timer is cancelled, and the first outcome stands.
Ends(u, status) ==
  /\ outcome' = [outcome EXCEPT ![u] = IF @ = "none" THEN status ELSE @]
  /\ timerIn' = [timerIn EXCEPT ![u] = Off]
  /\ UNCHANGED <<whenIn, quiet>>

\* ReschedulableTimeout.reschedule: a handle that is due earlier is left alone.
Reschedule(u) ==
  /\ whenIn' = [whenIn EXCEPT ![u] = StallTime]
  /\ quiet' = [quiet EXCEPT ![u] = 0]
  /\ timerIn' = [timerIn EXCEPT ![u] = IF @ = Off \/ @ > StallTime THEN StallTime ELSE @]
  /\ UNCHANGED outcome

\* Mutant of TimeoutTrigger: a handle that fires early is taken at its word.
TimeoutTriggerEarly(u) ==
  /\ timerIn[u] = 0
  /\ Ends(u, "timeout")
  /\ UNCHANGED <<latest, phase, handlers, frames>>

\* ReschedulableTimeout._timeout_trigger, with _stall_callback.
TimeoutTrigger(u) ==
  /\ timerIn[u] = 0
  /\ IF whenIn[u] > 0
     THEN /\ timerIn' = [timerIn EXCEPT ![u] = whenIn[u]]
          /\ UNCHANGED <<outcome, whenIn, quiet>>
     ELSE Ends(u, "timeout")
  /\ UNCHANGED <<latest, phase, handlers, frames>>

\* Time passes; what is due is called first.
UpdateTick ==
  /\ \A u \in Updates : timerIn[u] # 0
  /\ \E u \in Updates : timerIn[u] > 0
  /\ timerIn' = [u \in Updates |-> IF timerIn[u] = Off THEN Off ELSE timerIn[u] - 1]
  /\ whenIn' = [u \in Updates |-> IF whenIn[u] = 0 THEN 0 ELSE whenIn[u] - 1]
  /\ quiet' = [u \in Updates |-> IF quiet[u] < StallTime THEN quiet[u] + 1 ELSE StallTime]
  /\ UNCHANGED <<latest, phase, outcome, handlers, frames>>

-----------------------------------------------------------------------------
(* Device.update_firmware and ota.manager.update_firmware.                 *)

\* ota_in_progress lets one in at a time; __enter__ registers the listeners.
StartUpdate ==
  /\ phase = "idle"
  /\ latest < MaxUpdates
  /\ latest' = latest + 1
  /\ phase' = "notifying"
  /\ UNCHANGED <<outcome, timerIn, whenIn, quiet, handlers, frames>>

\* Mutant of Notified: the timer is left to the first block.
NotifiedUntimed ==
  /\ phase = "notifying"
  /\ phase' = "waiting"
  /\ UNCHANGED <<latest, outcome, timerIn, whenIn, quiet, handlers, frames>>

\* notify(): image_notify was sent, and may have been answered meanwhile.
Notified ==
  /\ phase = "notifying"
  /\ phase' = "waiting"
  /\ Reschedule(latest)
  /\ UNCHANGED <<latest, handlers, frames>>

NotifyFailed ==
  /\ phase = "notifying"
  /\ phase' = "waiting"
  /\ Ends(latest, "failure")
  /\ UNCHANGED <<latest, handlers, frames>>

\* wait() returns, the listeners are removed and ota_in_progress is reset.
\* The handlers that have started are not stopped.  (After a success the cached
\* file version is cleared and read again: see AttributeCache.)
UpdateReturns ==
  /\ phase = "waiting"
  /\ outcome[latest] # "none"
  /\ phase' = "idle"
  /\ UNCHANGED <<latest, outcome, timerIn, whenIn, quiet, handlers, frames>>

\* The caller is cancelled, and with it the future it awaits, if any.
UpdateCancelled ==
  /\ phase # "idle"
  /\ phase' = "idle"
  /\ outcome' = [outcome EXCEPT ![latest] = IF phase = "waiting" /\ @ = "none"
                                            THEN "cancelled" ELSE @]
  /\ UNCHANGED <<latest, timerIn, whenIn, quiet, handlers, frames>>

-----------------------------------------------------------------------------
(* The handlers.                                                           *)

\* What the device may ask, and what its answer makes of the update: a query
\* for which the image is right or wrong, a block inside or beyond the image,
\* and the end of the update, successful or not.
Queries == {"query", "query_unsuitable"}
Blocks == {"block", "block_beyond"}
UpgradeEnds == {"end_success", "end_abort"}

\* A frame comes in while the listeners are registered: the handler starts
\* and awaits the response it sends.
FrameReceived(kind) ==
  /\ phase # "idle"
  /\ frames < MaxFrames
  /\ frames' = frames + 1
  /\ handlers' = handlers \cup {[update |-> latest, kind |-> kind]}
  /\ UNCHANGED <<latest, phase, outcome, timerIn, whenIn, quiet>>

Untouched == UNCHANGED <<outcome, timerIn, whenIn, quiet>>

\* The response was sent.
ResponseSent(h) ==
  /\ h \in handlers
  /\ handlers' = handlers \ {h}
  /\ CASE h.kind = "query"            -> Untouched
       [] h.kind = "query_unsuitable" -> Ends(h.update, "no_image")
       [] h.kind = "block"            -> Reschedule(h.update)
       [] h.kind = "block_beyond"     -> Ends(h.update, "malformed")
       [] h.kind = "end_success"      -> Ends(h.update, "success")
       [] h.kind = "end_abort"        -> Ends(h.update, "abort")
  /\ UNCHANGED <<latest, phase, frames>>

\* The response could not be sent, or progress_callback raised.
ResponseFailed(h) ==
  /\ h \in handlers
  /\ handlers' = handlers \ {h}
  /\ Ends(h.update, IF h.kind = "block_beyond" THEN "malformed" ELSE "failure")
  /\ UNCHANGED <<latest, phase, frames>>

HandlerStep(h) == ResponseSent(h) \/ ResponseFailed(h)

UpdateNext ==
  \/ StartUpdate \/ Notified \/ NotifyFailed \/ UpdateReturns \/ UpdateCancelled
  \/ \E kind \in Queries \cup Blocks \cup UpgradeEnds : FrameReceived(kind)
  \/ \E h \in handlers : HandlerStep(h)
  \/ \E u \in Updates : TimeoutTrigger(u)
  \/ UpdateTick

UpdateSpec == UpdateInit /\ [][UpdateNext]_updateVars

\* Sending returns or raises, a task that can resume does, and time passes.
UpdateFairness ==
  /\ WF_updateVars(Notified \/ NotifyFailed)
  /\ WF_updateVars(UpdateReturns)
  /\ WF_updateVars(UpdateTick)
  /\ \A u \in Updates : WF_updateVars(TimeoutTrigger(u))

-----------------------------------------------------------------------------
(* Properties.                                                             *)

Handler == [update : Updates, kind : Queries \cup Blocks \cup UpgradeEnds]
Outcomes == {"none", "timeout", "failure", "cancelled", "no_image", "malformed",
             "success", "abort"}

UpdateTypeOK ==
  /\ latest \in 0 .. MaxUpdates
  /\ phase \in {"idle", "notifying", "waiting"}
  /\ outcome \in [Updates -> Outcomes]
  /\ timerIn \in [Updates -> {Off} \cup 0 .. StallTime]
  /\ whenIn \in [Updates -> 0 .. StallTime]
  /\ quiet \in [Updates -> 0 .. StallTime]
  /\ handlers \subseteq Handler
  /\ frames \in 0 .. MaxFrames

\* An update stalls only when nothing was served for the whole stall time,
\* although the handle that fires may have been set for an earlier time, and
\* although late handlers of a finished update go on setting its timer.
NoEarlyTimeout ==
  [][\A u \in Updates :
       outcome[u] # "timeout" /\ outcome'[u] = "timeout" => quiet[u] = StallTime]_updateVars

\* Every update returns: the device finishes it, or goes silent and the timer
\* ends it.  (A device that asks for ever keeps it going for ever.)
UpdateEnds == phase # "idle" ~> phase = "idle"
=============================================================================
