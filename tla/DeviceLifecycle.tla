-------------------------- MODULE DeviceLifecycle --------------------------
(***************************************************************************)
(* One Zigbee device in the application: how it joins, is initialized, is  *)
(* announced to the listeners, replaced by its quirk, re-addressed and     *)
(* removed (ControllerApplication.handle_join, packet_received,            *)
(* device_initialized, remove; Device.schedule_initialize, _initialize),   *)
(* and what the database keeps of it (PersistingListener).                 *)
(*                                                                         *)
(* `devices' maps the device's IEEE address to a Device object.  There may *)
(* be several objects for one device: a quirk replaces the object it is    *)
(* made from, and a device that joins after its removal gets a new one.    *)
(* Tasks go on with the object they were started for, so every object has  *)
(* a number here.  The requests of an initialization may succeed or fail   *)
(* at any time; DeviceRequests is about how they are made.                 *)
(***************************************************************************)
EXTENDS Integers, Sequences

CONSTANTS
  Nwks,         \* network addresses of the device
  MaxTries,     \* the `tries' of _initialize, 5 in the code
  MaxObjects,   \* bound: Device objects ever made
  MaxCalls      \* bound: joins, removals and restarts

ASSUME TriesArePositive == MaxTries \in Nat \ {0}
ASSUME BoundsAreNaturals == MaxObjects \in Nat /\ MaxCalls \in Nat

VARIABLES
  objects,    \* the Device objects in the order in which they were made
  dev,        \* devices[ieee], the number of an object, or 0
  removals,   \* the _remove_device tasks that have not ended
  unpopped,   \* history: the last of them to end did not get to devices.pop
  told,       \* the last event the listeners got about the device
  queue,      \* _callback_handlers of the database listener
  row,        \* what is committed to the database
  hasQuirk,   \* whether a quirk matches: "never", "model" when the
              \* model is known, "always" when the endpoints are
  address,    \* history: the address in the latest join
  astray,     \* history: an initialization was scheduled while the device was
              \* being removed, or skipped while another one was still at work
  calls       \* bound

lifecycleVars ==
  <<objects, dev, removals, unpopped, told, queue, row, hasQuirk, address, astray, calls>>

-----------------------------------------------------------------------------
\* progress: 0 nothing, 1 node descriptor, 2 endpoints, 3 their descriptors.
\* asked: the model and the manufacturer have been read.
NewObject(nwk) ==
  [nwk |-> nwk, progress |-> 0, asked |-> FALSE, quirk |-> FALSE,
   task |-> "idle", tries |-> 0]

\* is_initialized does not ask for the model.
IsInitialized(object) == object.progress = 3
Initializing(object) == object.task # "idle"

\* Mutant of Matches: get_device does not look whether it has a quirk already.
MatchesAgain(object) == hasQuirk = "always" \/ (hasQuirk = "model" /\ object.asked)

\* zigpy.quirks.get_device makes a new object unless this is a quirk already.
Matches(object) ==
  /\ ~object.quirk
  /\ hasQuirk = "always" \/ (hasQuirk = "model" /\ object.asked)

Nowhere == 0
NoRow == [present |-> FALSE, nwk |-> Nowhere, complete |-> FALSE, asked |-> FALSE]

SaveNwk(nwk)    == [op |-> "nwk", of |-> 0, nwk |-> nwk]
SaveDevice(o)   == [op |-> "save", of |-> o, nwk |-> Nowhere]
DeleteDevice    == [op |-> "delete", of |-> 0, nwk |-> Nowhere]

LifecycleInit ==
  /\ objects = <<>>
  /\ dev = 0
  /\ removals = 0
  /\ unpopped = FALSE
  /\ told = "none"
  /\ queue = <<>>
  /\ row = NoRow
  /\ hasQuirk \in {"never", "model", "always"}
  /\ address = Nowhere
  /\ astray = FALSE
  /\ calls = 0

Call == calls < MaxCalls /\ calls' = calls + 1

-----------------------------------------------------------------------------
(* device_initialized, given the objects and the queue as they are when it *)
(* is called: raw_device_initialized goes to the database, the quirk takes *)
(* the place of the object, and the listeners get device_initialized.      *)
DeviceInitialized(o, objs, ops) ==
  /\ queue' = Append(ops, SaveDevice(o))
  /\ IF Matches(objs[o])
     THEN /\ Len(objs) < MaxObjects
          /\ objects' = Append(objs, [objs[o] EXCEPT !.quirk = TRUE, !.task = "idle"])
          /\ dev' = Len(objs) + 1
     ELSE objects' = objs /\ dev' = o
  /\ told' = "initialized"

\* schedule_initialize: an initialized device is announced at once, whatever
\* task is at work for it; otherwise a new task takes the place of the old one.
ScheduleInitialize(o, objs, ops, event) ==
  /\ astray' = (astray \/ removals > 0
                \/ (IsInitialized(objs[o]) /\ objs[o].task = "running"))
  /\ IF IsInitialized(objs[o])
     THEN DeviceInitialized(o, objs, ops)
     ELSE /\ objects' = [objs EXCEPT ![o] = [@ EXCEPT !.task = "running", !.tries = MaxTries]]
          /\ dev' = o
          /\ queue' = ops
          /\ told' = event
  /\ UNCHANGED <<removals, unpopped, row, hasQuirk>>

\* handle_join for a device that is not in `devices'.
JoinNew(nwk) ==
  /\ Call
  /\ dev = 0
  /\ Len(objects) < MaxObjects
  /\ address' = nwk
  /\ ScheduleInitialize(Len(objects) + 1, Append(objects, NewObject(nwk)),
                        Append(queue, SaveNwk(nwk)), "joined")

\* Mutant of JoinMoved: the object keeps the address it has.
JoinMovedKeepsAddress(nwk) ==
  /\ Call
  /\ dev # 0
  /\ objects[dev].nwk # nwk
  /\ address' = nwk
  /\ ScheduleInitialize(dev, objects, Append(queue, SaveNwk(nwk)), "joined")

\* handle_join for a known device under another address.
JoinMoved(nwk) ==
  /\ Call
  /\ dev # 0
  /\ objects[dev].nwk # nwk
  /\ address' = nwk
  /\ ScheduleInitialize(dev, [objects EXCEPT ![dev].nwk = nwk],
                        Append(queue, SaveNwk(nwk)), "joined")

\* handle_join for a known device under the same address that is not
\* initialized.  If it is, only its groups are scanned.
JoinAgain ==
  /\ Call
  /\ dev # 0
  /\ ~IsInitialized(objects[dev])
  /\ UNCHANGED address
  /\ ScheduleInitialize(dev, objects, queue, told)

\* packet_received for a device that is not initialized.  Every branch of it
\* schedules an initialization unless there is one.
PacketReceived ==
  /\ dev # 0
  /\ ~IsInitialized(objects[dev])
  /\ ~Initializing(objects[dev])
  /\ UNCHANGED <<address, calls>>
  /\ ScheduleInitialize(dev, objects, queue, told)

-----------------------------------------------------------------------------
(* The task of an object: initialize and _initialize.                      *)

\* One of the discovery requests has succeeded.
Discover(o) ==
  /\ objects[o].task = "running"
  /\ objects[o].progress < 3
  /\ objects' = [objects EXCEPT ![o].progress = @ + 1]
  /\ UNCHANGED <<dev, removals, unpopped, told, queue, row, hasQuirk, address, astray, calls>>

\* The model has been read, which is the last request.
InitializeFinishes(o) ==
  /\ objects[o].task = "running"
  /\ objects[o].progress = 3
  /\ DeviceInitialized(o, [objects EXCEPT ![o] = [@ EXCEPT !.asked = TRUE, !.task = "idle"]], queue)
  /\ UNCHANGED <<removals, unpopped, row, hasQuirk, address, astray, calls>>

\* A request has failed; what was discovered before is kept.
Retry(o) ==
  /\ objects[o].task = "running"
  /\ objects[o].tries > 1
  /\ objects' = [objects EXCEPT ![o].tries = @ - 1]
  /\ UNCHANGED <<dev, removals, unpopped, told, queue, row, hasQuirk, address, astray, calls>>

\* Mutant of GiveUp: no device_init_failure.
GiveUpSilently(o) ==
  /\ objects[o].task = "running"
  /\ objects' = [objects EXCEPT ![o].task = "idle"]
  /\ UNCHANGED <<dev, removals, unpopped, told, queue, row, hasQuirk, address, astray, calls>>

\* The last try has failed, or one of them with an unexpected exception.
GiveUp(o) ==
  /\ objects[o].task = "running"
  /\ objects' = [objects EXCEPT ![o].task = "idle"]
  /\ told' = "failed"
  /\ UNCHANGED <<dev, removals, unpopped, queue, row, hasQuirk, address, astray, calls>>

\* A cancelled task ends when the event loop resumes it.
InitializeCancelled(o) ==
  /\ objects[o].task = "cancelling"
  /\ objects' = [objects EXCEPT ![o].task = "idle"]
  /\ UNCHANGED <<dev, removals, unpopped, told, queue, row, hasQuirk, address, astray, calls>>

TaskStep(o) == Discover(o) \/ InitializeFinishes(o) \/ Retry(o) \/ GiveUp(o) \/ InitializeCancelled(o)

-----------------------------------------------------------------------------
(* Removal.                                                                *)

\* Mutant of Remove: the initialization goes on.
RemoveUncancelled ==
  /\ Call
  /\ dev # 0
  /\ removals' = removals + 1
  /\ told' = "removed"
  /\ queue' = Append(queue, DeleteDevice)
  /\ UNCHANGED <<objects, dev, unpopped, row, hasQuirk, address, astray>>

\* remove(): the initialization is cancelled, a task is started that asks the
\* device to leave, and the listeners get device_removed without waiting for it.
Remove ==
  /\ Call
  /\ dev # 0
  /\ objects' = IF Initializing(objects[dev])
                THEN [objects EXCEPT ![dev].task = "cancelling"] ELSE objects
  /\ removals' = removals + 1
  /\ told' = "removed"
  /\ queue' = Append(queue, DeleteDevice)
  /\ UNCHANGED <<dev, unpopped, row, hasQuirk, address, astray>>

\* Mutant of RemovalDone: the device is not popped when the request has failed.
RemovalKeeps ==
  /\ removals > 0
  /\ removals' = removals - 1
  /\ dev' \in {0, dev}
  /\ unpopped' = FALSE
  /\ UNCHANGED <<objects, told, queue, row, hasQuirk, address, astray, calls>>

\* _remove_device after the request to leave was answered, was not delivered
\* or timed out.
RemovalDone ==
  /\ removals > 0
  /\ removals' = removals - 1
  /\ dev' = 0
  /\ unpopped' = FALSE
  /\ UNCHANGED <<objects, told, queue, row, hasQuirk, address, astray, calls>>

\* The request has raised something else, ParsingError for instance, when the
\* device's answer cannot be parsed (Garbled in DeviceRequests): the task ends
\* in front of devices.pop.
RemovalRaises ==
  /\ removals > 0
  /\ removals' = removals - 1
  /\ unpopped' = TRUE
  /\ UNCHANGED <<objects, dev, told, queue, row, hasQuirk, address, astray, calls>>

-----------------------------------------------------------------------------
(* The database.                                                           *)

\* Mutant of Saved: nothing at all is written of a quirk.
SavedUnlessQuirk(object) ==
  IF object.quirk THEN row
  ELSE [present |-> TRUE, nwk |-> object.nwk, complete |-> TRUE,
        asked |-> row.asked \/ object.asked]

\* _save_device writes what the object is when its turn comes.  Of a quirk it
\* writes no endpoints: they are there from the object the quirk replaced.
Saved(object) ==
  [present |-> TRUE, nwk |-> object.nwk,
   complete |-> row.complete \/ ~object.quirk,
   asked |-> row.asked \/ (~object.quirk /\ object.asked)]

\* The worker handles one callback: _update_device_nwk, _save_device or
\* _remove_device.
Worker ==
  /\ queue # <<>>
  /\ queue' = Tail(queue)
  /\ LET op == Head(queue)
     IN  row' = CASE op.op = "nwk"    -> IF row.present THEN [row EXCEPT !.nwk = op.nwk]
                                         ELSE row
                  [] op.op = "save"   -> Saved(objects[op.of])
                  [] op.op = "delete" -> NoRow
  /\ UNCHANGED <<objects, dev, removals, unpopped, told, hasQuirk, address, astray, calls>>

\* The object load() makes of the row.
Loaded ==
  [nwk |-> row.nwk, progress |-> IF row.complete THEN 3 ELSE 1, asked |-> row.asked,
   quirk |-> row.complete /\ (hasQuirk = "always" \/ (hasQuirk = "model" /\ row.asked)),
   task |-> "idle", tries |-> 0]

\* The program ends, with or without handling the queue first, and starts
\* again from the database.
Restart ==
  /\ Call
  /\ objects' = IF row.present THEN <<Loaded>> ELSE <<>>
  /\ dev' = IF row.present THEN 1 ELSE 0
  /\ removals' = 0
  /\ unpopped' = FALSE
  /\ told' = "none"
  /\ queue' = <<>>
  /\ address' = row.nwk
  /\ UNCHANGED <<row, hasQuirk, astray>>

LifecycleNext ==
  \/ \E nwk \in Nwks : JoinNew(nwk) \/ JoinMoved(nwk)
  \/ JoinAgain \/ PacketReceived
  \/ \E o \in 1 .. Len(objects) : TaskStep(o)
  \/ Remove \/ RemovalDone \/ RemovalRaises
  \/ Worker \/ Restart

LifecycleSpec == LifecycleInit /\ [][LifecycleNext]_lifecycleVars

\* Requests come to an end (DeviceRequests), and so do the tasks that wait for
\* them; the worker never stops.
LifecycleFairness ==
  /\ \A o \in 1 .. MaxObjects : WF_lifecycleVars(o <= Len(objects) /\ TaskStep(o))
  /\ WF_lifecycleVars(RemovalDone \/ RemovalRaises)
  /\ WF_lifecycleVars(Worker)

LifecycleFairSpec == LifecycleSpec /\ LifecycleFairness

-----------------------------------------------------------------------------
(* Properties.                                                             *)

Object ==
  [nwk : Nwks, progress : 0 .. 3, asked : BOOLEAN, quirk : BOOLEAN,
   task : {"idle", "running", "cancelling"}, tries : 0 .. MaxTries]

Operation == [op : {"nwk", "save", "delete"}, of : Nat, nwk : Nwks \cup {Nowhere}]

Row == [present : BOOLEAN, nwk : Nwks \cup {Nowhere}, complete : BOOLEAN, asked : BOOLEAN]

LifecycleTypeOK ==
  /\ objects \in Seq(Object)
  /\ dev \in 0 .. Len(objects)
  /\ removals \in Nat
  /\ told \in {"none", "joined", "initialized", "failed", "removed"}
  /\ queue \in Seq(Operation)
  /\ \A i \in DOMAIN queue :
       /\ queue[i].op = "save" => queue[i].of \in 1 .. Len(objects)
       /\ queue[i].op = "nwk" => queue[i].nwk \in Nwks
  /\ row \in Row
  /\ row.present => row.nwk \in Nwks
  /\ hasQuirk \in {"never", "model", "always"}
  /\ unpopped \in BOOLEAN /\ astray \in BOOLEAN
  /\ calls \in 0 .. MaxCalls

\* When the worker has caught up, the database has the device if the listeners
\* last heard that it is initialized, and does not have it if they last heard
\* that it was removed, whichever objects and tasks that went through.
DatabaseFollowsEvents ==
  queue = <<>> =>
    /\ told = "initialized" => row.present
    /\ told = "removed" => ~row.present

\* When the removal tasks have ended and nothing was heard of the device since,
\* it is not in the database, and not in memory either unless _remove_device
\* did not get to pop it.
RemovedIsGone ==
  told = "removed" /\ removals = 0 /\ queue = <<>> => ~row.present /\ (dev = 0 \/ unpopped)

\* _remove_device's docstring, "Send a remove request then pop the device":
\* when the removal tasks have ended the device is not in `devices' any more.
RemovedIsPopped == told = "removed" /\ removals = 0 => dev = 0

\* Packets go to the address the device has joined with last, in memory and
\* after a restart, unless an initialization went astray.
AddressIsCurrent ==
  ~astray /\ dev # 0 =>
    /\ objects[dev].nwk = address
    /\ queue = <<>> /\ told = "initialized" => row.nwk = address

\* A device that was announced stays the same object until it is removed or
\* the program ends, unless an initialization went astray: what listeners
\* attached to it is not lost.
AnnouncedObjectStays ==
  [][~astray' /\ told = "initialized" /\ told' = "initialized" /\ dev # 0
       => dev' = dev]_lifecycleVars

\* Only one task initializes the device, and it is the task of the object in
\* `devices', unless an initialization went astray.
OneInitialization ==
  ~astray => \A o \in 1 .. Len(objects) : objects[o].task = "running" => o = dev

\* _initialize's docstring: it is the model and manufacturer too that are
\* discovered before the application is told that the device is ready; and
\* schedule_initialize skips the initialization of a device that "is fully
\* initialized".
AnnouncedIsComplete ==
  told = "initialized" /\ dev # 0 => objects[dev].asked

\* Whoever heard that the device joined hears what became of it, however often
\* it joins again, fails to answer or is restarted meanwhile.
JoinIsAnswered == told = "joined" ~> told # "joined"
=============================================================================
