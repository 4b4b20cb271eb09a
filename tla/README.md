# A formal model of zigpy

zigpy is the Zigbee stack behind several home automation projects: a Python
library that keeps a coordinator's view of a Zigbee network. It runs in one
asyncio event loop. Nothing is preempted between two `await`s, but at every
`await` anything else may run, and every `await` may be cancelled. Radios lose,
delay and repeat frames, devices come and go, and the database is written by a
worker behind the program's back. This directory holds TLA+ models of the parts
in which that matters, the TLC configurations that check them, and proofs.

## The system

| Component (`src/zigpy/...`) | State | Operations | Interacts with | Modelled in |
|---|---|---|---|---|
| Priority semaphore and lock, `datastructures.py` | `_value`, `_max_value`, the heap `_waiters`, `_wakeup_scheduled` | `acquire`, `release`, the `max_value` setter, cancellation | every device, the application, the OTA manager | `PrioritySemaphore` |
| Debouncer, `datastructures.py` | `_times`, the heap `_queue`, the tie-breaking counter | `filter`, `is_filtered`, `clean` | `Device.packet_received` | `Debouncer` |
| Reschedulable timeout, `datastructures.py` | the timer, `_when` | `reschedule`, `cancel`, the timer's callback | OTA manager | `FirmwareUpdate` |
| Device requests, `device.py`, `util.py` | `_pending`, the sequence counter, the semaphore | `request`, `get_sequence`, `packet_received` | radio library, endpoints, ZDO | `DeviceRequests` |
| Device lifecycle, `device.py`, `application.py`, `endpoint.py` | the `devices` dictionary, each object's address, endpoints, initialization task | `handle_join`, `schedule_initialize`, `_initialize`, `device_initialized`, `remove` | listeners, quirks, database | `DeviceLifecycle` (partly) |
| Packet dispatch, `application.py`, `device.py`, `listeners.py` | `_req_listeners`, what is known of senders | `packet_received`, discovery, listeners, handlers and their answers | everything that receives | `PacketDispatch` |
| Controller application, `application.py` | the state and the tasks of the program | `startup`, `shutdown`, `initialize`, form, move and restore a network | all others | several (partly) |
| Background tasks, `application.py`, `util.py` | watchdog, periodic backups and broadcasts | start, stop, failure; `combine_concurrent_calls` | radio library, OTA | `BackgroundTasks`, `SharedCalls` |
| Topology, `topology.py` | the scan loop, the current scan; neighbors, routes | periodic and manual scans, stopping | requests, database | `BackgroundTasks` (partly) |
| Database listener, `appdb.py` | `_callback_handlers`, SQLite tables | one callback per event, the worker, `load` | events of all others | each component's rows (partly) |
| Schemas and migrations, `appdb.py`, `appdb_schemas/` | `user_version`, tables of ten versions | the migrations in one transaction | the disk | `Migrations` |
| Cluster attribute cache, `zcl/__init__.py` | cached and unsupported attributes | read, write, report, configure, clear | requests, database, quirks | `AttributeCache` |
| Groups, `group.py`, `endpoint.py` | members of a group, groups of an endpoint | add, remove, scan | lifecycle, database | `GroupMembers` |
| Network backups, `backups.py`, `state.py` | the list of backups | create, add, supersede, restore; two JSON formats | radio library, database | `NetworkBackups`, `BackupFormats` |
| OTA, `ota/` | indexes and images, an update's progress and stall timer | queries, downloads, the handlers of an update | listeners, requests, timeout | `ImageSelection`, `FirmwareUpdate`, `Codec` (partly) |
| ZDO, `zdo/` | none | requests, request handlers, records | requests | `PacketDispatch`, `Codec` (partly) |
| ZCL frames and types, `types/`, `zcl/foundation.py` | none | serialization | everything | `BasicTypes`, `Codec` (partly) |
| Quirks, `quirks/` | the registries, metadata of a quirk | add, remove, purge, `get_device`, the custom device | lifecycle, cache | `QuirkRegistry`, `QuirkedDevice` (partly) |
| Cluster definitions; configuration, profiles, exceptions, serial port | none | tables, validation, constants | startup | not modelled |

What is hard in it, and what makes each part correct:

* **Semaphore.** A waiter is woken in one turn of the event loop and resumes in
  another; between the two somebody may barge in, cancel it or change the
  maximum. No permit may be lost or made up, no wakeup lost, and waiters are
  served by priority.
* **Requests.** Sequence numbers wrap around at 256; replies come early, late,
  twice, garbled or never; a caller may be cancelled at any point. The table of
  pending requests must be exact at all times and a reply must reach the request
  it answers; every request that has got its turn must end, and each must get its turn unless
  others of higher priorities always go first.
* **Dispatch.** Frames come in several copies, from devices that are unknown, being
  interviewed, or just replaced by another object. A frame must count once, and
  those who wait for it must get it in the order in which they asked.
* **Lifecycle, groups and database.** Tasks go on with the object they were started
  for while `devices` already has another one; events are handled by the database
  later than they happen, from objects that have changed since; the program may
  end in between. Memory, database and events must agree in the end.
* **Attribute cache.** Answers and reports overtake each other; a device may be
  replaced by its quirk, and saved, at any time. What is cached must have been
  real, and must be in the database in the end.
* **Backups.** Devices reject frames whose counter they have seen, so the counter
  of a network may never go back, whatever backup is restored after whatever crash.
* **Migrations.** A database is converted through up to nine versions with foreign
  keys that differ: entirely, or not at all.
* **Tasks.** Scans, loops, startups and shutdowns cancel each other, and a cancelled
  task runs on until it gets to see it.
* **OTA.** A timer, a device and a caller may all end an update; an image is known
  by an index and, after its download, by its file, and the two may disagree.
* **Codec.** Lengths, marks of invalid values and optional fields share their
  encoding: what is written must be what is read, and what was cut off an error.

`PROJECT.json` lists the hazards one by one at their lines.

## Modules

Every module is the code of one component; an `MC` module gives values to its
constants, or composes components for a run. A module whose name ends in `Proofs`
holds theorems: `TaskProofs` those about `BackgroundTasks`, `SharedCalls` and `Debouncer`,
`PacketProofs` those about `PacketDispatch`, `FirmwareUpdate`, `ImageSelection` and
`BasicTypes`,
`StorageProofs` those about `Migrations` and `GroupMembers`, `BackupProofs` those about
`NetworkBackups` and `BackupFormats`, `DeviceProofs` those about `DeviceRequests` and `DeviceLifecycle`,
`QuirkProofs` those about `QuirkRegistry` and `QuirkedDevice`, the others those about the
module they are named after.

**One action is the code between two awaits.** Setting or cancelling a future
only schedules its task, so a task is `"woken"` or `"cancelling"` until an action
of its own resumes it. The event loop's ready queue is FIFO; the models let any
scheduled task run next, so that what they show holds for every order.

**PrioritySemaphore, CountingSemaphore, ArrivalOrder.** `pc[t]` is where a task is in
`acquire() ... release()`; the other variables are the object's attributes.
`waiters` is the heap in the order `heappop` returns it: keys are `(-priority,
counter)` and never equal, so the order is total and the heap's internal layout
cannot be observed. Cancelled futures stay in it until they are popped, as in the
code. `AcquireAtOnce` and `AcquireWait` are `acquire()` up to its first await,
`ResumeEnter`, `ResumeWait` and `ResumeCancelled` what follows `await fut`,
`CancelPending` and `CancelWoken` a `task.cancel()` before and after the future is
done, `Release` and `SetMaxValue` the rest. The maximum is never negative (the
setter raises `ValueError` and changes nothing). `CountingSemaphore` is what a
semaphore promises (`Enter`, `Leave`, `Resize`); the other implements it. `ArrivalOrder` adds
a history, who called `acquire()` before whom.

**Debouncer.** `queue` is the list in `heapq`'s layout, because `clean()` looks
at its last place: `Push` is `heappush`. The clock is an integer that any number
of calls may read.

**DeviceRequests**, over an instance of `PrioritySemaphore`. Requests are
numbered; request `n` carries `n % TsnModulus`, and so does its reply. A caller
makes one request after another; it takes its number before it waits for the
semaphore, as `Cluster.request` and `ZDO.request` do. `Begin` is all that follows
the semaphore without an await. `Answer` is the device's: it may answer before the
radio says that the frame was sent, and even if the radio says it was not.
`ReplyReceived` does not consume the reply: it may come again. `Interrupt` is
`task.cancel()`, by `asyncio_timeout` or by somebody else; `Finish` is the caller
resuming. What the debouncer drops is a lost reply here. Frames the device sends by
itself with the direction of a response are `NotificationReceived`.

**PacketDispatch.** `ReceiveFrame` is all of `ControllerApplication.packet_received`
and `Device.packet_received` for one copy of a frame: senders that are unknown are
discovered, uninitialized ones interviewed, duplicates dropped, the pending request
and the listeners resolved in the order of `_req_listeners`, handlers called and
answers sent. `_req_listeners` and the debouncer belong to an object, so that `Announced`
with a quirk starts with new ones, and with a history of its own: a copy that comes to the
object of the quirk after the other one has handled the frame counts again, as in the code. A future listener that is `"resolved"` stays
registered until its task resumes (`Unregister`). The network loses and repeats
copies; the addresses of devices stay (moving is the lifecycle's).

**DeviceLifecycle.** `objects` are the `Device` objects in the order they were
made, `dev` is `devices[ieee]`. An object's `progress` counts the discovery steps
of `_initialize`, `asked` is whether the model is known. `DeviceInitialized` is
an operator on the objects and the queue because two callers reach it with
changes of their own. `told` is the last event the listeners got; the database
listener's queue gets its operation in the same step. `Worker` runs one of them
on the object as it is by then. `Restart` is both a crash and a shutdown.
`hasQuirk` says what a quirk's signature needs. `RemovalDone` and
`RemovalRaises` are the two ways `_remove_device` ends.

**AttributeCache.** One cluster of a device. A value is the number of times the
device has changed it, so that it can be told which of two is newer. `air` holds
answers and reports in the order they were sent; handling one that is not the first
marks those before it as `overtaken`. `Handle` is `read_attributes`,
`write_attributes`, `configure_reporting` or the report handler from the answer on.
Each change puts an event into the listener's queue; `SaveWorker` runs one, which fails
if the device's row is not there (a foreign key). `InitializedCustom` is the quirk that
takes over the cache, or starts without it.

**GroupMembers.** Both sides of a membership: `member` is `Group.members` (keyed by
`unique_id`, so the old object of a device that has joined again keeps the new one out), `memberOf` the
endpoint's. A request that an old object sent may be answered when a new one is there.
`MembershipScanned` is `group_membership_scan` with any answer; the sets that
`update_group_membership` goes through have any order (`Orders`).

**NetworkBackups.** `LoadNetworkInfo` and `AddBackup` are `create_backup` before and
after its await; `BackupEvents` and `Replaced` are `add_backup`, which drops what the new one replaces;
`InitializeFormed`, `InitializeNotFormed`, `FormQuickly` and the network operations are
`initialize()` and the application's. The radio's counter grows with every `FrameSent`.

**BackupFormats.** `AsDict`, `AsOpenJson` and back, with `OthersJson` for files that
other programs have written and `AsDictOfVersion0` for rows of older releases. Addresses are
sequences of bytes, because their order is what the formats differ in.

**Migrations.** The statements of `_run_migrations`, one action each: `Schema`,
`CopyTable` and `EndMigration` for each version, `StatementFails` at any of them, and
`Reopen`, which is a crash too. `work` is what the transaction sees, `disk` what is committed. Tables
are the ones whose foreign keys change; with rows that break a key left behind by releases
that did not enforce it.

**BackgroundTasks, SharedCalls.** A scan that is cancelled is `"cancelling"` until it
resumes; `LoopScans` and `LoopResumes` are the scan loop before and after its await.
`Startup`, `StartWatchdog`, `Initialized`, `StartupFails` and `StartupCancelled` are
`startup()`; `Shutdown` and `Disconnected` are `shutdown()`, called by anybody or after
a failure. `SharedCalls` is the decorator `combine_concurrent_calls` for one set of arguments.

**FirmwareUpdate.** Updates are numbered; each has a manager, whose handlers and timer
live on after `update_firmware` has returned. `timerIn` is the `TimerHandle`, `whenIn`
the `_when` that `reschedule` moves without touching it; both are the time left, so the clock
needs no bound. `TimeoutTrigger` is the handle's callback, which starts again when it
is early.

**ImageIndexes.** `RegisteredProviders` is what `_register_providers` makes of the
configuration: providers, disabled classes, and the deprecated options, which count one after the
other. The operator named after a provider (`Tradfri`, `Ledvance`, ... `AdvancedFile`) is what
its `_load_index` reads of an entry, and which entries it skips; `IsAnnounced` is the check of
what was downloaded, in a container or not.

**ImageSelection.** `Query` to `GiveAnswer` is `get_ota_images` for one device: all indexes are
loaded (`IndexEnds`, well or badly), the images are compared with the device, the best
are downloaded (`FetchEnds`, which may find that the file's header says more than the
index), and what collides is dropped.

**BasicTypes, Codec.** `BasicTypes` has the types that need no others: integers as bits
(`BitsOf`, `FromBits`) and as bytes (`ToBytes`, `FromBytes`), which are the digits of a number
in two radices; floats (`Convert`); strings with a length before them; texts, whose length is that of the characters and whose bytes are UTF-8 (`TextWithLength`, `ReadText`);
and the bit fields between two borders of bytes (`FromBitfields`, `ToBitfields`). It has no recursive operators, so that it can be
proved about. In `Codec` types are records (`kind`, `bits`, `schema`...), and `Serialize` and
`Deserialize` are `serialize` and `deserialize` for all of them, following the class
hierarchy of `types/basic.py`, `types/struct.py`, `zcl/foundation.py`, `zdo/types.py`,
`ota/image.py` and `ota/validators.py`, with the checks that some of these classes add: `OneOf` is
that of `MultiAddress`, `ConfigureSchema` the two layouts of a record of a configure reporting
response, `UpgradeImage` the only tag that IKEA's trailing bytes may follow, and firmware
of an unknown start is valid (`ValidateFirmware`). A byte has two bits in the run, so that every
length, tag and mark of an invalid value is reached by small values. The actions send a
value, deliver it whole with other bytes behind it, or cut it off anywhere.

**QuirkRegistry, QuirkedDevice.** The registries of both versions of quirks with
registration, removal and purging in any order; and `CustomDeviceV2.__init__` with one
piece of metadata of each kind (`adds`, `removes`, `replaces`,
`replace_cluster_occurrences`) for a device, each endpoint of which has a cluster.

**MCNetwork, MCComponents, MCLiveness** compose components for one run each: the
variable `part` says which of them a behaviour runs, the others stay as they are.
No state is shared between the parts, so nothing is lost by this, and the number of
states is the sum of the parts', not their product.
In `MCLiveness` the lock is an instance (`Lock`) with variables of its own, because the device's semaphore
has the plain names.

## Runs

| Run | Shows |
|---|---|
| `network` | *Requests:* exact table, replies reach their requests. *Lifecycle:* memory, database and events agree; one object at work, with the address of the last join; an announced object stays; a join is answered. *Groups:* both sides and the rows agree. *Backups:* rows follow, counters never roll back, both formats bring a backup back. *Migrations:* all or nothing. *Tasks:* one scan, manual scans stand, a failed startup leaves nothing. *Shared calls:* never twice at once. |
| `components` | *Semaphore:* permits are conserved, and the refinement of `CountingSemaphore`, with cancellation and a maximum that changes. *Debouncer:* no duplicate within a window, no exception. *Cache:* rows follow, values were real, only overtaken frames turn it back. *Codec:* round trips. *Dispatch:* frames count once, waiters in order. *Quirks:* the registry gives the latest, the quirk has the last word. |
| `liveness` | *Lock:* no wakeup lost, first come first served within a priority, the highest priority is served. *Requests*, without end: each ends that is not overtaken for ever. *Updates:* each ends, none too early. *Images:* every query is answered, and no two upgrades are equally good. *Dispatch:* who keeps reporting is interviewed. |
| `lock_cancelled`, `device_notifications`, `device_moves`, `device_removal`, `debouncer_stale`, `scan_stop`, `long_text`, `image_offers`, `backup_conversion` | the findings below, each the violation of one property |

| Part | Bounds | Why they are enough |
|---|---|---|
| Semaphore | 4 tasks, 2 stale entries, maximum 1 to 3 | a holder, a woken task, a waiter and a newcomer, of equal and different priorities; two stale entries in front of a live one |
| Requests | 3 callers, two of them before the third, 6 requests, TSN modulo 3, one at a time; in `liveness` any number of requests | the number wraps around and meets a late reply; newcomers never stop coming, and two of a higher priority can starve the third |
| Lifecycle | 2 addresses, 2 tries, 4 objects, 3 joins or removals | join, removal and a new join, each object replaced by its quirk |
| Groups | 2 groups, 2 objects, 3 events in the queue | an old object of a device that has joined again |
| Backups | 2 networks, 3 backups, counter to 5 in steps of 2 | two backups of one network and one of another; a counter beyond a step |
| Formats | a coordinator and 2 devices, one's address the other's turned around | every subset of the three tables |
| Migrations | from every version, 2 endpoints | rows of one endpoint are lost or kept without the other's |
| Debouncer | 4 objects, window 2, 4 readings of the clock | the smallest list whose last entry is not the largest has three places |
| Tasks | 4 scans, 2 loops | a manual and a scheduled scan, their replacements, a loop that was started again |
| Shared calls | 3 callers, 3 tasks | a maker, one who joins, one who comes after the maker was cancelled |
| Cache | 1 attribute, 2 values, 2 frames, 3 events, 3 of requests, frames and events together (`MaxPending`) | a report overtakes the answer to a read; the device is saved with events before and behind it; rows are per attribute |
| Codec | bytes of 2 bits, texts to length 4, lists to 2 | 3 is the mark of an invalid short length, 4 needs a second byte; 2 is a character of two bytes in UTF-8 |
| Dispatch | 3 kinds of frames, 2 copies, 2 futures and a callback; in `liveness` 3 remembered frames and a loss | two waiters and one frame; a copy that comes after the object was replaced |
| Quirks | 5 + 2 quirks for 2 models, any model or any manufacturer; 3 devices, metadata of each kind | each specificity; each pair of kinds of metadata for one place |
| Updates | 2 updates, 2 frames, stall time 2 | late handlers of the first update during the second; a handle that fires early |
| Images | 2 providers, 3 images, 2 devices, an expired index | an image two devices download at once, and one whose file says more than its index |

*Bounds in guards.* Constants named `Max...` stop the models, not the code; where such
a stop is a deadlock the configuration says `CHECK_DEADLOCK FALSE`. `Window` is an
assumption about the network: a reply on the air that is older than `Window` requests is gone.
The code relies on it by counting modulo 256. It stops no caller: the timeout of a request covers
the wait for its reply only (`device.py:380`), and not the one for the semaphore (`device.py:371`), where
a request may be overtaken by any number of others. Such a request gets no answer in the
model any more, and `RepliesReachTheirRequest` claims nothing of it.

*Endless requests.* `RequestsEnd` would be worth nothing if the bound on requests stopped those
that overtake. So `liveness` adds `StartOver` to the steps of the requests (`MCDeviceRequests`): when the
bound is reached it takes a round of numbers off all that are counted, whether or not somebody
still waits, and callers go on for ever.

*Fairness.* Weak fairness only, and only of what the event loop or a timeout brings about.
Semaphore: the loop resumes what it has scheduled, and a body of `async with` ends.
Requests: the radio library comes back from sending, and a timeout is set around every wait for
a reply. Lifecycle: tasks go on, the database worker runs. Updates: the clock ticks, due timers
fire, `update_firmware` resumes, and its notification is sent or fails. Images: HTTP requests
end, well or badly (they have timeouts). Dispatch: copies that are under way arrive or
are lost, the debouncer forgets, and one assumption about the environment
(`Talks`): a device that is not being interviewed goes on reporting. No reply, join, removal,
cancellation or acquire has to happen. In a run of several parts those that do not
run start with nothing that fairness would ask of them.

*Preconditions in properties.* A request that is past the semaphore ends without a precondition. Of one
that waits for it `RequestsEnd` claims that it ends if, from some time on, nobody of a higher
priority wants to talk to the device and nobody is cancelled in the queue (`Undisturbed`), unless
the semaphore has lost a wakeup (`WakeupLost`, the finding of `lock_cancelled`). TLC finds
both kinds of starvation when the precondition is taken away: the one by higher priorities is the code's
(it has no timeout there), the one by cancellations that repeat for ever needs the model's free choice
of who resumes next.
`astray` marks the executions in which an initialization was scheduled while the
device was being removed, or was skipped while another one ran: in them
`AddressIsCurrent`, `OneInitialization` and `AnnouncedObjectStays` are false, as TLC
shows when the precondition is taken away: the old task goes on with an object that
is not in `devices`, and announces it. `RemovedIsGone` says nothing of the memory
after `RemovalRaises`. `RoundTrip` exempts texts with characters of more than one byte, long texts of the length that marks an
invalid short one (the finding of `long_text`), and floats of the least exponent
(`Mistaken`; see *Also seen* and the theorems `TextsComeBack` and `FloatsComeBack`); a text comes back up to its
first null (`Meant`). Of what was cut off it accepts a shorter list, missing optional fields, and firmware that has
lost only padding, or so much that it does not start like firmware any more, which the code
takes for valid (`FirmwareUnnoticed`). `BackupComesBack` exempts the manager's address (the finding
of `backup_conversion`). With windows of different lengths,
which zigpy does not use, the debouncer's `NeverCompared` fails: the counter is reset
when the clock moves, and `(time, counter)` may repeat.

## Findings

* `lock_cancelled`: `src/zigpy/datastructures.py:115`. A waiter cancelled after it
  was woken, with nobody else in the heap, leaves `_wakeup_scheduled` set for ever:
  the lock is free and every later `acquire()` waits.
* `device_notifications`: `src/zigpy/device.py:498`. Any frame with the direction
  of a response and a pending TSN completes the request, not only its response.
* `device_moves`: `src/zigpy/device.py:205`. `is_initialized` does not ask for the
  model; a join under another address announces the device early, and then again.
* `device_removal`: `src/zigpy/application.py:533`. An answer to the leave request
  that cannot be parsed raises `ParsingError`, which is not caught: the device is
  never popped.
* `debouncer_stale`: `src/zigpy/datastructures.py:242`. The end of a heap's list is
  not its largest entry, so an expired packet can still be held back.
* `scan_stop`: `src/zigpy/topology.py:79`. A loop that is stopped while it scans
  takes the `CancelledError` for the scan's, and goes on.
* `long_text`: `src/zigpy/types/basic.py:933`. `LongCharacterString` inherits the
  mark of an invalid *short* text: 255 characters come back as none.
* `image_offers`: `src/zigpy/ota/__init__.py:431`. A downloaded image is offered
  although its file says that it is for other hardware.
* `backup_conversion`: `src/zigpy/backups.py:361`. The network manager's address
  comes back from the open format with its bytes turned around.

*Also seen*, without a run of their own: a text with characters of more than one byte is
written with its length in characters (`types/basic.py:949`), so that the reader cuts it off and takes the rest
of its bytes for the next parameter; a firmware file cut within its first four bytes is of an unknown type and
therefore valid (`ota/validators.py:120`); a `Half` or `Single` of the least exponent that is
not zero is written with the next one (`dst_min_exp`, `types/basic.py:672`), so it comes
back doubled; an energy scan that fails computes `[0] * scanned_channels` with the
mask as a number (`application.py:276`); a random PAN id may be 0xFFFF
(`application.py:357`); a failed download of an index is not tried again for 24 hours; a
cancelled `startup()` leaves its watchdog running; two quirks of version 2 that fit one
device make `load()` raise; listeners and pending requests stay with the object that a
quirk replaces; a stall timer that a late handler sets belongs to an update that is over.

## Proofs

All proofs are for every value of the constants that satisfies the modules'
assumptions (finite sets of tasks or attributes, integer priorities, natural
bounds): the theorem of a bounded model holds for every bound.

* **PrioritySemaphoreProofs.** The inductive invariant `IInv` is the types, the
  conservation of permits, and `HeapOK`: the pending entries of the queue are the
  waiting tasks, one entry each. Types and permits alone do not show that a task
  which `_wake_up_next` wakes was waiting and not inside; `HeapOK` does. From it:
  `TypeCorrect`, `PermitsConserved`, `WaitersQueued`, `NeverOverAdmitted`,
  `MutualExclusion` and the refinement `Implements`. The heap stays in the order of priorities
  (`HeapSorted`; a push goes behind its priority because the heap is in order,
  `PushedBehindItsPriority`), and a waiting task has an entry in it; so whoever is woken goes before
  all who stay, whatever was cancelled and however many are woken at once: `WakesByPriority`. Under `IsLock` (one permit, no
  cancellation) `LockInv`, which ties the flag to the one woken task, gives
  `LockLosesNoWakeup`, `LockFlagMeansScheduled` and `LockNeverRequeues`;
  `lock_cancelled` shows that the assumption is needed. `OrderInv` says that the heap is, within a priority, in the
  order of the calls, and that whoever was woken came before all of its priority that
  wait: `LockServesInOrder`.
* **DeviceProofs.** *Requests:* the semaphore's theorems are used through an instance
  (`SemaphoreIsUsed`: every step of the requests is a step of the semaphore or
  leaves it alone). Their types hold with any number at a time (`RequestTypes`). With one request at a time (`OneAtATime`, the code's
  `MAX_DEVICE_CONCURRENCY`) mutual exclusion makes `RInv` inductive: `PendingExact`
  and `TsnNeverDuplicate`. With `WindowFits` (`Window <= TsnModulus`) the ages of
  requests and replies (`AgeInv`) make two of them with one TSN equal: `RepliesOwn`, of a request that was not itself overtaken by
  that many.
  *Lifecycle:* `TypeCorrect`; then `EventInv`: the queue, handled to
  its end, leads to what was told last. It is inductive because each event puts its
  operation into the queue in the same step, and gives `DatabaseFollows` and
  `RemovedGone`. `SettledInv` says what holds as long as nothing is `astray`: no
  object but the one in `devices` has a running task, and it has the address of the last join.
  A removal keeps it because it cancels the task, an announcement because the object
  it replaces is the one whose task ends: `OneAtWork`, `AddressFollowsJoins`,
  `AnnouncedStays`.
* **PacketProofs.** *Dispatch:* `PacketsTypes`; then that a frame which the debouncer does not
  remember was answered by nobody unless no copy of it is left. That the window outlasts the
  copies is the assumption behind it: `FramesCountOnce`. Listeners are in finite
  lists, and a broken one is passed over; so of those that would take a frame one is
  before all others, and it is the one that is resolved: `WaitersTakeTurns`. *Updates:* a handle that fires looks at
  `_when` only. `WhenFollowsProgress` (the time left and the time of silence add up to the stall
  time at least) is what makes this enough: `UpdatesTimeOutLate`. *Images:* an image that is
  not missing has been checked, by this query or by one that has kept it (`QueryInv`), and
  what fits by its file fits by its index (`FileIsStricter`): `OffersWereChecked`,
  `UpgradesAreUnambiguous`. That what is offered fits by its *file* is false (`image_offers`).
  *Types:* for bytes of any width, integers of any size, and lists of any length. What a loop of
  the code computes is a recursive function here; that there is one is shown by counting up over a set
  (`CountingUp`, `RecursionExists`), since induction over a formula is out of the provers' reach.
  The digits of a number are what is left of it after shifts (`DigitsAre`), and they add up
  to its remainder (`DigitsOfNumber`), which `Signed` turns into the number again
  (`SignedReadBack`): `IntegersComeBack`. A length is such an integer; after it come as many bytes,
  and what is shorter is an error: `StringsComeBack`. The bytes of a text are at least as many as its characters,
  and just as many if it is ASCII, when they are the characters themselves (`Utf8Is`, `FromAscii`); so
  what follows a text is left alone in that case only: `TextsComeBack`. Bit fields are joined from the
  last one on, so that a field ends where those before it begin (`BitsBeforeIs`,
  `BitsBeforeGrows`), and a byte is a number of bits (`BitsComeBack`): `BitfieldsComeBack`.
  A float's pattern is its sign, exponent and fraction (`PatternHasParts`); a fraction that gets
  zeros loses them again, and an exponent that fits the smaller format is not clamped, except the
  least (`ExponentsComeBack`): `FloatsComeBack`, which says what becomes of that one.
* **AttributeCacheProofs.** `CachedWasReal` is not inductive: answers, events and rows
  outlive the cache and come back to it. The invariant `HadInv` says of all of them that the
  device has had their values: `NothingMadeUp`. With it and the types of the frames,
  whatever has the time of its last update is cached: `CacheTypes`. For `OnlyOvertakenGoBack` it needs the order in
  the air: of two frames with one attribute the later brings the newer value, and no frame
  but an overtaken one brings less than is cached (`OrderInv`). For `RowsCatchUp` it says of each
  attribute which event in the queue has the last word on its row, and that it says
  what is cached; events before the one that saves the device fail for lack of its row, and that one
  makes up for them (`QueueInv`, `ValueFollows`, `MarkFollows`). With an empty queue that is
  `RowsFollowCache`.
* **StorageProofs.** *Migrations:* until the transaction is committed the file is what was
  found (`DiskInv`); what makes its end safe is, for each version, which kinds of rows the
  tables hold that are copied from, and which of them were copied up to the present
  step (`SourceInv`, `TablesInv`). Rows that break a foreign key are lost, so that only those
  in `ToKeep` are claimed: `MigrationsAllOrNothing`. *Groups:* the rows, led through all events of the
  queue (`Leads`), end in rows that agree with the two sides in memory (`Agrees`). Appending an
  event and handling one are lemmas about `Leads`; a scan of the membership appends
  a list whose effect does not depend on its order: `MembershipStays`.
* **BackupProofs.** The backups in rows and in the queue, whenever the program dies, have
  at most one of a network, and one that replaces another comes after its removal
  (`QueueOK`); so what `load()` sorts is the list in memory (`RowsAreBackups`). Every backup of a
  network is at most `Increment` behind the highest counter the network has used, and
  neither the radio nor the state is below one (`CountersOK`). `initialize()` with the latest
  backup therefore ends with a counter that is not lower: `CounterIsKept`. *Formats:* an address turned
  around twice is itself (`HexAndBack`), so each device has one entry in the file; if each entry
  says of its device what the three tables do (`Says`), the tables are read back
  (`TablesComeBack`), whether zigpy or another program wrote it: `BackupsComeBack`.
* **QuirkProofs.** *Registry:* `RegistryInv` says that each registration is there once, that
  the lists and sets hold exactly what is registered, in the order of registration, and that a
  quirk of version 1 is registered for all of its models or for none. It is kept by a removal
  because what is left of a list stays in its order (`RegisteredWithout`). The chain of lists that
  `get_device` goes through is then the latest of each group, the groups from the most
  specific on: `QuirksTakePrecedence`. *Device:* what is at a place after each kind of metadata, one
  lemma each (`EachRemoves`, `EachReplaces`, `EachOccurrence` and what they rest on); a later kind
  leaves what an earlier one wanted only where it wants nothing: `QuirksHaveTheLastWord`.
* **TaskProofs.** *Tasks:* scans are started in the order of their numbers, and whatever
  runs is what `_scan_task` refers to: `ScansTakeTurns`, `ManualScansStand`. A startup that has
  failed had started the simple loops that `shutdown()` stops: `FailedStartupStops`.
  *Shared calls:* `RunsOnce` takes that only the maker deletes the entry, that there
  is one maker, and that it awaits the very task of the entry: `SharedCallsRunOnce`,
  `SharedEntriesAreOwned`. *Debouncer:* the order of the heap plays no part. A push keeps
  every entry (`PushKeepsEntries`): the places on the way from the end of the list to its root
  are a chain, so that what climbs displaces each of the others by one. `clean()` takes only
  entries that have expired, the same from the list and from the dictionary
  (`CleanedTracks`). So the two agree (`HeapAndTimesAgree`), what has passed is remembered
  until its window is over (`NothingPassesTwice`), and, with one window, times and counters
  tell all entries apart (`FilterIsSafe`).

*Only model-checked:* all liveness (`TopPriorityServed`, `RequestsEnd`, `JoinIsAnswered`,
`UpdateEnds`, `QueriesEnd`, `TalkersAreInterviewed`; fairness is beyond the prover);
`RoundTrip` as a whole, whose operators are recursive (structures, lists and files; the theorems about
`BasicTypes` are its parts that have a fixed layout); the type invariants of the composed runs, which are
conjunctions of those proved of each component; and all of what happens `astray`.

## Assumptions and abstractions

* *Backups:* the clock is not set back; the user does not restore a second backup before the
  one that follows is saved; fewer than `Increment` frames are sent between two saved backups;
  `validate_network_settings` has its default; the network that is formed quickly for a scan is
  taken once. *Formats:* the order of lists, and settings that are copied as they are, are left out.
* *Migrations:* the database has one device; errors of SQLite, of whatever kind, are a statement
  that fails. A new database is exempt from `AllOrNothing`: it has nothing to keep. There are finitely
  many endpoints, 240 (`EndpointsAreFinite`), and groups, 65536 (`GroupsAreFinite`). *Backups:* "none", which stands for no network, is the name of none (`NoneIsNoNetwork`).
* *Lifecycle:* a retry of an initialization comes at any time. *Groups and cache:* a device's
  removal is the lifecycle's, but for what `GroupMembers` needs of it; the cache is one cluster's.
* *Dispatch:* the network repeats a frame only within the debouncer's window; frames of
  different content are different frames.
* *Codec:* characters have one byte in UTF-8 or two, with one lead byte for all of the latter; values of optional fields are given in order; a checksum or a
  signature never fits by accident.
* *Images:* an index is what its server has now; an entry has the fields its provider's schema asks
  for; a query may come at any time; a version, a hardware version or a manufacturer is a
  small number or not given. *Updates:* a device stops asking some day.
* *Quirks:* whether a signature fits is given; no two quirks of version 2 are equal, none is of
  both versions, and every quirk names a model (`QuirksAreForModels`). `replaces` and
  `replace_cluster_occurrences` take classes, not cluster ids (`ClassesReplace`). Metadata has
  at most one piece of each kind.
* *Tasks:* cancelling the caller of a manual scan is left out.

## Not modelled

* **Cluster definitions** (`zcl/clusters/`), **profiles, configuration schemas, exceptions**:
  tables of constants, without state. **Serial port**: opens a port.
* **Application:** sending (`request`, `mrequest`, `broadcast`), which is the radio
  libraries'; leave requests to parents, `last_seen`, the energy scan's arithmetic.
* **Topology:** what a scan finds; neighbors and routes are replaced whole.
* **Database:** relays, topology and `last_seen` (each row overwritten whole); SQL itself; of
  `load()`, the `KeyError` for a group's member whose endpoint is gone (`appdb.py:834`).
* **OTA:** downgrades (they are only shown), the JSON of the indexes and the addresses of the
  servers, validators of vendors other than Silicon Labs.
* **ZDO:** what answers of the coordinator say.
* **ZCL frames and types:** names, formatting, conversions between Python types, the Python
  machinery behind structures.
* **Quirks:** replacement tables of version 1, the initialization from first frames of
  unknown devices, `is_server`, constant attributes and metadata of entities.

## Plan

1. Proofs: lists of one type, with their items as a parameter of a recursive function.
2. Composition: `DeviceRequests` under `AttributeCache`, so that a lost or garbled reply is a
   read that ends; `PacketDispatch` with moving addresses from `DeviceLifecycle`.
3. Topology: what a scan saves, when it is cancelled between two devices.
