--------------------------- MODULE NetworkBackups ---------------------------
(***************************************************************************)
(* The backups of the network settings: BackupManager (zigpy/backups.py),  *)
(* its rows in the database (zigpy/appdb.py) and what initialize() makes   *)
(* of the latest one (zigpy/application.py).                               *)
(*                                                                         *)
(* Of a network's settings two things matter: the part that                *)
(* is_compatible_with compares, a member of Networks, and the frame        *)
(* counter.  A device ignores frames whose counter it has seen, so that    *)
(* the counter of a network must never roll back.  A backup is numbered by *)
(* its backup_time: the clock is assumed not to be set back.               *)
(***************************************************************************)
EXTENDS Integers, Sequences, FiniteSets

CONSTANTS
  Networks,      \* settings up to the frame counter
  Quick,         \* those of a network that is formed to scan the channels only
  Increment,     \* counter_increment, 10000 in the code
  MaxCounter,    \* bound: the frame counter
  MaxBackups     \* bound: the backups that are made

ASSUME QuickIsNone == Quick \notin Networks
ASSUME NoneIsNoNetwork == "none" \notin Networks \cup {Quick}
ASSUME IncrementIsNatural == Increment \in Nat
ASSUME BackupBounds == MaxCounter \in Nat /\ MaxBackups \in Nat

NotFormed == [network |-> "none", counter |-> 0]

VARIABLES
  radio,        \* the settings of the coordinator
  state,        \* app.state: the settings that were loaded last
  running,      \* initialize() has come to its end
  forming,      \* form_network waits for the scan in the quick network
  saving,       \* the calls of create_backup behind load_network_info
  backups,      \* BackupManager.backups
  backupRows,   \* the rows of network_backups
  tasks,        \* the queue of the database listener
  taken,        \* the number of backups made
  used          \* history: per network, the highest counter it has had

backupVars == <<radio, state, running, forming, saving, backups, backupRows, tasks, taken, used>>

Settings == [network : Networks \cup {Quick}, counter : 0 .. MaxCounter]
Backup == [settings : Settings, time : 1 .. MaxBackups]

BackupsInit ==
  /\ radio = NotFormed
  /\ state = NotFormed
  /\ running = FALSE
  /\ forming = FALSE
  /\ saving = 0
  /\ backups = <<>>
  /\ backupRows = {}
  /\ tasks = <<>>
  /\ taken = 0
  /\ used = [n \in Networks \cup {Quick} |-> -1]

-----------------------------------------------------------------------------
(* zigpy.backups.                                                          *)

\* is_compatible_with and the comparison of the counters in add_backup.
Replaces(new, old) ==
  /\ new.settings.network = old.settings.network
  /\ new.settings.counter >= old.settings.counter

Replaced(new) == {old \in Backup : Replaces(new, old)}

\* The members of a set in a list, in their order.
Those(list, set) ==
  LET upTo[i \in 0 .. Len(list)] ==
        IF i = 0 THEN <<>>
        ELSE IF list[i] \in set THEN Append(upTo[i - 1], list[i])
        ELSE upTo[i - 1]
  IN  upTo[Len(list)]

\* Mutant of BackupEvents: a backup takes the place of the one before it, which
\* it need not be compatible with.
BackupEventsLatest(new) ==
  (IF backups = <<>> THEN <<>> ELSE <<[what |-> "removed", backup |-> backups[Len(backups)]]>>)
    \o <<[what |-> "created", backup |-> new]>>

\* The events of add_backup: the replaced ones go, then the new one is saved.
BackupEvents(new) ==
  LET gone == Those(backups, Replaced(new))
  IN  [i \in DOMAIN gone |-> [what |-> "removed", backup |-> gone[i]]]
        \o <<[what |-> "created", backup |-> new]>>

\* create_backup: load_network_info has returned.  A second call may load
\* other settings before this one goes on, and then both save those.
LoadNetworkInfo ==
  /\ running
  /\ radio # NotFormed
  /\ saving < 2
  /\ state' = radio
  /\ saving' = saving + 1
  /\ UNCHANGED <<radio, running, forming, backups, backupRows, tasks, taken, used>>

\* from_network_state and add_backup.
AddBackup ==
  /\ saving > 0
  /\ taken < MaxBackups
  /\ saving' = saving - 1
  /\ taken' = taken + 1
  /\ LET new == [settings |-> state, time |-> taken + 1] IN
       /\ backups' = Append(Those(backups, Backup \ Replaced(new)), new)
       /\ tasks' = tasks \o BackupEvents(new)
  /\ UNCHANGED <<radio, state, running, forming, backupRows, used>>

\* Mutant of Written: the counter of the backup is written as it is.
WrittenAsIs(settings, increment) == settings

\* The settings that restore_backup writes.
Written(settings, increment) == [settings EXCEPT !.counter = @ + increment]

Write(settings) ==
  /\ settings.counter <= MaxCounter
  /\ radio' = settings
  /\ used' = [used EXCEPT ![settings.network] =
                IF @ < settings.counter THEN settings.counter ELSE @]

\* restore_backup called by the user, with the latest backup or another one, and
\* not twice before the backup that follows it is saved.
RestoreBackup(i) ==
  /\ running
  /\ tasks = <<>>
  /\ Write(Written(backups[i].settings, Increment))
  /\ UNCHANGED <<state, running, forming, saving, backups, backupRows, tasks, taken>>

-----------------------------------------------------------------------------
(* zigpy.application.                                                      *)

\* initialize() finds settings on the radio.
InitializeFormed ==
  /\ ~running
  /\ ~forming
  /\ radio # NotFormed
  /\ running' = TRUE
  /\ state' = radio
  /\ UNCHANGED <<radio, forming, saving, backups, backupRows, tasks, taken, used>>

\* initialize() with a radio that has none goes on with settings it has written,
\* and restore_backup with a backup of them.
InitializedWith(settings) ==
  /\ ~running
  /\ Write(settings)
  /\ running' = TRUE
  /\ forming' = FALSE
  /\ state' = settings
  /\ saving' = 1
  /\ UNCHANGED <<backups, backupRows, tasks, taken>>

\* The latest backup is restored.
InitializeNotFormed ==
  /\ radio = NotFormed
  /\ backups # <<>>
  /\ InitializedWith(Written(backups[Len(backups)].settings, Increment))

\* form_network(fast=True), when there is no backup and no channel in the
\* configuration: a network of which no backup is made, to scan the channels in.
FormQuickly ==
  /\ ~running
  /\ radio = NotFormed
  /\ backups = <<>>
  /\ used[Quick] = -1
  /\ Write([network |-> Quick, counter |-> 0])
  /\ forming' = TRUE
  /\ UNCHANGED <<state, running, saving, backups, backupRows, tasks, taken>>

\* form_network, with the channel of the configuration or after the scan.
FormNetwork(n) ==
  /\ forming \/ (radio = NotFormed /\ backups = <<>>)
  /\ used[n] = -1
  /\ InitializedWith([network |-> n, counter |-> 0])

\* move_network_to_channel: the channel and the update id are others afterwards,
\* and the counter goes on.
MoveNetwork(n) ==
  /\ running
  /\ used[n] = -1
  /\ Write([network |-> n, counter |-> radio.counter])
  /\ UNCHANGED <<state, running, forming, saving, backups, backupRows, tasks, taken>>

\* What a backup of the network that is saved for good may still fall behind:
\* the radio sends fewer than Increment frames between two backups.
SavedCounters(n) ==
  {b.settings.counter : b \in {c \in backupRows : c.settings.network = n}}

FrameSent ==
  /\ running
  /\ \E c \in SavedCounters(radio.network) : radio.counter < c + Increment
  /\ Write([radio EXCEPT !.counter = @ + 1])
  /\ UNCHANGED <<state, running, forming, saving, backups, backupRows, tasks, taken>>

\* The program ends, with or without its radio being replaced by an empty one,
\* and load() reads the backups in the order of their time.
InOrder(list) == \A i, j \in DOMAIN list : i < j => list[i].time < list[j].time
Sorted(rows) == CHOOSE list \in [1 .. Cardinality(rows) -> rows] : InOrder(list)

\* _load_network_backups adds them one after the other, and the later ones
\* replace earlier ones.
LoadedBackups(rows) ==
  Sorted({old \in rows : \A new \in rows : new.time > old.time => ~Replaces(new, old)})

RestartWith(settings) ==
  /\ radio' = settings
  /\ state' = NotFormed
  /\ running' = FALSE
  /\ forming' = FALSE
  /\ saving' = 0
  /\ backups' = LoadedBackups(backupRows)
  /\ tasks' = <<>>
  /\ UNCHANGED <<backupRows, taken, used>>

RestartBackups == RestartWith(radio) \/ RestartWith(NotFormed)

-----------------------------------------------------------------------------
(* zigpy.appdb.                                                            *)

BackupWorker ==
  /\ tasks # <<>>
  /\ LET t == Head(tasks) IN
       backupRows' = IF t.what = "created" THEN backupRows \cup {t.backup}
                     ELSE {b \in backupRows : b.time # t.backup.time}
  /\ tasks' = Tail(tasks)
  /\ UNCHANGED <<radio, state, running, forming, saving, backups, taken, used>>

BackupsNext ==
  \/ LoadNetworkInfo \/ AddBackup
  \/ \E i \in DOMAIN backups : RestoreBackup(i)
  \/ InitializeFormed \/ InitializeNotFormed \/ FormQuickly
  \/ \E n \in Networks : FormNetwork(n) \/ MoveNetwork(n)
  \/ FrameSent \/ RestartBackups \/ BackupWorker

BackupsSpec == BackupsInit /\ [][BackupsNext]_backupVars

-----------------------------------------------------------------------------
(* Properties.                                                             *)

BackupsTypeOK ==
  /\ radio \in Settings \cup {NotFormed}
  /\ state \in Settings \cup {NotFormed}
  /\ running \in BOOLEAN
  /\ forming \in BOOLEAN
  /\ saving \in 0 .. 2
  /\ \A i \in DOMAIN backups : backups[i] \in Backup
  /\ backupRows \subseteq Backup
  /\ \A i \in DOMAIN tasks : tasks[i].backup \in Backup
  /\ taken \in 0 .. MaxBackups
  /\ used \in [Networks \cup {Quick} -> -1 .. MaxCounter]

\* A restart changes nothing once the worker has caught up, whatever crashes
\* there were: the rows are the backups in memory, no replaced one among them,
\* and load() puts them in the same order, so that initialize() would restore
\* the same one.
BackupRowsFollow ==
  tasks = <<>> => /\ backupRows = {backups[i] : i \in DOMAIN backups}
                  /\ LoadedBackups(backupRows) = backups

\* The counter never rolls back when a network comes back from the latest
\* backup, although backups are committed late, replaced, and lost in a crash.
CounterNeverRollsBack ==
  [][~running /\ running' => radio'.counter >= used[radio'.network]]_backupVars
=============================================================================
