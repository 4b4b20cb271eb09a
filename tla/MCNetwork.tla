----------------------------- MODULE MCNetwork ------------------------------
(***************************************************************************)
(* What the application keeps of its network: a device and its requests,   *)
(* the groups, the backups and their formats, the database, and the tasks   *)
(* in the background.  Each part is a component whose state no other one    *)
(* here shares: a behaviour picks one of them, and the others stay as they  *)
(* are.                                                                    *)
(***************************************************************************)
EXTENDS MCDeviceRequests, DeviceLifecycle, GroupMembers, NetworkBackups, Migrations,
        MCFormats, BackgroundTasks, SharedCalls

VARIABLE part    \* the component that runs

\* What is chosen in the first state is chosen for the component that runs only.
NetworkInit ==
  /\ part \in {"requests", "device", "groups", "backups", "formats", "migrations",
              "tasks", "shared"}
  /\ part # "device" => hasQuirk = "never"
  /\ part # "migrations" => start = NewDatabase
  /\ Init /\ LifecycleInit /\ GroupsInit /\ BackupsInit /\ MigrationsInit
  /\ TasksInit /\ SharedInit
  /\ IF part = "formats" THEN FormatsInit ELSE NothingSaved

Runs(p, steps, itsVars) == IF part = p THEN steps ELSE UNCHANGED itsVars

NetworkNext ==
  /\ Runs("requests", Next, vars)
  /\ Runs("device", LifecycleNext, lifecycleVars)
  /\ Runs("groups", GroupsNext, groupVars)
  /\ Runs("backups", BackupsNext, backupVars)
  /\ Runs("formats", FormatsNext, formatVars)
  /\ Runs("migrations", MigrationsNext, migrationVars)
  /\ Runs("tasks", TasksNext, taskVars)
  /\ Runs("shared", SharedNext, sharedVars)
  /\ UNCHANGED part

NetworkSpec ==
  /\ NetworkInit
  /\ [][NetworkNext]_<<part, vars, lifecycleVars, groupVars, backupVars, formatVars,
                      migrationVars, taskVars, sharedVars>>
  /\ LifecycleFairness

\* Every variable of every component keeps its type.
NetworkTypeOK ==
  /\ TypeOK /\ LifecycleTypeOK /\ GroupsTypeOK /\ BackupsTypeOK /\ MigrationsTypeOK
  /\ TasksTypeOK /\ SharedTypeOK
=============================================================================
