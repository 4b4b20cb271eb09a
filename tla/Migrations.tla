----------------------------- MODULE Migrations -----------------------------
(***************************************************************************)
(* The start of the database listener: how a database of an older schema   *)
(* becomes one of the newest (zigpy/appdb.py, appdb_schemas/*.sql).         *)
(*                                                                         *)
(* A version's tables are kept when the next version's have been filled     *)
(* from them.  Of the tables, those are modelled whose foreign keys differ; *)
(* the database has one device, and a row is its kind and the endpoint it   *)
(* belongs to, 0 for rows of the device itself.                             *)
(***************************************************************************)
EXTENDS Integers, Sequences, FiniteSets

CONSTANT DbEndpoints     \* the endpoints of the device
ASSUME EndpointsArePositive == DbEndpoints \subseteq Nat \ {0}
ASSUME EndpointsAreFinite == IsFiniteSet(DbEndpoints)

DbVersion == 13
Versions == 4 .. DbVersion
Unsuffixed == 3          \* the tables of the versions before 5, as a version
TableVersions == {Unsuffixed} \cup Versions

TableKinds == {"devices", "descriptors", "endpoints", "clusters", "attributes", "unsupported"}
OfDevice == {"devices", "descriptors"}
DbRows == {row \in TableKinds \X (DbEndpoints \cup {0}) : row[1] \in OfDevice <=> row[2] = 0}

VARIABLES
  start,        \* history: the database that was found
  disk,         \* what is committed: user_version, and the rows of each version
  work,         \* what the open transaction sees
  dbPhase,      \* "closed", "migrating", "creating", "ready" or "failed"
  target,       \* the version that is being migrated to
  step          \* the statement of that migration

migrationVars == <<start, disk, work, dbPhase, target, step>>

-----------------------------------------------------------------------------
(* The schemas.                                                            *)

\* The rows that a row needs under the foreign keys of a version.
Needs(v, row) ==
  LET Of(kinds) == {<<k, IF k \in OfDevice THEN 0 ELSE row[2]>> : k \in kinds}
  IN  Of(CASE row[1] = "devices"     -> {}
           [] row[1] = "descriptors" -> {"devices"}
           [] row[1] = "endpoints"   -> {"devices"}
           [] row[1] = "clusters"    -> {"endpoints"}
           [] row[1] = "attributes"  -> IF v = 5 THEN {"endpoints"} ELSE {"devices"}
           [] row[1] = "unsupported" -> {"devices", "clusters"})

Legal(v, rows) == \A row \in rows : Needs(v, row) \subseteq rows

\* The kinds that a version has in tables of its own.  v4 was the first with a
\* suffix, for the node descriptors; v7 added the unsupported attributes.
KindsOf(v) ==
  CASE v = Unsuffixed -> TableKinds \ {"unsupported"}
    [] v = 4          -> {"descriptors"}
    [] v \in {5, 6}   -> TableKinds \ {"unsupported"}
    [] OTHER          -> TableKinds

OfKinds(rows, kinds) == {row \in rows : row[1] \in kinds}

Tables(v, rows) == [u \in TableVersions |-> IF u = v THEN rows ELSE {}]

\* Databases that an earlier program has left: before v5 foreign keys were not
\* enforced, and a database of v5 may still have the attributes of v4.
Found ==
  {[version |-> 3, rows |-> Tables(Unsuffixed, rows)] :
     rows \in SUBSET OfKinds(DbRows, KindsOf(Unsuffixed))} \cup
  {[version |-> 5, rows |-> [Tables(5, rows) EXCEPT ![Unsuffixed] = old]] :
     rows \in {r \in SUBSET OfKinds(DbRows, KindsOf(5)) : Legal(5, r)},
     old \in SUBSET OfKinds(DbRows, {"attributes"})} \cup
  {[version |-> v, rows |-> Tables(v, rows)] :
     v \in {7, 12, DbVersion, DbVersion + 1},
     rows \in {r \in SUBSET DbRows : Legal(7, r)}}

NewDatabase == [version |-> 0, rows |-> Tables(Unsuffixed, {})]

MigrationsInit ==
  /\ start \in Found \cup {NewDatabase}
  /\ disk = start
  /\ work = start
  /\ dbPhase = "closed"
  /\ target = 0
  /\ step = 0

-----------------------------------------------------------------------------
(* The migrations.                                                         *)

\* The tables in the order in which they are copied.
Order == <<"devices", "descriptors", "endpoints", "clusters", "attributes", "unsupported">>

\* Where a migration takes a kind from.
SourceOf(v, kind) ==
  IF v = 4 \/ (v = 5 /\ kind # "descriptors") THEN Unsuffixed ELSE v - 1

\* _migrate_tables: the rows go one by one into the new table, and what needs a
\* row that is not there is an IntegrityError.
Fitting(v, rows, db) ==
  {row \in rows : Needs(v, row) \subseteq IF v = 4 THEN db[Unsuffixed] ELSE db[v]}

\* Only _migrate_to_v5 discards what does not fit.
Copied(v, kind, db) ==
  LET rows == OfKinds(db[SourceOf(v, kind)], {kind})
      fit == Fitting(v, rows, db)
  IN  [raises |-> v # 5 /\ fit # rows,
       rows |-> [db EXCEPT ![v] = @ \cup fit]]

\* The end of _migrate_to_v6: the attributes of v4 are tried again when some are
\* missing.
SecondPass(db) ==
  LET old == OfKinds(db[Unsuffixed], {"attributes"})
      new == OfKinds(db[6], {"attributes"})
  IN  IF Cardinality(new) < Cardinality(old)
      THEN [db EXCEPT ![6] = @ \cup Fitting(6, old, db)]
      ELSE db

\* The statements of a migration: 1 is its schema, then come the tables, then
\* the second pass.
TableOf(v, s) == IF s \in 2 .. Len(Order) + 1 /\ Order[s - 1] \in KindsOf(v)
                 THEN Order[s - 1] ELSE "none"
LastStep == Len(Order) + 2

-----------------------------------------------------------------------------
(* _run_migrations.                                                        *)

Failing ==
  /\ dbPhase' = "failed"
  /\ work' = disk
  /\ UNCHANGED <<start, disk, target, step>>

\* The database is of the newest schema, or of one that is newer still.
NothingToMigrate ==
  /\ dbPhase = "closed"
  /\ disk.version >= DbVersion
  /\ dbPhase' = "ready"
  /\ UNCHANGED <<start, disk, work, target, step>>

BeginMigration ==
  /\ dbPhase = "closed"
  /\ disk.version \in 1 .. DbVersion - 1
  /\ dbPhase' = "migrating"
  /\ work' = disk
  /\ target' = IF disk.version < 4 THEN 4 ELSE disk.version + 1
  /\ step' = 1
  /\ UNCHANGED <<start, disk>>

\* Mutant of Schema: sqlite3's own executescript commits before it starts.
SchemaCommitting ==
  /\ dbPhase = "migrating"
  /\ step = 1
  /\ disk' = work
  /\ work' = [version |-> target, rows |-> [work.rows EXCEPT ![target] = {}]]
  /\ step' = 2
  /\ UNCHANGED <<start, dbPhase, target>>

\* executescript: user_version is set, and the new tables are dropped and created.
Schema ==
  /\ dbPhase = "migrating"
  /\ step = 1
  /\ work' = [version |-> target, rows |-> [work.rows EXCEPT ![target] = {}]]
  /\ step' = 2
  /\ UNCHANGED <<start, disk, dbPhase, target>>

CopyTable ==
  /\ dbPhase = "migrating"
  /\ step \in 2 .. LastStep - 1
  /\ LET kind == TableOf(target, step)
         copied == Copied(target, kind, work.rows)
     IN  IF kind # "none" /\ copied.raises THEN Failing
         ELSE /\ work' = IF kind = "none" THEN work ELSE [work EXCEPT !.rows = copied.rows]
              /\ step' = step + 1
              /\ UNCHANGED <<start, disk, dbPhase, target>>

\* The next migration, or COMMIT.
EndMigration ==
  /\ dbPhase = "migrating"
  /\ step = LastStep
  /\ work' = IF target = 6 THEN [work EXCEPT !.rows = SecondPass(@)] ELSE work
  /\ IF target < DbVersion
     THEN /\ target' = target + 1
          /\ step' = 1
          /\ UNCHANGED <<disk, dbPhase>>
     ELSE /\ disk' = work
          /\ dbPhase' = "ready"
          /\ UNCHANGED <<target, step>>
  /\ UNCHANGED start

\* Any statement may raise something else: ROLLBACK, and the listener is closed.
StatementFails ==
  /\ dbPhase = "migrating"
  /\ Failing

\* A database without tables is given the newest schema outside of a
\* transaction, user_version first: every statement commits itself.
CreateTables ==
  /\ dbPhase = "closed"
  /\ disk.version = 0
  /\ dbPhase' = "creating"
  /\ disk' = [disk EXCEPT !.version = DbVersion]
  /\ work' = disk'
  /\ UNCHANGED <<start, target, step>>

TablesCreated ==
  /\ dbPhase = "creating"
  /\ dbPhase' = "ready"
  /\ UNCHANGED <<start, disk, work, target, step>>

\* The program ends at any time and is started again.
Reopen ==
  /\ dbPhase # "closed"
  /\ dbPhase' = "closed"
  /\ work' = disk
  /\ target' = 0
  /\ step' = 0
  /\ UNCHANGED <<start, disk>>

MigrationsNext ==
  \/ NothingToMigrate \/ BeginMigration \/ Schema \/ CopyTable \/ EndMigration
  \/ StatementFails \/ CreateTables \/ TablesCreated \/ Reopen

MigrationsSpec == MigrationsInit /\ [][MigrationsNext]_migrationVars

-----------------------------------------------------------------------------
(* Properties.                                                             *)

Database == [version : 0 .. DbVersion + 1, rows : [TableVersions -> SUBSET DbRows]]

MigrationsTypeOK ==
  /\ {start, disk, work} \subseteq Database
  /\ dbPhase \in {"closed", "migrating", "creating", "ready", "failed"}
  /\ target \in {0} \cup Versions
  /\ step \in 0 .. LastStep

\* What there is to keep: of a version without foreign keys the rows that have
\* all their parents, of a later one every row.
ToKeep(db) ==
  LET rows == db.rows[IF db.version < 4 THEN Unsuffixed ELSE db.version]
      parents == {row \in rows : Needs(DbVersion, row) \subseteq rows}
  IN  IF db.version < 4 THEN {row \in parents : Needs(DbVersion, row) \subseteq parents}
      ELSE rows

\* The comment in _run_migrations: all migrations succeed or the database is not
\* touched, whatever fails and whenever the program ends.  When they do, no row
\* of the database that was found is lost, though v5 drops rows that v6 accepts,
\* and none is made up, apart from attributes of v4 that are given back.
AllOrNothing ==
  start.version > 0 /\ disk # start =>
    /\ disk.version = DbVersion
    /\ ToKeep(start) \subseteq disk.rows[DbVersion]
    /\ disk.rows[DbVersion] \subseteq ToKeep(start) \cup OfKinds(start.rows[Unsuffixed], {"attributes"})
=============================================================================
