--------------------------- MODULE StorageProofs ----------------------------
(***************************************************************************)
(* Proofs about the database and the groups that are kept in it.           *)
(* Migrations, for any sets of endpoints and values and wherever the       *)
(* program dies: the file holds the database that was found, with every    *)
(* row of it, or the new version of all of them.  GroupMembers, for any    *)
(* groups and any number of objects and of events in the queue: the groups *)
(* in the database are those of the device, once the listener has written  *)
(* everything.                                                             *)
(***************************************************************************)
EXTENDS Migrations, GroupMembers, FiniteSetTheorems, SequenceTheorems, WellFoundedInduction,
        TLAPS

OldAttributes == OfKinds(start.rows[Unsuffixed], {"attributes"})

\* What a database of the newest schema may contain.
KeepsAll(rows) == ToKeep(start) \subseteq rows /\ rows \subseteq ToKeep(start) \cup OldAttributes

\* The tables of the version before the one that is being made, which it is copied from.
SourceInv ==
  LET db == work.rows IN
  /\ db[Unsuffixed] = start.rows[Unsuffixed]
  /\ target \in {4, 5} => start.version = 3
  /\ target = 5 => db[4] = OfKinds(ToKeep(start), {"descriptors"})
  /\ target = 6 => /\ start.version \in {3, 5}
                   /\ db[5] \subseteq ToKeep(start)
                   /\ OfKinds(ToKeep(start), TableKinds \ {"attributes"}) \subseteq db[5]
                   /\ start.version = 5 => ToKeep(start) \subseteq db[5]
  /\ target >= 7 => KeepsAll(db[target - 1])

\* The kinds that were copied.
DoneBefore(s) == {Order[i] : i \in 1 .. s - 2}
Done == DoneBefore(step)

TablesInv ==
  LET db == work.rows IN
  step >= 2 =>
    /\ work.version = target
    /\ target = 4 => db[4] = OfKinds(ToKeep(start), {"descriptors"} \cap Done)
    /\ target = 5 => /\ db[5] \subseteq OfKinds(ToKeep(start), Done)
                     /\ OfKinds(ToKeep(start), Done \ {"attributes"}) \subseteq db[5]
    /\ target >= 6 => db[target] = OfKinds(db[target - 1], Done)

MigratingInv ==
  dbPhase = "migrating" =>
    /\ disk = start
    /\ start.version \in {3, 5, 7, 12}
    /\ target \in Versions /\ step \in 1 .. LastStep
    /\ work \in Database
    /\ SourceInv /\ TablesInv

DiskInv ==
  /\ start \in Found \cup {NewDatabase}
  /\ start.version = 0 => disk.version \in {0, DbVersion}
  /\ start.version > 0 /\ disk # start =>
       disk.version = DbVersion /\ KeepsAll(disk.rows[DbVersion])

MigrationsInv == MigrationsTypeOK /\ DiskInv /\ MigratingInv

-----------------------------------------------------------------------------
(* The schemas and the rows.                                               *)

LEMMA NeedsOf ==
  ASSUME NEW v, NEW row
  PROVE  /\ row[1] = "devices" => Needs(v, row) = {}
         /\ row[1] \in {"descriptors", "endpoints"} => Needs(v, row) = {<<"devices", 0>>}
         /\ row[1] = "clusters" => Needs(v, row) = {<<"endpoints", row[2]>>}
         /\ row[1] = "attributes" => Needs(v, row) = IF v = 5 THEN {<<"endpoints", row[2]>>}
                                                     ELSE {<<"devices", 0>>}
         /\ row[1] = "unsupported" => Needs(v, row) = {<<"devices", 0>>, <<"clusters", row[2]>>}
BY DEF Needs, OfDevice

LEMMA KindsOfVersions ==
  /\ KindsOf(Unsuffixed) = TableKinds \ {"unsupported"}
  /\ KindsOf(4) = {"descriptors"}
  /\ KindsOf(5) = TableKinds \ {"unsupported"} /\ KindsOf(6) = TableKinds \ {"unsupported"}
  /\ \A v \in Versions : v >= 7 => KindsOf(v) = TableKinds
BY DEF KindsOf, Unsuffixed, Versions, DbVersion

\* The databases that are migrated.
LEMMA FoundTypes ==
  ASSUME NEW db \in Found
  PROVE  /\ db \in Database
         /\ db.version \in {3, 5, 7, 12, 13, 14}
         /\ db.version = 3 => db.rows[3] \subseteq OfKinds(DbRows, KindsOf(3))
         /\ db.version = 5 => db.rows[5] \subseteq OfKinds(DbRows, KindsOf(5))
<1> DEFINE Goal == /\ db \in Database
                   /\ db.version \in {3, 5, 7, 12, 13, 14}
                   /\ db.version = 3 => db.rows[3] \subseteq OfKinds(DbRows, KindsOf(3))
                   /\ db.version = 5 => db.rows[5] \subseteq OfKinds(DbRows, KindsOf(5))
           Old == {[version |-> 3, rows |-> Tables(Unsuffixed, rows)] :
                     rows \in SUBSET OfKinds(DbRows, KindsOf(Unsuffixed))}
           OfV5 == {[version |-> 5, rows |-> [Tables(5, rows) EXCEPT ![Unsuffixed] = old]] :
                     rows \in {r \in SUBSET OfKinds(DbRows, KindsOf(5)) : Legal(5, r)},
                     old \in SUBSET OfKinds(DbRows, {"attributes"})}
           Later == {[version |-> v, rows |-> Tables(v, rows)] :
                     v \in {7, 12, DbVersion, DbVersion + 1},
                     rows \in {r \in SUBSET DbRows : Legal(7, r)}}
<1>1. ASSUME db \in Old
      PROVE  Goal
  <2>1. PICK rows \in SUBSET OfKinds(DbRows, KindsOf(3)) :
          db = [version |-> 3, rows |-> Tables(3, rows)]
    BY <1>1 DEF Unsuffixed
  <2> QED BY <2>1 DEF Tables, OfKinds, Unsuffixed, DbVersion, Database, TableVersions, Versions
<1>2. ASSUME db \in OfV5
      PROVE  Goal
  <2>1. PICK rows \in SUBSET OfKinds(DbRows, KindsOf(5)), old \in SUBSET OfKinds(DbRows, {"attributes"}) :
          db = [version |-> 5, rows |-> [Tables(5, rows) EXCEPT ![3] = old]]
    BY <1>2 DEF Unsuffixed
  <2> QED BY <2>1 DEF Tables, OfKinds, Unsuffixed, DbVersion, Database, TableVersions, Versions
<1>3. ASSUME db \in Later
      PROVE  Goal
  <2>1. PICK v \in {7, 12, 13, 14}, rows \in SUBSET DbRows :
          db = [version |-> v, rows |-> Tables(v, rows)]
    BY <1>3 DEF DbVersion
  <2> QED BY <2>1 DEF Tables, Unsuffixed, DbVersion, Database, TableVersions, Versions
<1>4. Found = Old \cup OfV5 \cup Later
  BY DEF Found
<1> HIDE DEF Old, OfV5, Later, Goal
<1>5. Goal
  BY <1>1, <1>2, <1>3, <1>4
<1> QED BY <1>5 DEF Goal

\* What there is to keep, kind by kind.
LEMMA Keeping ==
  ASSUME start \in Found
  PROVE  /\ start.version # 3 => ToKeep(start) = start.rows[start.version]
         /\ start.version = 3 =>
              LET rows == start.rows[3] IN
              ToKeep(start) = {row \in rows :
                \/ row[1] = "devices"
                \/ /\ <<"devices", 0>> \in rows
                   /\ row[1] = "clusters" => <<"endpoints", row[2]>> \in rows}
<1>1. start.version \in {3, 5, 7, 12, 13, 14}
  BY FoundTypes
<1>2. CASE start.version = 3
  <2> DEFINE rows == start.rows[3]
             device == <<"devices", 0>>
             parents == {row \in rows : Needs(13, row) \subseteq rows}
  <2>1. rows \subseteq OfKinds(DbRows, TableKinds \ {"unsupported"})
    BY <1>2, FoundTypes, KindsOfVersions DEF Unsuffixed
  <2>2. ASSUME NEW row \in rows
        PROVE  /\ row[1] \in {"devices", "descriptors", "endpoints", "clusters", "attributes"}
               /\ row[1] = "devices" => Needs(13, row) = {}
               /\ row[1] \in {"descriptors", "endpoints", "attributes"} => Needs(13, row) = {device}
               /\ row[1] = "clusters" => Needs(13, row) = {<<"endpoints", row[2]>>}
    BY <2>1, NeedsOf DEF OfKinds, TableKinds
  <2>3. Needs(13, device) = {} /\ \A e : Needs(13, <<"endpoints", e>>) = {device}
    <3>1. device[1] = "devices" /\ \A e : <<"endpoints", e>>[1] = "endpoints"
      OBVIOUS
    <3> QED BY <3>1, NeedsOf
  <2>4. ToKeep(start) = {row \in parents : Needs(13, row) \subseteq parents}
    BY <1>2 DEF ToKeep, Unsuffixed, DbVersion
  <2> HIDE DEF rows
  <2>5. ASSUME NEW row \in rows
        PROVE  row \in parents /\ Needs(13, row) \subseteq parents <=>
                 \/ row[1] = "devices"
                 \/ /\ device \in rows
                    /\ row[1] = "clusters" => <<"endpoints", row[2]>> \in rows
    <3>1. CASE row[1] = "devices"
      BY <2>2, <3>1
    <3>2. CASE row[1] \in {"descriptors", "endpoints", "attributes"}
      BY <2>2, <2>3, <3>2
    <3>3. CASE row[1] = "clusters"
      BY <2>2, <2>3, <3>3
    <3> QED BY <2>2, <3>1, <3>2, <3>3
  <2>6. ToKeep(start) = {row \in rows :
                \/ row[1] = "devices"
                \/ /\ device \in rows
                   /\ row[1] = "clusters" => <<"endpoints", row[2]>> \in rows}
    BY <2>4, <2>5
  <2> QED BY <1>2, <2>6 DEF rows
<1>3. CASE start.version # 3
  BY <1>1, <1>3 DEF ToKeep
<1> QED BY <1>2, <1>3

LEMMA StepsOfOrder ==
  /\ DoneBefore(2) = {}
  /\ \A s \in 2 .. LastStep - 1 : DoneBefore(s + 1) = DoneBefore(s) \cup {Order[s - 1]}
  /\ DoneBefore(3) = {"devices"}
  /\ DoneBefore(4) = {"devices", "descriptors"}
  /\ DoneBefore(5) = {"devices", "descriptors", "endpoints"}
  /\ DoneBefore(6) = {"devices", "descriptors", "endpoints", "clusters"}
  /\ DoneBefore(7) = TableKinds \ {"unsupported"}
  /\ DoneBefore(LastStep) = TableKinds
<1>1. LastStep = 8
  BY DEF LastStep, Order
<1>2. /\ Order[1] = "devices" /\ Order[2] = "descriptors" /\ Order[3] = "endpoints"
      /\ Order[4] = "clusters" /\ Order[5] = "attributes" /\ Order[6] = "unsupported"
  BY DEF Order
<1>3. DoneBefore(2) = {}
  BY DEF DoneBefore
<1>4. ASSUME NEW s \in 2 .. 7
      PROVE  DoneBefore(s + 1) = DoneBefore(s) \cup {Order[s - 1]}
  <2>1. 1 .. (s + 1) - 2 = (1 .. s - 2) \cup {s - 1}
    OBVIOUS
  <2> HIDE DEF Order
  <2> QED BY <2>1 DEF DoneBefore
<1>5. DoneBefore(3) = {"devices"}
  BY <1>3, <1>4, <1>2
<1>6. DoneBefore(4) = {"devices", "descriptors"}
  BY <1>5, <1>4, <1>2
<1>7. DoneBefore(5) = {"devices", "descriptors", "endpoints"}
  BY <1>6, <1>4, <1>2
<1>8. DoneBefore(6) = {"devices", "descriptors", "endpoints", "clusters"}
  BY <1>7, <1>4, <1>2
<1>9. DoneBefore(7) = TableKinds \ {"unsupported"}
  BY <1>8, <1>4, <1>2 DEF TableKinds
<1>10. DoneBefore(8) = TableKinds
  BY <1>9, <1>4, <1>2 DEF TableKinds
<1> QED BY <1>1, <1>3, <1>4, <1>5, <1>6, <1>7, <1>8, <1>9, <1>10

\* The tables at the steps of a migration.
LEMMA TablesOfSteps ==
  ASSUME NEW v \in Versions, NEW s \in 2 .. LastStep - 1
  PROVE  /\ Order[s - 1] \in TableKinds
         /\ TableOf(v, s) \in {"none", Order[s - 1]}
         /\ TableOf(v, s) = "none" <=> Order[s - 1] \notin KindsOf(v)
<1>1. LastStep = 8 /\ Len(Order) = 6
  BY DEF LastStep, Order
<1>2. \A i \in 1 .. 6 : Order[i] \in TableKinds
  BY DEF Order, TableKinds
<1>3. s - 1 \in 1 .. 6
  BY <1>1
<1>4. "none" \notin TableKinds
  BY DEF TableKinds
<1> QED BY <1>1, <1>2, <1>3, <1>4 DEF TableOf

\* What copying a table does to the tables.
AllTables == [TableVersions -> SUBSET DbRows]

CopiesRows(v, kind, db) ==
  LET copied == Copied(v, kind, db)
      rows == OfKinds(db[SourceOf(v, kind)], {kind})
      fit == Fitting(v, rows, db)
  IN  /\ copied.rows \in AllTables
      /\ copied.rows[v] = db[v] \cup fit
      /\ \A u \in TableVersions : u # v => copied.rows[u] = db[u]
      /\ fit \subseteq rows

LEMMA CopiedTables ==
  ASSUME NEW v \in Versions, NEW kind \in TableKinds, NEW db \in AllTables
  PROVE  CopiesRows(v, kind, db)
<1> DEFINE rows == OfKinds(db[SourceOf(v, kind)], {kind})
           fit == Fitting(v, rows, db)
<1>1. SourceOf(v, kind) \in TableVersions /\ v \in TableVersions
  BY DEF SourceOf, TableVersions, Versions, Unsuffixed, DbVersion
<1>2. rows \subseteq DbRows
  BY <1>1 DEF OfKinds, AllTables
<1>3. fit \subseteq rows
  BY DEF Fitting
<1>4. Copied(v, kind, db) = [raises |-> v # 5 /\ fit # rows, rows |-> [db EXCEPT ![v] = @ \cup fit]]
  BY DEF Copied
<1> HIDE DEF rows, fit
<1>5. Copied(v, kind, db).rows = [db EXCEPT ![v] = @ \cup fit]
  BY <1>4
<1>6. [db EXCEPT ![v] = @ \cup fit] \in [TableVersions -> SUBSET DbRows]
  BY <1>1, <1>2, <1>3 DEF AllTables
<1> QED BY <1>1, <1>3, <1>5, <1>6 DEF rows, fit, AllTables, CopiesRows

LEMMA CopiedWhole ==
  ASSUME NEW v, NEW kind, NEW db, v # 5, ~Copied(v, kind, db).raises
  PROVE  LET rows == OfKinds(db[SourceOf(v, kind)], {kind})
         IN  Fitting(v, rows, db) = rows
BY Zenon DEF Copied

-----------------------------------------------------------------------------
(* The steps.                                                              *)

\* The rows of a table that is copied, when that does not raise.
CopiesTo(new) ==
  LET kind == TableOf(target, step)
      copied == Copied(target, kind, work.rows)
  IN  \/ kind = "none" /\ new = work.rows
      \/ kind # "none" /\ ~copied.raises /\ new = copied.rows

LEMMA CopyStep ==
  ASSUME MigrationsInv, dbPhase = "migrating", step \in 2 .. LastStep - 1,
         NEW new \in [TableVersions -> SUBSET DbRows], CopiesTo(new)
  PROVE  /\ \A u \in TableVersions : u # target => new[u] = work.rows[u]
         /\ target = 4 => new[4] = OfKinds(ToKeep(start), {"descriptors"} \cap DoneBefore(step + 1))
         /\ target = 5 => /\ new[5] \subseteq OfKinds(ToKeep(start), DoneBefore(step + 1))
                          /\ OfKinds(ToKeep(start), DoneBefore(step + 1) \ {"attributes"}) \subseteq new[5]
         /\ target >= 6 => new[target] = OfKinds(new[target - 1], DoneBefore(step + 1))
<1> DEFINE db == work.rows
           kind == Order[step - 1]
           kept == ToKeep(start)
           old == start.rows[3]
           device == <<"devices", 0>>
           copied == Copied(target, kind, db)
           rows == OfKinds(db[SourceOf(target, kind)], {kind})
           fit == Fitting(target, rows, db)
<1>1. /\ target \in Versions /\ SourceInv /\ TablesInv /\ step >= 2
      /\ db \in [TableVersions -> SUBSET DbRows]
      /\ start \in Found /\ start.version \in {3, 5, 7, 12}
  <2>1. LastStep = 8
    BY DEF LastStep, Order
  <2>2. start.version # 0 /\ NewDatabase.version = 0
    BY DEF MigrationsInv, MigratingInv, NewDatabase
  <2> QED BY <2>1, <2>2 DEF MigrationsInv, MigratingInv, DiskInv, Database
<1>2. kind \in TableKinds /\ (TableOf(target, step) = "none" <=> kind \notin KindsOf(target))
                         /\ TableOf(target, step) \in {"none", kind}
  BY <1>1, TablesOfSteps
<1>3. DoneBefore(step + 1) = Done \cup {kind}
  BY StepsOfOrder DEF Done
<1>4. \/ kind \notin KindsOf(target) /\ new = db
      \/ kind \in KindsOf(target) /\ ~copied.raises /\ new = copied.rows
  BY <1>2, Zenon DEF CopiesTo
<1>15. target \in Versions /\ kind \in TableKinds /\ db \in AllTables
  BY <1>1, <1>2 DEF AllTables
<1> HIDE DEF db, kind
<1>16. CopiesRows(target, kind, db)
  BY <1>15, CopiedTables
<1>5. /\ copied.rows[target] = db[target] \cup fit
      /\ \A u \in TableVersions : u # target => copied.rows[u] = db[u]
      /\ fit \subseteq rows
  BY <1>16 DEF CopiesRows
<1>14. target # 5 /\ ~copied.raises => fit = rows
  BY CopiedWhole, Zenon
<1>6. target \in TableVersions /\ \A u \in TableVersions : u # target => new[u] = db[u]
  BY <1>1, <1>4, <1>5 DEF TableVersions
<1>7. \/ kind \notin KindsOf(target) /\ new[target] = db[target]
      \/ /\ kind \in KindsOf(target) /\ new[target] = db[target] \cup fit
         /\ target # 5 => fit = rows
  BY <1>4, <1>5, <1>14
<1>8. start.version = 3 =>
        kept = {row \in old : \/ row[1] = "devices"
                              \/ /\ device \in old
                                 /\ row[1] = "clusters" => <<"endpoints", row[2]>> \in old}
  BY <1>1, Keeping
<1>9. start.version = 3 => old \subseteq OfKinds(DbRows, TableKinds \ {"unsupported"})
  BY <1>1, FoundTypes, KindsOfVersions DEF Unsuffixed
<1>10. start.version = 5 => kept \subseteq OfKinds(DbRows, TableKinds \ {"unsupported"})
  BY <1>1, FoundTypes, KindsOfVersions, Keeping
<1> HIDE DEF db, kind, kept, old, copied, fit
<1>11. ASSUME target = 4
       PROVE  new[4] = OfKinds(kept, {"descriptors"} \cap DoneBefore(step + 1))
  <2>1. db[4] = OfKinds(kept, {"descriptors"} \cap Done) /\ db[3] = old /\ start.version = 3
    BY <1>1, <1>11 DEF TablesInv, SourceInv, Unsuffixed, kept, old, db
  <2>2. CASE kind # "descriptors"
    <3>1. new[4] = db[4]
      BY <1>7, <1>11, <2>2, KindsOfVersions
    <3>2. {"descriptors"} \cap DoneBefore(step + 1) = {"descriptors"} \cap Done
      BY <1>3, <2>2
    <3> QED BY <2>1, <3>1, <3>2
  <2>3. CASE kind = "descriptors"
    <3>1. new[4] = db[4] \cup fit /\ fit = rows
      BY <1>7, <1>11, <2>3, KindsOfVersions
    <3>2. rows = OfKinds(old, {"descriptors"})
      BY <1>11, <2>1, <2>3 DEF SourceOf, Unsuffixed
    <3>3. \A row \in fit : row[1] = "descriptors" /\ device \in old
      <4>1. \A row \in fit : row[1] = "descriptors" /\ Needs(4, row) \subseteq old
        BY <1>11, <2>1, <3>1, <3>2 DEF fit, Fitting, OfKinds, Unsuffixed
      <4> QED BY <4>1, NeedsOf
    <3>4. OfKinds(kept, {"descriptors"}) = fit
      BY <1>8, <2>1, <3>1, <3>2, <3>3 DEF OfKinds
    <3>5. {"descriptors"} \cap DoneBefore(step + 1) = {"descriptors"}
      BY <1>3, <2>3
    <3>6. db[4] \subseteq OfKinds(kept, {"descriptors"})
      BY <2>1 DEF OfKinds
    <3> QED BY <3>1, <3>4, <3>5, <3>6
  <2> QED BY <2>2, <2>3
<1>12. ASSUME target = 5
       PROVE  /\ new[5] \subseteq OfKinds(kept, DoneBefore(step + 1))
              /\ OfKinds(kept, DoneBefore(step + 1) \ {"attributes"}) \subseteq new[5]
  <2>1. /\ db[5] \subseteq OfKinds(kept, Done)
        /\ OfKinds(kept, Done \ {"attributes"}) \subseteq db[5]
        /\ db[3] = old /\ start.version = 3 /\ db[4] = OfKinds(kept, {"descriptors"})
    BY <1>1, <1>12 DEF TablesInv, SourceInv, Unsuffixed, kept, old, db
  <2>2. kept \subseteq old /\ kept \subseteq OfKinds(DbRows, TableKinds \ {"unsupported"})
    BY <1>8, <1>9, <2>1
  <2>3. CASE kind = "unsupported"
    <3>1. new[5] = db[5]
      BY <1>7, <1>12, <2>3, KindsOfVersions
    <3>2. OfKinds(kept, {"unsupported"}) = {}
      BY <2>2 DEF OfKinds
    <3> QED BY <1>3, <2>1, <2>3, <3>1, <3>2 DEF OfKinds
  <2>4. CASE kind # "unsupported"
    <3>1. new[5] = db[5] \cup fit
      BY <1>2, <1>7, <1>12, <2>4, KindsOfVersions
    <3>2. SUFFICES /\ fit \subseteq OfKinds(kept, {kind})
                   /\ kind # "attributes" => OfKinds(kept, {kind}) \subseteq fit
      BY <1>3, <2>1, <3>1 DEF OfKinds
    <3>3. rows = OfKinds(IF kind = "descriptors" THEN OfKinds(kept, {"descriptors"}) ELSE old, {kind})
      BY <1>12, <2>1 DEF SourceOf, Unsuffixed
    <3>4. fit = {row \in rows : Needs(5, row) \subseteq db[5]}
      BY <1>12 DEF fit, Fitting
    <3>5. CASE kind = "devices"
      <4>1. \A row \in rows : Needs(5, row) = {}
        BY <3>3, <3>5, NeedsOf DEF OfKinds
      <4> QED BY <1>8, <2>1, <3>3, <3>4, <3>5, <4>1 DEF OfKinds
    <3>6. ASSUME kind \in {"descriptors", "endpoints", "clusters", "attributes"}
          PROVE  device \in db[5] <=> device \in old
      <4>1. device[1] = "devices"
        OBVIOUS
      <4>2. "devices" \in Done \ {"attributes"}
        <5>1. step \in 2 .. 7
          BY DEF LastStep, Order
        <5>2. kind # "devices"
          BY <3>6
        <5>3. step # 2
          BY <5>2 DEF kind, Order
        <5>4. "devices" \in Done
          <6>1. 1 \in 1 .. step - 2 /\ Order[1] = "devices"
            BY <5>1, <5>3 DEF Order
          <6> QED BY <6>1 DEF Done, DoneBefore
        <5> QED BY <5>4
      <4>3. device \in kept <=> device \in old
        BY <1>8, <2>1, <4>1
      <4>4. device \in kept => device \in OfKinds(kept, Done \ {"attributes"})
        BY <4>1, <4>2 DEF OfKinds
      <4>5. device \in db[5] => device \in kept
        BY <2>1 DEF OfKinds
      <4> QED BY <2>1, <4>3, <4>4, <4>5
    <3>7. CASE kind \in {"descriptors", "endpoints"}
      <4>1. \A row \in rows : row[1] = kind /\ Needs(5, row) = {device}
        BY <3>3, <3>7, NeedsOf DEF OfKinds
      <4>2. \A row \in rows : row \in old
        BY <2>2, <3>3 DEF OfKinds
      <4>3. OfKinds(kept, {kind}) \subseteq rows
        BY <2>2, <3>3 DEF OfKinds
      <4>4. \A row \in OfKinds(kept, {kind}) : device \in old
        BY <1>8, <2>1, <3>7 DEF OfKinds
      <4>5. fit \subseteq OfKinds(kept, {kind})
        BY <1>8, <2>1, <3>4, <3>6, <3>7, <4>1, <4>2 DEF OfKinds
      <4>6. OfKinds(kept, {kind}) \subseteq fit
        BY <3>4, <3>6, <3>7, <4>1, <4>3, <4>4
      <4> QED BY <4>5, <4>6
    <3>8. ASSUME kind \in {"clusters", "attributes"}, NEW e
          PROVE  <<"endpoints", e>> \in db[5] <=> <<"endpoints", e>> \in old /\ device \in old
      <4> DEFINE ep == <<"endpoints", e>>
      <4>1. ep[1] = "endpoints"
        OBVIOUS
      <4>2. "endpoints" \in Done \ {"attributes"}
        <5>1. step \in 2 .. 7
          BY DEF LastStep, Order
        <5>2. step \notin {2, 3, 4}
          BY <3>8 DEF kind, Order
        <5>3. 3 \in 1 .. step - 2 /\ Order[3] = "endpoints"
          BY <5>1, <5>2 DEF Order
        <5> QED BY <5>3 DEF Done, DoneBefore
      <4> HIDE DEF ep
      <4>3. ep \in kept <=> ep \in old /\ device \in old
        BY <1>8, <2>1, <4>1
      <4>4. ep \in kept => ep \in OfKinds(kept, Done \ {"attributes"})
        BY <4>1, <4>2 DEF OfKinds
      <4>5. ep \in db[5] => ep \in kept
        BY <2>1 DEF OfKinds
      <4>6. ep \in db[5] <=> ep \in old /\ device \in old
        BY <2>1, <4>3, <4>4, <4>5
      <4> QED BY <4>6 DEF ep
    <3>9. CASE kind \in {"clusters", "attributes"}
      <4>1. \A row \in rows : row \in old /\ row[1] = kind /\ Needs(5, row) = {<<"endpoints", row[2]>>}
        BY <3>3, <3>9, NeedsOf DEF OfKinds
      <4>2. ASSUME NEW row \in rows
            PROVE  row \in fit <=> <<"endpoints", row[2]>> \in old /\ device \in old
        <5>1. <<"endpoints", row[2]>> \in db[5] <=> <<"endpoints", row[2]>> \in old /\ device \in old
          BY <3>8, <3>9
        <5>2. Needs(5, row) = {<<"endpoints", row[2]>>}
          BY <4>1
        <5> QED BY <3>4, <5>1, <5>2
      <4>3. rows = OfKinds(old, {kind})
        BY <3>3, <3>9
      <4> QED BY <1>5, <1>8, <2>1, <3>9, <4>1, <4>2, <4>3 DEF OfKinds
    <3> QED BY <1>2, <2>4, <3>5, <3>7, <3>9 DEF TableKinds
  <2> QED BY <2>3, <2>4
<1>13. ASSUME target >= 6
       PROVE  new[target] = OfKinds(new[target - 1], DoneBefore(step + 1))
  <2>1. db[target] = OfKinds(db[target - 1], Done)
    BY <1>1, <1>13 DEF TablesInv, db
  <2>2. target - 1 \in TableVersions /\ target - 1 # target
    BY <1>1, <1>13 DEF Versions, TableVersions, DbVersion, Unsuffixed
  <2>3. new[target - 1] = db[target - 1]
    BY <1>6, <2>2
  <2>4. CASE kind \in KindsOf(target)
    <3>1. rows = OfKinds(db[target - 1], {kind})
      BY <1>1, <1>13 DEF SourceOf, Versions
    <3>2. new[target] = db[target] \cup rows
      BY <1>7, <1>13, <2>4
    <3> HIDE DEF rows
    <3> QED BY <1>3, <2>1, <2>3, <3>1, <3>2 DEF OfKinds
  <2>5. CASE kind \notin KindsOf(target)
    <3>1. target = 6 /\ kind = "unsupported"
      BY <1>1, <1>2, <1>13, <2>5, KindsOfVersions DEF Versions
    <3>2. db[5] \subseteq kept /\ kept \subseteq OfKinds(DbRows, TableKinds \ {"unsupported"})
      <4>1. start.version \in {3, 5} /\ db[5] \subseteq kept
        BY <1>1, <3>1 DEF SourceInv, kept, db
      <4> QED BY <1>8, <1>9, <1>10, <4>1
    <3>3. OfKinds(db[5], {"unsupported"}) = {}
      BY <3>2 DEF OfKinds
    <3> QED BY <1>3, <1>7, <2>1, <2>3, <2>5, <3>1, <3>3 DEF OfKinds
  <2> QED BY <2>4, <2>5
<1> QED BY <1>6, <1>11, <1>12, <1>13 DEF db, kept

LEMMA CopyTableStep ==
  ASSUME MigrationsInv, CopyTable
  PROVE  MigrationsInv'
<1>1. dbPhase = "migrating" /\ step \in 2 .. LastStep - 1 /\ LastStep = 8
  BY DEF CopyTable, LastStep, Order
<1>2. MigratingInv /\ work \in Database /\ target \in Versions /\ SourceInv /\ TablesInv
  BY <1>1 DEF MigrationsInv, MigratingInv
<1>3. CASE Failing
  BY <1>1, <1>3 DEF Failing, MigrationsInv, MigrationsTypeOK, MigratingInv, DiskInv
<1>4. CASE ~Failing
  <2>1. /\ step' = step + 1 /\ UNCHANGED <<start, disk, dbPhase, target>>
        /\ CopiesTo(work'.rows)
        /\ work' = work \/ work' = [work EXCEPT !.rows = Copied(target, TableOf(target, step), work.rows).rows]
    <3> DEFINE kind == TableOf(target, step)
               copied == Copied(target, kind, work.rows)
    <3>1. /\ step' = step + 1 /\ UNCHANGED <<start, disk, dbPhase, target>>
          /\ work' = IF kind = "none" THEN work ELSE [work EXCEPT !.rows = copied.rows]
          /\ ~(kind # "none" /\ copied.raises)
      BY <1>4, Zenon DEF CopyTable
    <3>2. CASE kind = "none"
      <4>1. work' = work
        BY <3>1, <3>2
      <4>2. work'.rows = work.rows
        BY <4>1
      <4> QED BY <3>1, <3>2, <4>1, <4>2, Zenon DEF CopiesTo
    <3>3. CASE kind # "none"
      <4> HIDE DEF kind, copied
      <4>1. work' = [work EXCEPT !.rows = copied.rows]
        BY <3>1, <3>3
      <4>2. work'.rows = copied.rows
        BY <1>2, <4>1 DEF Database
      <4>3. CopiesTo(work'.rows)
        BY <3>1, <3>3, <4>2, Zenon DEF CopiesTo, kind, copied
      <4> QED BY <3>1, <4>1, <4>3, Zenon DEF kind, copied
    <3> QED BY <3>2, <3>3
  <2>2. work'.rows \in [TableVersions -> SUBSET DbRows] /\ work' \in Database /\ work'.version = work.version
    <3>1. CASE work' = work
      BY <1>2, <3>1 DEF Database
    <3>2. CASE work' # work
      <4> DEFINE kind == TableOf(target, step)
                 rows == Copied(target, kind, work.rows).rows
      <4>1. work' = [work EXCEPT !.rows = rows]
        BY <2>1, <3>2
      <4>2. work'.rows = rows
        <5> HIDE DEF rows
        <5> QED BY <1>2, <4>1 DEF Database
      <4>3. kind \in TableKinds
        <5>1. kind # "none"
          <6> SUFFICES ASSUME kind = "none" PROVE FALSE
            OBVIOUS
          <6>1. work'.rows = work.rows
            BY <2>1, Zenon DEF CopiesTo
          <6> HIDE DEF rows
          <6> QED BY <1>2, <3>2, <4>1, <4>2, <6>1 DEF Database
        <5> QED BY <1>1, <1>2, <5>1, TablesOfSteps
      <4>4. work.rows \in AllTables
        BY <1>2 DEF Database, AllTables
      <4>5. CopiesRows(target, kind, work.rows)
        BY <1>2, <4>3, <4>4, CopiedTables
      <4>6. rows \in AllTables
        BY <4>5 DEF CopiesRows
      <4> HIDE DEF rows
      <4> QED BY <1>2, <4>1, <4>6 DEF Database, AllTables
    <3> QED BY <3>1, <3>2
  <2> DEFINE new == work'.rows
  <2>3. /\ \A u \in TableVersions : u # target => new[u] = work.rows[u]
        /\ target = 4 => new[4] = OfKinds(ToKeep(start), {"descriptors"} \cap DoneBefore(step + 1))
        /\ target = 5 => /\ new[5] \subseteq OfKinds(ToKeep(start), DoneBefore(step + 1))
                         /\ OfKinds(ToKeep(start), DoneBefore(step + 1) \ {"attributes"}) \subseteq new[5]
        /\ target >= 6 => new[target] = OfKinds(new[target - 1], DoneBefore(step + 1))
    BY <1>1, <2>1, <2>2, CopyStep
  <2>4. Done' = DoneBefore(step + 1)
    BY <2>1 DEF Done, DoneBefore
  <2>5. TablesInv'
    <3>1. target' = target /\ start' = start
      BY <2>1
    <3>2. ToKeep(start)' = ToKeep(start)
      BY <3>1
    <3>3. step >= 2 /\ work'.version = target
      BY <1>1, <1>2, <2>2 DEF TablesInv
    <3> QED BY <2>3, <2>4, <3>1, <3>2, <3>3, Zenon DEF TablesInv
  <2>6. SourceInv'
    <3>1. /\ Unsuffixed \in TableVersions /\ 4 \in TableVersions /\ 5 \in TableVersions
          /\ target - 1 \in TableVersions /\ Unsuffixed # target
      BY <1>2 DEF TableVersions, Unsuffixed, Versions, DbVersion
    <3>2. new[Unsuffixed] = work.rows[Unsuffixed] /\ new[target - 1] = work.rows[target - 1]
      BY <1>2, <2>3, <3>1 DEF Versions
    <3>3. (target = 5 => new[4] = work.rows[4]) /\ (target = 6 => new[5] = work.rows[5])
      BY <2>3, <3>1
    <3> HIDE DEF new
    <3>4. /\ new[Unsuffixed] = start.rows[Unsuffixed]
          /\ target \in {4, 5} => start.version = 3
          /\ target = 5 => new[4] = OfKinds(ToKeep(start), {"descriptors"})
          /\ target = 6 => /\ start.version \in {3, 5}
                           /\ new[5] \subseteq ToKeep(start)
                           /\ OfKinds(ToKeep(start), TableKinds \ {"attributes"}) \subseteq new[5]
                           /\ start.version = 5 => ToKeep(start) \subseteq new[5]
          /\ target >= 7 => KeepsAll(new[target - 1])
      BY <1>2, <3>2, <3>3 DEF SourceInv
    <3> QED BY <2>1, <3>4 DEF SourceInv, new, KeepsAll, OldAttributes
  <2> QED BY <1>1, <1>2, <2>1, <2>2, <2>5, <2>6 DEF MigrationsInv, MigrationsTypeOK, MigratingInv, DiskInv
<1> QED BY <1>3, <1>4

\* The attributes of v4 that v5 did not take are found by their number.
LEMMA SecondPassKeeps ==
  ASSUME MigrationsInv, dbPhase = "migrating", step = LastStep, target = 6
  PROVE  /\ KeepsAll(SecondPass(work.rows)[6])
         /\ SecondPass(work.rows) \in AllTables
         /\ SecondPass(work.rows)[Unsuffixed] = work.rows[Unsuffixed]
<1> DEFINE db == work.rows
           kept == ToKeep(start)
           old == OfKinds(db[Unsuffixed], {"attributes"})
           new == OfKinds(db[6], {"attributes"})
           device == <<"devices", 0>>
           found == start.rows[3]
           fit == Fitting(6, old, db)
<1>1. /\ SourceInv /\ TablesInv /\ step >= 2 /\ db \in AllTables /\ start \in Found
  <2>1. LastStep = 8
    BY DEF LastStep, Order
  <2>2. MigratingInv /\ start.version # 0 /\ NewDatabase.version = 0
    BY DEF MigrationsInv, MigratingInv, NewDatabase
  <2> QED BY <2>1, <2>2 DEF MigrationsInv, MigratingInv, DiskInv, Database, AllTables
<1>2. /\ db[5] \subseteq kept /\ OfKinds(kept, TableKinds \ {"attributes"}) \subseteq db[5]
      /\ start.version \in {3, 5} /\ (start.version = 5 => kept \subseteq db[5])
      /\ db[Unsuffixed] = found
  BY <1>1 DEF SourceInv, Unsuffixed
<1>3. /\ 5 \in TableVersions /\ 6 \in TableVersions /\ Unsuffixed \in TableVersions /\ Unsuffixed # 6
  BY DEF TableVersions, Versions, Unsuffixed, DbVersion
<1>4. \A u \in TableVersions : db[u] \subseteq DbRows
  BY <1>1 DEF AllTables
<1>5. \A row \in DbRows : row[1] \in TableKinds
  BY DEF DbRows
<1>6. db[6] = db[5]
  <2>1. db[6] = OfKinds(db[5], TableKinds)
    BY <1>1, StepsOfOrder DEF TablesInv, Done
  <2>2. \A row \in db[5] : row[1] \in TableKinds
    BY <1>3, <1>4, <1>5
  <2> QED BY <2>1, <2>2 DEF OfKinds
<1>7. SecondPass(db) = IF Cardinality(new) < Cardinality(old) THEN [db EXCEPT ![6] = @ \cup fit] ELSE db
  BY DEF SecondPass
<1>8. IsFiniteSet(old) /\ old \subseteq DbRows
  <2>1. old \subseteq DbRows
    BY <1>3, <1>4 DEF OfKinds
  <2>2. IsFiniteSet(DbEndpoints \cup {0})
    <3>1. IsFiniteSet({0})
      BY FS_Singleton
    <3> QED BY <3>1, EndpointsAreFinite, FS_Union
  <2>3. IsFiniteSet(TableKinds)
    <3>1. TableKinds = {"devices", "descriptors"} \cup {"endpoints", "clusters"} \cup {"attributes", "unsupported"}
      BY DEF TableKinds
    <3>2. \A a, b : IsFiniteSet({a, b})
      <4> TAKE a, b
      <4>1. {a, b} = {a} \cup {b}
        OBVIOUS
      <4>2. IsFiniteSet({a}) /\ IsFiniteSet({b})
        BY FS_Singleton
      <4>3. IsFiniteSet({a} \cup {b})
        BY <4>2, FS_Union
      <4> QED BY <4>1, <4>3
    <3>3. /\ IsFiniteSet({"devices", "descriptors"}) /\ IsFiniteSet({"endpoints", "clusters"})
          /\ IsFiniteSet({"attributes", "unsupported"})
      BY <3>2
    <3>4. IsFiniteSet({"devices", "descriptors"} \cup {"endpoints", "clusters"})
      BY <3>3, FS_Union
    <3> QED BY <3>1, <3>3, <3>4, FS_Union
  <2>4. IsFiniteSet(TableKinds \X (DbEndpoints \cup {0}))
    BY <2>2, <2>3, FS_Product
  <2>5. DbRows \subseteq TableKinds \X (DbEndpoints \cup {0})
    BY DEF DbRows
  <2>6. IsFiniteSet(DbRows)
    BY <2>4, <2>5, FS_Subset
  <2> QED BY <2>1, <2>6, FS_Subset
<1>9. start.version = 3 =>
        kept = {row \in found : \/ row[1] = "devices"
                                \/ /\ device \in found
                                   /\ row[1] = "clusters" => <<"endpoints", row[2]>> \in found}
  BY <1>1, Keeping
<1>10. old = OldAttributes
  BY <1>1 DEF SourceInv, OldAttributes
<1>11. device[1] = "devices" /\ device \in DbRows /\ "devices" \in TableKinds
  BY DEF DbRows, TableKinds, OfDevice
<1> HIDE DEF db, kept, old, new, device, found, fit
<1>12. fit \subseteq old
  BY DEF fit, Fitting
<1>13. ASSUME NEW row \in kept, row \notin db[6]
       PROVE  Cardinality(new) < Cardinality(old) /\ kept \subseteq db[6] \cup fit
  <2>1. start.version = 3 /\ row \in found
    BY <1>2, <1>6, <1>9, <1>13
  <2>2. \A r \in kept : r \in DbRows /\ r[1] \in TableKinds
    BY <1>2, <1>3, <1>4, <1>5, <1>9, <2>1
  <2>3. \A r \in kept : r \notin db[6] => r[1] = "attributes"
    BY <1>2, <1>6, <2>2 DEF OfKinds
  <2>4. new \subseteq old /\ row \in old /\ row \notin new
    BY <1>2, <1>6, <1>9, <1>13, <2>1, <2>3 DEF new, old, OfKinds
  <2>5. Cardinality(new) < Cardinality(old)
    <3>1. new # old
      BY <2>4
    <3>2. Cardinality(new) \in Nat /\ Cardinality(old) \in Nat
      BY <1>8, <2>4, FS_Subset, FS_CardinalityType
    <3>3. Cardinality(new) <= Cardinality(old) /\ (Cardinality(old) = Cardinality(new) => old = new)
      BY <1>8, <2>4, FS_Subset
    <3> QED BY <3>1, <3>2, <3>3
  <2>6. device \in found
    BY <1>9, <1>13, <2>1, <2>3
  <2>7. device \in kept
    BY <1>9, <1>11, <2>1, <2>6
  <2>8. device \in db[6]
    BY <1>11, <2>3, <2>7
  <2>9. ASSUME NEW r \in kept, r \notin db[6]
        PROVE  r \in fit
    <3>1. r[1] = "attributes"
      BY <2>3, <2>9
    <3>2. Needs(6, r) = {device}
      BY <3>1, NeedsOf DEF device
    <3>3. r \in old
      BY <1>2, <1>9, <2>1, <3>1 DEF old, OfKinds
    <3> QED BY <2>8, <3>2, <3>3 DEF fit, Fitting
  <2> QED BY <2>5, <2>9
<1>14. CASE Cardinality(new) < Cardinality(old)
  <2>1. SecondPass(db) = [db EXCEPT ![6] = @ \cup fit]
    BY <1>7, <1>14
  <2>2. SecondPass(db)[6] = db[6] \cup fit /\ SecondPass(db)[Unsuffixed] = db[Unsuffixed]
    BY <1>1, <1>3, <2>1 DEF AllTables
  <2>3. SecondPass(db) \in AllTables
    BY <1>1, <1>3, <1>8, <1>12, <2>1 DEF AllTables
  <2>4. kept \subseteq db[6] \cup fit
    BY <1>13
  <2>5. db[6] \cup fit \subseteq kept \cup OldAttributes
    BY <1>2, <1>6, <1>10, <1>12
  <2> QED BY <2>2, <2>3, <2>4, <2>5 DEF db, kept, KeepsAll
<1>15. CASE ~(Cardinality(new) < Cardinality(old))
  <2>1. SecondPass(db) = db
    BY <1>7, <1>15
  <2>2. kept \subseteq db[6]
    BY <1>13, <1>15
  <2> QED BY <1>1, <1>2, <1>6, <2>1, <2>2 DEF db, kept, KeepsAll
<1> QED BY <1>14, <1>15

LEMMA EndMigrationStep ==
  ASSUME MigrationsInv, EndMigration
  PROVE  MigrationsInv'
<1>1. dbPhase = "migrating" /\ step = LastStep /\ LastStep = 8
  BY DEF EndMigration, LastStep, Order
<1>2. /\ MigratingInv /\ work \in Database /\ target \in Versions /\ SourceInv /\ TablesInv
      /\ disk = start /\ start.version \in {3, 5, 7, 12} /\ work.version = target
  BY <1>1 DEF MigrationsInv, MigratingInv, TablesInv
<1>3. start \in Found
  <2>1. NewDatabase.version = 0
    BY DEF NewDatabase
  <2> QED BY <1>2, <2>1 DEF MigrationsInv, DiskInv
<1>4. Done = TableKinds
  BY <1>1, StepsOfOrder DEF Done
<1>5. /\ target # 6 => work' = work
      /\ target = 6 => work' = [work EXCEPT !.rows = SecondPass(@)]
  BY DEF EndMigration
<1>6. \A u \in TableVersions : \A row \in work.rows[u] : row[1] \in TableKinds
  BY <1>2 DEF Database, DbRows
<1>7. target \in TableVersions /\ target - 1 \in TableVersions /\ {4, 5} \subseteq TableVersions
  BY <1>2 DEF TableVersions, Versions, DbVersion, Unsuffixed
<1>8. target = 4 => work'.rows[4] = OfKinds(ToKeep(start), {"descriptors"})
  <2>1. {"descriptors"} \cap TableKinds = {"descriptors"}
    BY DEF TableKinds
  <2> QED BY <1>1, <1>2, <1>4, <1>5, <2>1 DEF TablesInv
<1>9. target = 5 => /\ work'.rows[5] \subseteq ToKeep(start)
                    /\ OfKinds(ToKeep(start), TableKinds \ {"attributes"}) \subseteq work'.rows[5]
  BY <1>1, <1>2, <1>4, <1>5 DEF TablesInv, OfKinds
<1>10. target >= 6 => KeepsAll(work'.rows[target])
  <2>1. CASE target = 6
    <3>1. work'.rows = SecondPass(work.rows)
      BY <1>2, <1>5, <2>1 DEF Database
    <3> QED BY <1>1, <2>1, <3>1, SecondPassKeeps
  <2>2. CASE target > 6
    <3>1. work.rows[target] = work.rows[target - 1]
      <4>1. work.rows[target] = OfKinds(work.rows[target - 1], TableKinds)
        BY <1>1, <1>2, <1>4, <2>2 DEF TablesInv, Versions
      <4>2. \A row \in work.rows[target - 1] : row[1] \in TableKinds
        BY <1>6, <1>7
      <4> QED BY <4>1, <4>2 DEF OfKinds
    <3>2. target >= 7
      BY <1>2, <2>2 DEF Versions
    <3> QED BY <1>2, <1>5, <2>2, <3>1, <3>2 DEF SourceInv
  <2> QED BY <1>2, <2>1, <2>2 DEF Versions
<1>11. /\ work' \in Database /\ work'.rows[Unsuffixed] = start.rows[Unsuffixed]
       /\ work'.version = target
  <2>1. CASE target = 6
    <3>1. SecondPass(work.rows) \in [TableVersions -> SUBSET DbRows]
      BY <1>1, <2>1, SecondPassKeeps DEF AllTables
    <3>2. /\ work' \in Database /\ work'.version = work.version
          /\ work'.rows = SecondPass(work.rows)
      BY <1>2, <1>5, <2>1, <3>1 DEF Database
    <3> QED BY <1>1, <1>2, <2>1, <3>2, SecondPassKeeps DEF SourceInv
  <2>2. CASE target # 6
    BY <1>2, <1>5, <2>2 DEF SourceInv
  <2> QED BY <2>1, <2>2
<1>12. CASE target < DbVersion
  <2>1. target' = target + 1 /\ step' = 1 /\ UNCHANGED <<start, disk, dbPhase>>
    BY <1>12 DEF EndMigration
  <2>2. target' \in Versions /\ target' # 4 /\ target' - 1 = target
    BY <1>2, <1>12, <2>1 DEF Versions, DbVersion
  <2>3. SourceInv'
    <3>1. /\ target' = 5 => start.version = 3
          /\ target' = 6 => start.version \in {3, 5} /\ start.version # 5
      BY <1>2, <2>1, <2>2 DEF SourceInv, Versions
    <3>2. /\ target' \in {4, 5} => start.version = 3
          /\ target' = 5 => work'.rows[4] = OfKinds(ToKeep(start), {"descriptors"})
          /\ target' = 6 => /\ start.version \in {3, 5}
                            /\ work'.rows[5] \subseteq ToKeep(start)
                            /\ OfKinds(ToKeep(start), TableKinds \ {"attributes"}) \subseteq work'.rows[5]
                            /\ start.version = 5 => ToKeep(start) \subseteq work'.rows[5]
          /\ target' >= 7 => KeepsAll(work'.rows[target' - 1])
      <4>1. /\ target' = 5 => target = 4
            /\ target' = 6 => target = 5
            /\ target' >= 7 => target >= 6
        BY <1>2, <2>1 DEF Versions
      <4> QED BY <1>8, <1>9, <1>10, <2>2, <3>1, <4>1
    <3>3. start' = start
      BY <2>1
    <3>4. ToKeep(start)' = ToKeep(start)
      BY <3>3
    <3>5. \A rows : KeepsAll(rows) <=> /\ ToKeep(start) \subseteq rows
                                      /\ rows \subseteq ToKeep(start) \cup OldAttributes
      BY DEF KeepsAll
    <3>6. OldAttributes' = OldAttributes
      BY <3>3 DEF OldAttributes
    <3> QED BY <1>11, <3>2, <3>3, <3>4, <3>5, <3>6, Zenon DEF SourceInv, KeepsAll
  <2>4. TablesInv'
    BY <2>1 DEF TablesInv
  <2> QED BY <1>1, <1>2, <1>11, <2>1, <2>2, <2>3, <2>4
        DEF MigrationsInv, MigrationsTypeOK, MigratingInv, DiskInv
<1>13. CASE ~(target < DbVersion)
  <2>1. target = 13 /\ DbVersion = 13
    BY <1>2, <1>13 DEF Versions, DbVersion
  <2>2. disk' = work /\ work' = work /\ dbPhase' = "ready" /\ UNCHANGED <<start, target, step>>
    BY <1>5, <1>13, <2>1 DEF EndMigration
  <2>3. disk'.version = DbVersion /\ KeepsAll(disk'.rows[DbVersion])
    BY <1>10, <1>11, <2>1, <2>2
  <2>4. KeepsAll(disk.rows[DbVersion])'
    BY <2>2, <2>3 DEF KeepsAll, OldAttributes
  <2> QED BY <1>2, <1>11, <2>1, <2>2, <2>3, <2>4 DEF MigrationsInv, MigrationsTypeOK, MigratingInv, DiskInv
<1> QED BY <1>12, <1>13

LEMMA BeginMigrationStep ==
  ASSUME MigrationsInv, BeginMigration
  PROVE  MigrationsInv'
<1>1. /\ disk.version \in 1 .. 12 /\ dbPhase' = "migrating" /\ work' = disk /\ step' = 1
      /\ target' = IF disk.version < 4 THEN 4 ELSE disk.version + 1
      /\ UNCHANGED <<start, disk>> /\ disk \in Database
  BY DEF BeginMigration, DbVersion, MigrationsInv, MigrationsTypeOK
<1>2. disk = start /\ start.version > 0
  <2>1. start \in Database
    BY DEF MigrationsInv, MigrationsTypeOK
  <2>2. start.version \in Nat
    BY <2>1 DEF Database
  <2> QED BY <1>1, <2>2 DEF MigrationsInv, DiskInv, DbVersion
<1>3. start \in Found
  <2>1. NewDatabase.version = 0
    BY DEF NewDatabase
  <2> QED BY <1>2, <2>1 DEF MigrationsInv, DiskInv
<1>4. start.version \in {3, 5, 7, 12}
  BY <1>1, <1>2, <1>3, FoundTypes
<1>5. target' \in Versions /\ (target' = 4 <=> start.version = 3)
                       /\ (start.version # 3 => target' = start.version + 1)
  BY <1>1, <1>2, <1>4 DEF Versions, DbVersion
<1>6. start.version # 3 => ToKeep(start) = start.rows[start.version]
  BY <1>3, Keeping
<1>7. SourceInv'
  <2>1. /\ target' \in {4, 5} => start.version = 3
        /\ target' = 5 => start.rows[4] = OfKinds(ToKeep(start), {"descriptors"})
        /\ target' = 6 => /\ start.version \in {3, 5}
                          /\ start.rows[5] \subseteq ToKeep(start)
                          /\ OfKinds(ToKeep(start), TableKinds \ {"attributes"}) \subseteq start.rows[5]
                          /\ start.version = 5 => ToKeep(start) \subseteq start.rows[5]
        /\ target' >= 7 => KeepsAll(start.rows[target' - 1])
    <3>1. target' # 5
      BY <1>4, <1>5
    <3>2. target' = 6 => start.version = 5 /\ ToKeep(start) = start.rows[5]
      BY <1>4, <1>5, <1>6
    <3>3. target' >= 7 => start.rows[target' - 1] = ToKeep(start)
      BY <1>4, <1>5, <1>6
    <3> QED BY <1>5, <3>1, <3>2, <3>3 DEF OfKinds, KeepsAll
  <2>2. start' = start /\ work' = start
    BY <1>1, <1>2
  <2>3. ToKeep(start)' = ToKeep(start) /\ OldAttributes' = OldAttributes
    BY <2>2 DEF OldAttributes
  <2>4. \A rows : KeepsAll(rows) <=> /\ ToKeep(start) \subseteq rows
                                    /\ rows \subseteq ToKeep(start) \cup OldAttributes
    BY DEF KeepsAll
  <2> QED BY <2>1, <2>2, <2>3, <2>4, Zenon DEF SourceInv, KeepsAll
<1>8. TablesInv'
  BY <1>1 DEF TablesInv
<1>9. 1 \in 1 .. LastStep /\ 1 \in 0 .. LastStep
  BY DEF LastStep, Order
<1>10. MigratingInv'
  BY <1>1, <1>2, <1>4, <1>5, <1>7, <1>8, <1>9 DEF MigratingInv
<1>11. DiskInv'
  BY <1>1, <1>2 DEF MigrationsInv, DiskInv
<1> QED BY <1>1, <1>5, <1>9, <1>10, <1>11 DEF MigrationsInv, MigrationsTypeOK

LEMMA SchemaStep ==
  ASSUME MigrationsInv, Schema
  PROVE  MigrationsInv'
<1>1. /\ dbPhase = "migrating" /\ step' = 2 /\ LastStep = 8
      /\ work' = [version |-> target, rows |-> [work.rows EXCEPT ![target] = {}]]
      /\ UNCHANGED <<start, disk, dbPhase, target>>
  BY DEF Schema, LastStep, Order
<1>2. MigratingInv /\ work \in Database /\ target \in Versions /\ SourceInv
  BY <1>1 DEF MigrationsInv, MigratingInv
<1> DEFINE new == [work.rows EXCEPT ![target] = {}]
<1>3. target \in TableVersions /\ work.rows \in [TableVersions -> SUBSET DbRows]
  BY <1>2 DEF TableVersions, Versions, Database
<1>4. /\ new \in [TableVersions -> SUBSET DbRows] /\ new[target] = {}
      /\ \A u \in TableVersions : u # target => new[u] = work.rows[u]
  BY <1>3
<1>5. work'.rows = new /\ work'.version = target
  BY <1>1
<1>6. work' \in Database
  BY <1>1, <1>2, <1>4 DEF Database, Versions, DbVersion
<1> HIDE DEF new
<1>7. Done' = {}
  BY <1>1, StepsOfOrder DEF Done, DoneBefore
<1>8. start' = start /\ target' = target
  BY <1>1
<1>9. ToKeep(start)' = ToKeep(start) /\ OldAttributes' = OldAttributes
  BY <1>8 DEF OldAttributes
<1>10. \A rows : OfKinds(rows, {}) = {}
  BY DEF OfKinds
<1>11. TablesInv'
  <2>1. /\ {"descriptors"} \cap {} = {} /\ {} \ {"attributes"} = {}
    OBVIOUS
  <2> QED BY <1>4, <1>5, <1>7, <1>8, <1>9, <1>10, <2>1 DEF TablesInv
<1>12. SourceInv'
  <2>1. /\ Unsuffixed \in TableVersions /\ 4 \in TableVersions /\ 5 \in TableVersions
        /\ target - 1 \in TableVersions /\ Unsuffixed # target /\ target - 1 # target
    BY <1>2 DEF TableVersions, Unsuffixed, Versions, DbVersion
  <2>2. new[Unsuffixed] = work.rows[Unsuffixed] /\ new[target - 1] = work.rows[target - 1]
    BY <1>4, <2>1
  <2>3. (target = 5 => new[4] = work.rows[4]) /\ (target = 6 => new[5] = work.rows[5])
    BY <1>4, <2>1
  <2>4. /\ new[Unsuffixed] = start.rows[Unsuffixed]
        /\ target \in {4, 5} => start.version = 3
        /\ target = 5 => new[4] = OfKinds(ToKeep(start), {"descriptors"})
        /\ target = 6 => /\ start.version \in {3, 5}
                         /\ new[5] \subseteq ToKeep(start)
                         /\ OfKinds(ToKeep(start), TableKinds \ {"attributes"}) \subseteq new[5]
                         /\ start.version = 5 => ToKeep(start) \subseteq new[5]
        /\ target >= 7 => KeepsAll(new[target - 1])
    BY <1>2, <2>2, <2>3 DEF SourceInv
  <2>5. \A rows : KeepsAll(rows) <=> /\ ToKeep(start) \subseteq rows
                                    /\ rows \subseteq ToKeep(start) \cup OldAttributes
    BY DEF KeepsAll
  <2> QED BY <1>5, <1>8, <1>9, <2>4, <2>5, Zenon DEF SourceInv, KeepsAll
<1>13. DiskInv'
  BY <1>1, <1>2 DEF MigratingInv, MigrationsInv, DiskInv
<1> QED BY <1>1, <1>2, <1>6, <1>11, <1>12, <1>13 DEF MigrationsInv, MigrationsTypeOK, MigratingInv

LEMMA CreateTablesStep ==
  ASSUME MigrationsInv, CreateTables
  PROVE  MigrationsInv'
<1>1. /\ disk.version = 0 /\ dbPhase' = "creating" /\ work' = disk'
      /\ disk' = [disk EXCEPT !.version = 13] /\ UNCHANGED <<start, target, step>>
  BY DEF CreateTables, DbVersion
<1>2. disk \in Database /\ start \in Database
  BY DEF MigrationsInv, MigrationsTypeOK
<1>3. disk' \in Database /\ disk'.version = 13
  BY <1>1, <1>2 DEF Database, DbVersion
<1>4. start.version = 0
  <2>1. start.version \in Nat
    BY <1>2 DEF Database
  <2> QED BY <1>1, <2>1 DEF MigrationsInv, DiskInv, DbVersion
<1>5. DiskInv'
  BY <1>1, <1>3, <1>4 DEF MigrationsInv, DiskInv, DbVersion
<1> QED BY <1>1, <1>3, <1>5 DEF MigrationsInv, MigrationsTypeOK, MigratingInv

LEMMA MigrationsInitInv ==
  MigrationsInit => MigrationsInv
<1> SUFFICES ASSUME MigrationsInit
             PROVE  MigrationsInv
  OBVIOUS
<1>1. NewDatabase \in Database /\ NewDatabase.version = 0
  BY DEF NewDatabase, Database, Tables, DbVersion
<1>2. start \in Database /\ (start.version = 0 \/ start.version > 0)
  <2>1. start \in Database
    BY <1>1, FoundTypes DEF MigrationsInit
  <2> QED BY <2>1 DEF Database
<1> QED BY <1>2 DEF MigrationsInit, MigrationsInv, MigrationsTypeOK, MigratingInv, DiskInv, LastStep, Order

LEMMA MigrationsStep ==
  MigrationsInv /\ [MigrationsNext]_migrationVars => MigrationsInv'
<1> SUFFICES ASSUME MigrationsInv, [MigrationsNext]_migrationVars
             PROVE  MigrationsInv'
  OBVIOUS
<1>0. UNCHANGED <<start, disk>> => DiskInv'
  BY DEF MigrationsInv, DiskInv, KeepsAll, OldAttributes, ToKeep
<1>1. CASE NothingToMigrate
  BY <1>0, <1>1 DEF NothingToMigrate, MigrationsInv, MigrationsTypeOK, MigratingInv
<1>2. CASE StatementFails
  BY <1>0, <1>2 DEF StatementFails, Failing, MigrationsInv, MigrationsTypeOK, MigratingInv
<1>3. CASE TablesCreated
  BY <1>0, <1>3 DEF TablesCreated, MigrationsInv, MigrationsTypeOK, MigratingInv
<1>4. CASE Reopen
  <2>1. 0 \in 0 .. LastStep
    BY DEF LastStep, Order
  <2> QED BY <1>0, <1>4, <2>1 DEF Reopen, MigrationsInv, MigrationsTypeOK, MigratingInv
<1>5. CASE UNCHANGED migrationVars
  <2>1. SourceInv' <=> SourceInv
    BY <1>5 DEF SourceInv, KeepsAll, OldAttributes, ToKeep, migrationVars
  <2>2. TablesInv' <=> TablesInv
    BY <1>5 DEF TablesInv, Done, DoneBefore, ToKeep, migrationVars
  <2> QED BY <1>0, <1>5, <2>1, <2>2 DEF migrationVars, MigrationsInv, MigrationsTypeOK, MigratingInv
<1> QED BY <1>1, <1>2, <1>3, <1>4, <1>5, BeginMigrationStep, SchemaStep, CopyTableStep,
           EndMigrationStep, CreateTablesStep DEF MigrationsNext

LEMMA MigrationsAlways == MigrationsSpec => []MigrationsInv
BY MigrationsInitInv, MigrationsStep, PTL DEF MigrationsSpec

\* The file and the connection hold databases, whichever one was found and wherever
\* the program died in _run_migrations.
THEOREM MigrationsTypeCorrect == MigrationsSpec => []MigrationsTypeOK
<1>1. MigrationsInv => MigrationsTypeOK
  BY DEF MigrationsInv
<1> QED BY <1>1, MigrationsAlways, PTL

\* However often the program dies while it migrates: the file is the database that was
\* found, or one of the newest version with every row that had to be kept.
THEOREM MigrationsAllOrNothing == MigrationsSpec => []AllOrNothing
<1>1. MigrationsInv => AllOrNothing
  BY DEF MigrationsInv, DiskInv, KeepsAll, OldAttributes, AllOrNothing
<1> QED BY <1>1, MigrationsAlways, PTL

-----------------------------------------------------------------------------
(* Groups: what the rows are after an event, and after a list of them.     *)

DeviceEvents == {"device_saved", "device_removed"}
GroupEvent == [what : EventKinds \ DeviceEvents, group : Groups] \cup [what : DeviceEvents, group : {0}]
RowStates == [device : BOOLEAN, groups : SUBSET Groups, members : SUBSET Groups]

After(r, e) ==
  [device  |-> IF e.what = "device_saved" THEN TRUE
               ELSE IF e.what = "device_removed" THEN FALSE ELSE r.device,
   groups  |-> IF e.what = "group_added" THEN r.groups \cup {e.group}
               ELSE IF e.what = "group_removed" THEN r.groups \ {e.group} ELSE r.groups,
   members |-> IF e.what = "member_added"
               THEN IF r.device /\ e.group \in r.groups THEN r.members \cup {e.group} ELSE r.members
               ELSE IF e.what \in {"member_removed", "group_removed"} THEN r.members \ {e.group}
               ELSE IF e.what = "device_removed" THEN {} ELSE r.members]

\* The rows r become s when the worker has handled the list.
Leads(r, list, s) ==
  \E run \in [0 .. Len(list) -> RowStates] :
    /\ run[0] = r /\ run[Len(list)] = s
    /\ \A k \in 1 .. Len(list) : run[k] = After(run[k - 1], list[k])

RowsNow == [device |-> deviceRow, groups |-> groupRows, members |-> memberRows]
Members == {g \in Groups : member[g] # 0}

\* What the rows have to be in the end.
Agrees(s) ==
  /\ s.groups = groups /\ s.members \subseteq Members
  /\ ~removed => s.members = Members /\ (made # 0 => s.device)

GroupsInv ==
  /\ GroupsTypeOK
  /\ events \in Seq(GroupEvent)
  /\ MembersKnowTheirGroup
  /\ ~deviceRow => memberRows = {}
  /\ made = 0 => Members = {}
  /\ \E s \in RowStates : Leads(RowsNow, events, s) /\ Agrees(s)

LEMMA AfterTypes ==
  ASSUME NEW r \in RowStates, NEW e \in GroupEvent
  PROVE  After(r, e) \in RowStates
BY DEF After, RowStates, GroupEvent, EventKinds, DeviceEvents

LEMMA LeadsNowhere ==
  ASSUME NEW r \in RowStates PROVE Leads(r, <<>>, r)
<1> DEFINE run == [k \in 0 .. 0 |-> r]
<1>1. run \in [0 .. Len(<<>>) -> RowStates] /\ run[0] = r
  OBVIOUS
<1> HIDE DEF run
<1> QED BY <1>1 DEF Leads

LEMMA LeadsOne ==
  ASSUME NEW r \in RowStates, NEW e, After(r, e) \in RowStates
  PROVE  Leads(r, <<e>>, After(r, e))
<1> DEFINE run == [k \in 0 .. 1 |-> IF k = 0 THEN r ELSE After(r, e)]
<1>1. /\ run \in [0 .. 1 -> RowStates] /\ run[0] = r /\ run[1] = After(r, e)
      /\ \A k \in 1 .. 1 : k = 1 /\ k - 1 = 0
  OBVIOUS
<1>2. Len(<<e>>) = 1 /\ <<e>>[1] = e
  OBVIOUS
<1> HIDE DEF run
<1> QED BY <1>1, <1>2 DEF Leads

\* One list after the other.
LEMMA LeadsOn ==
  ASSUME NEW S, NEW one \in Seq(S), NEW two \in Seq(S), NEW r, NEW s, NEW t,
         Leads(r, one, s), Leads(s, two, t)
  PROVE  Leads(r, one \o two, t)
<1> DEFINE m == Len(one) n == Len(two)
<1>1. PICK first \in [0 .. m -> RowStates] :
        /\ first[0] = r /\ first[m] = s
        /\ \A k \in 1 .. m : first[k] = After(first[k - 1], one[k])
  BY DEF Leads
<1>2. PICK then \in [0 .. n -> RowStates] :
        /\ then[0] = s /\ then[n] = t
        /\ \A k \in 1 .. n : then[k] = After(then[k - 1], two[k])
  BY DEF Leads
<1>3. PICK all : all = one \o two
  OBVIOUS
<1>4. /\ m \in Nat /\ n \in Nat /\ Len(all) = m + n
      /\ \A k \in 1 .. m + n : all[k] = IF k <= m THEN one[k] ELSE two[k - m]
  BY <1>3, ConcatProperties
<1> DEFINE run == [k \in 0 .. m + n |-> IF k <= m THEN first[k] ELSE then[k - m]]
<1> HIDE DEF m, n
<1>5. run \in [0 .. m + n -> RowStates]
  <2>1. ASSUME NEW k \in 0 .. m + n PROVE (IF k <= m THEN first[k] ELSE then[k - m]) \in RowStates
    <3>1. CASE k <= m
      BY <1>4, <3>1
    <3>2. CASE ~(k <= m)
      <4>1. k - m \in 0 .. n
        BY <1>4, <3>2
      <4> QED BY <3>2, <4>1
    <3> QED BY <3>1, <3>2
  <2> QED BY <2>1
<1>6. run[0] = r
  BY <1>1, <1>4
<1>7. run[m + n] = t
  <2>1. CASE n = 0
    <3>1. m + n = m /\ m + n \in 0 .. m + n
      BY <1>4, <2>1
    <3> QED BY <1>1, <1>2, <1>4, <2>1, <3>1
  <2>2. CASE n # 0
    <3>1. ~(m + n <= m) /\ (m + n) - m = n /\ m + n \in 0 .. m + n
      BY <1>4, <2>2
    <3> QED BY <1>2, <3>1
  <2> QED BY <2>1, <2>2
<1>8. ASSUME NEW k \in 1 .. m + n PROVE run[k] = After(run[k - 1], all[k])
  <2>1. k \in 0 .. m + n /\ k - 1 \in 0 .. m + n
    BY <1>4
  <2>2. CASE k <= m
    <3>1. k \in 1 .. m /\ k - 1 <= m
      BY <1>4, <2>2
    <3> QED BY <1>1, <1>4, <2>1, <2>2, <3>1
  <2>3. CASE k = m + 1
    <3>1. ~(k <= m) /\ k - m = 1 /\ k - 1 = m /\ 1 \in 1 .. n /\ m <= m
      BY <1>4, <2>3
    <3>2. run[k] = then[1] /\ run[k - 1] = s /\ all[k] = two[1]
      BY <1>1, <1>4, <2>1, <3>1
    <3>3. then[1] = After(then[1 - 1], two[1])
      BY <1>2, <3>1
    <3> QED BY <1>2, <3>2, <3>3
  <2>4. CASE k > m + 1
    <3>1. ~(k <= m) /\ ~(k - 1 <= m) /\ k - m \in 1 .. n /\ (k - 1) - m = (k - m) - 1
      BY <1>4, <2>4
    <3>2. run[k] = then[k - m] /\ run[k - 1] = then[(k - m) - 1] /\ all[k] = two[k - m]
      BY <1>4, <2>1, <3>1
    <3> QED BY <1>2, <3>1, <3>2
  <2> QED BY <1>4, <2>2, <2>3, <2>4
<1> HIDE DEF run
<1>9. Leads(r, all, t)
  BY <1>4, <1>5, <1>6, <1>7, <1>8 DEF Leads
<1> QED BY <1>3, <1>9

\* What is left of a list when its first event was handled.
LEMMA LeadsFirst ==
  ASSUME NEW list \in Seq(GroupEvent), list # <<>>, NEW r, NEW s, Leads(r, list, s)
  PROVE  After(r, Head(list)) \in RowStates /\ Leads(After(r, Head(list)), Tail(list), s)
<1> DEFINE n == Len(list)
<1>1. PICK run \in [0 .. n -> RowStates] :
        /\ run[0] = r /\ run[n] = s
        /\ \A k \in 1 .. n : run[k] = After(run[k - 1], list[k])
  BY DEF Leads
<1>2. PICK rest : rest = Tail(list)
  OBVIOUS
<1>3. /\ n \in Nat /\ n >= 1 /\ Head(list) = list[1]
      /\ Len(rest) = n - 1 /\ \A k \in 1 .. n - 1 : rest[k] = list[k + 1]
  BY <1>2, HeadTailProperties, EmptySeq
<1> HIDE DEF n
<1> DEFINE shorter == [k \in 0 .. n - 1 |-> run[k + 1]]
<1>4. run[1] = After(r, Head(list)) /\ run[1] \in RowStates
  <2>1. 1 \in 1 .. n /\ 1 \in 0 .. n /\ 1 - 1 = 0
    BY <1>3
  <2> QED BY <1>1, <1>3, <2>1
<1>5. \A k \in 0 .. n - 1 : k + 1 \in 0 .. n
  BY <1>3
<1>6. shorter \in [0 .. n - 1 -> RowStates]
  BY <1>5
<1>7. shorter[0] = run[1] /\ shorter[n - 1] = s
  <2>1. 0 \in 0 .. n - 1 /\ n - 1 \in 0 .. n - 1 /\ (n - 1) + 1 = n
    BY <1>3
  <2> QED BY <1>1, <2>1
<1>8. ASSUME NEW k \in 1 .. n - 1 PROVE shorter[k] = After(shorter[k - 1], rest[k])
  <2>1. k + 1 \in 1 .. n /\ k \in 0 .. n - 1 /\ k - 1 \in 0 .. n - 1 /\ (k - 1) + 1 = k /\ (k + 1) - 1 = k
    BY <1>3
  <2>2. run[k + 1] = After(run[k], list[k + 1])
    BY <1>1, <2>1
  <2> QED BY <1>3, <2>1, <2>2
<1> HIDE DEF shorter
<1>9. Leads(run[1], rest, s)
  BY <1>3, <1>6, <1>7, <1>8 DEF Leads
<1> QED BY <1>2, <1>4, <1>9

LEMMA EventTypes ==
  /\ \A what \in EventKinds \ DeviceEvents, g \in Groups :
       Event(what, g) \in GroupEvent /\ Event(what, g).what = what /\ Event(what, g).group = g
  /\ \A what \in DeviceEvents :
       Event(what, 0) \in GroupEvent /\ Event(what, 0).what = what /\ Event(what, 0).group = 0
BY DEF Event, GroupEvent, EventKinds, DeviceEvents

\* The rows when the events of one that enters a group were handled.
Entered(s, g) ==
  [device |-> s.device, groups |-> s.groups \cup {g},
   members |-> IF member[g] = 0 /\ s.device THEN s.members \cup {g} ELSE s.members]

LEMMA EnterLeads ==
  ASSUME NEW s \in RowStates, NEW g \in Groups, groups \subseteq s.groups
  PROVE  AddEvents(g) \in Seq(GroupEvent) /\ Leads(s, AddEvents(g), Entered(s, g))
<1>1. PICK made1 : made1 = IF g \in groups THEN <<>> ELSE <<Event("group_added", g)>>
  OBVIOUS
<1>2. PICK made2 : made2 = IF member[g] # 0 THEN <<>> ELSE <<Event("member_added", g)>>
  OBVIOUS
<1>3. AddEvents(g) = made1 \o made2
  BY <1>1, <1>2 DEF AddEvents
<1>4. PICK e1 \in GroupEvent : e1 = Event("group_added", g) /\ e1.what = "group_added" /\ e1.group = g
  BY EventTypes DEF EventKinds, DeviceEvents
<1>5. PICK e2 \in GroupEvent : e2 = Event("member_added", g) /\ e2.what = "member_added" /\ e2.group = g
  BY EventTypes DEF EventKinds, DeviceEvents
<1>6. PICK with \in RowStates : with = [s EXCEPT !.groups = @ \cup {g}]
  BY DEF RowStates
<1>7. with.device = s.device /\ with.groups = s.groups \cup {g} /\ with.members = s.members
  BY <1>6 DEF RowStates
<1>8. Leads(s, made1, with) /\ made1 \in Seq(GroupEvent)
  <2>1. CASE g \in groups
    <3>1. with = s
      BY <1>6, <2>1 DEF RowStates
    <3> QED BY <1>1, <2>1, <3>1, LeadsNowhere
  <2>2. CASE g \notin groups
    <3>1. After(s, e1) = with
      BY <1>4, <1>6 DEF After, RowStates
    <3>2. made1 = <<e1>>
      BY <1>1, <1>4, <2>2
    <3> QED BY <3>1, <3>2, LeadsOne
  <2> QED BY <2>1, <2>2
<1>9. Leads(with, made2, Entered(s, g)) /\ made2 \in Seq(GroupEvent)
  <2>1. CASE member[g] # 0
    <3>1. Entered(s, g) = with
      BY <1>6, <2>1 DEF RowStates, Entered
    <3> QED BY <1>2, <2>1, <3>1, LeadsNowhere
  <2>2. CASE member[g] = 0
    <3>1. After(with, e2) = Entered(s, g)
      BY <1>5, <1>7, <2>2 DEF After, Entered
    <3>2. made2 = <<e2>>
      BY <1>2, <1>5, <2>2
    <3> QED BY <3>1, <3>2, AfterTypes, LeadsOne
  <2> QED BY <2>1, <2>2
<1> QED BY <1>3, <1>8, <1>9, LeadsOn, ConcatProperties

LEMMA LeastElement ==
  ASSUME NEW T, T \subseteq Nat, T # {}
  PROVE  \E x \in T : \A y \in T : x <= y
<1> DEFINE R == OpToRel(<, Nat)
<1>1. \A x, y \in Nat : x < y => <<x, y>> \in R
  BY DEF OpToRel
<1>2. IsWellFoundedOn(R, Nat)
  BY NatLessThanWellFounded
<1> HIDE DEF R
<1>3. \E x \in T : \A y \in T : ~(<<y, x>> \in R)
  BY <1>2, WFMin, Zenon
<1>4. PICK x \in T : \A y \in T : ~(<<y, x>> \in R)
  BY <1>3
<1>5. ASSUME NEW y \in T
      PROVE  x <= y
  <2>1. x \in Nat /\ y \in Nat /\ ~(y < x)
    BY <1>1, <1>4
  <2> QED BY <2>1
<1> QED BY <1>5

\* The events of all groups that are entered, and of the first k of them.
LEMMA EnteredUnfolds ==
  ASSUME NEW order \in Seq(Groups)
  PROVE  \E upTo :
           /\ upTo = [k \in 0 .. Len(order) |->
                        IF k = 0 THEN <<>> ELSE upTo[k - 1] \o AddEvents(order[k])]
           /\ EnteredEvents(order) = upTo[Len(order)]
<1> DEFINE n == Len(order)
           Unfolds(f, m) == f = [k \in 0 .. m |-> IF k = 0 THEN <<>> ELSE f[k - 1] \o AddEvents(order[k])]
           Bad == {m \in 0 .. n : ~\E f : Unfolds(f, m)}
<1>1. n \in Nat
  OBVIOUS
<1>2. Bad = {}
  <2> SUFFICES ASSUME Bad # {} PROVE FALSE
    OBVIOUS
  <2> HIDE DEF Unfolds
  <2>1. Bad \subseteq Nat
    BY <1>1
  <2> HIDE DEF Bad
  <2>2. PICK m \in Bad : \A k \in Bad : m <= k
    BY <2>1, LeastElement, Zenon
  <2> USE DEF Bad, Unfolds
  <2>3. CASE m = 0
    <3> DEFINE f == [k \in 0 .. 0 |-> <<>>]
    <3>1. f = [k \in 0 .. 0 |-> IF k = 0 THEN <<>> ELSE f[k - 1] \o AddEvents(order[k])]
      <4>1. \A k \in 0 .. 0 : k = 0
        OBVIOUS
      <4> QED BY <4>1
    <3>2. Unfolds(f, 0)
      BY <3>1
    <3> HIDE DEF f, Unfolds
    <3> QED BY <2>3, <3>2
  <2>4. CASE m # 0
    <3>1. m - 1 \in 0 .. n /\ ~(m <= m - 1) /\ m \in 1 .. n
      BY <1>1, <2>4
    <3>2. PICK f : Unfolds(f, m - 1)
      BY <2>2, <3>1
    <3> DEFINE g == [k \in 0 .. m |-> IF k = m THEN f[m - 1] \o AddEvents(order[m]) ELSE f[k]]
    <3>3. ASSUME NEW k \in 0 .. m
          PROVE  g[k] = IF k = 0 THEN <<>> ELSE g[k - 1] \o AddEvents(order[k])
      <4>1. CASE k = m
        <5>1. k # 0 /\ k - 1 \in 0 .. m /\ k - 1 # m
          BY <3>1, <4>1
        <5> QED BY <4>1, <5>1
      <4>2. CASE k = 0 /\ k # m
        <5>1. k \in 0 .. m - 1
          BY <3>1, <4>2
        <5>2. g[k] = f[k] /\ f[k] = <<>>
          BY <3>2, <4>2, <5>1
        <5> QED BY <4>2, <5>2
      <4>3. CASE k # 0 /\ k # m
        <5>1. k \in 0 .. m - 1 /\ k - 1 \in 0 .. m /\ k - 1 # m
          BY <3>1, <4>3
        <5>2. g[k] = f[k] /\ g[k - 1] = f[k - 1] /\ f[k] = f[k - 1] \o AddEvents(order[k])
          BY <3>2, <4>3, <5>1
        <5> QED BY <4>3, <5>2
      <4> QED BY <4>1, <4>2, <4>3
    <3>4. g = [k \in 0 .. m |-> g[k]]
      OBVIOUS
    <3> HIDE DEF g
    <3>5. Unfolds(g, m)
      BY <3>3, <3>4
    <3> HIDE DEF Unfolds
    <3> QED BY <2>2, <3>5
  <2> QED BY <2>3, <2>4
<1>3. \E f : Unfolds(f, n)
  <2>1. n \in 0 .. n
    BY <1>1
  <2> HIDE DEF Unfolds, n
  <2> QED BY <1>2, <2>1
<1>4. EnteredEvents(order) = (CHOOSE f : Unfolds(f, n))[n]
  BY DEF EnteredEvents
<1> DEFINE it == CHOOSE f : Unfolds(f, n)
<1>5. Unfolds(it, n)
  <2> HIDE DEF Unfolds, n
  <2> QED BY <1>3
<1>6. EnteredEvents(order) = it[n]
  BY <1>4
<1> HIDE DEF it
<1> QED BY <1>5, <1>6

\* The rows when several groups were entered, and when several were left.
Listed(order, k) == {order[j] : j \in 1 .. k}
Reached(s, gs) ==
  [device |-> s.device, groups |-> s.groups \cup gs,
   members |-> IF s.device THEN s.members \cup {g \in gs : member[g] = 0} ELSE s.members]
Without(s, gs) == [device |-> s.device, groups |-> s.groups, members |-> s.members \ gs]

LEMMA EnterAllLeads ==
  ASSUME NEW s \in RowStates, groups \subseteq s.groups, NEW order \in Seq(Groups)
  PROVE  /\ EnteredEvents(order) \in Seq(GroupEvent)
         /\ Leads(s, EnteredEvents(order), Reached(s, Listed(order, Len(order))))
<1> DEFINE n == Len(order)
<1>1. n \in Nat
  OBVIOUS
<1>2. PICK upTo :
        /\ upTo = [k \in 0 .. n |-> IF k = 0 THEN <<>> ELSE upTo[k - 1] \o AddEvents(order[k])]
        /\ EnteredEvents(order) = upTo[n]
  BY EnteredUnfolds
<1> DEFINE Good(k) == upTo[k] \in Seq(GroupEvent) /\ Leads(s, upTo[k], Reached(s, Listed(order, k)))
           Bad == {k \in 0 .. n : ~Good(k)}
<1>3. Good(0)
  <2>1. upTo[0] = <<>>
    BY <1>1, <1>2
  <2>2. Listed(order, 0) = {}
    BY DEF Listed
  <2>3. Reached(s, {}) = s
    BY DEF Reached, RowStates
  <2>4. Leads(s, <<>>, s) /\ <<>> \in Seq(GroupEvent)
    BY LeadsNowhere
  <2> QED BY <2>1, <2>2, <2>3, <2>4, Zenon
<1>4. ASSUME NEW k \in 1 .. n, Good(k - 1) PROVE Good(k)
  <2>1. k \in 0 .. n /\ k # 0 /\ order[k] \in Groups /\ k - 1 \in Nat
    BY <1>1
  <2>2. upTo[k] = upTo[k - 1] \o AddEvents(order[k])
    BY <1>2, <2>1
  <2>3. PICK r : r = Reached(s, Listed(order, k - 1))
    OBVIOUS
  <2>4. Listed(order, k - 1) \subseteq Groups
    <3>1. \A j \in 1 .. k - 1 : order[j] \in Groups
      BY <1>1
    <3> QED BY <3>1 DEF Listed
  <2>5. r \in RowStates /\ groups \subseteq r.groups
    BY <2>3, <2>4 DEF Reached, RowStates
  <2>6. Entered(r, order[k]) = Reached(s, Listed(order, k))
    <3>1. Listed(order, k) = Listed(order, k - 1) \cup {order[k]}
      <4>1. \A j : j \in 1 .. k <=> j \in 1 .. k - 1 \/ j = k
        BY <2>1
      <4> QED BY <4>1 DEF Listed
    <3>2. PICK gs : gs = Listed(order, k - 1)
      OBVIOUS
    <3>3. PICK g : g = order[k]
      OBVIOUS
    <3>4. /\ r.device = s.device /\ r.groups = s.groups \cup gs
          /\ r.members = IF s.device THEN s.members \cup {h \in gs : member[h] = 0} ELSE s.members
      BY <2>3, <3>2 DEF Reached
    <3>5. r.groups \cup {g} = s.groups \cup (gs \cup {g})
      BY <3>4
    <3>6. (IF member[g] = 0 /\ r.device THEN r.members \cup {g} ELSE r.members)
            = IF s.device THEN s.members \cup {h \in gs \cup {g} : member[h] = 0} ELSE s.members
      <4>1. CASE s.device
        <5>1. r.members = s.members \cup {h \in gs : member[h] = 0} /\ r.device
          BY <3>4, <4>1, Zenon
        <5>2. {h \in gs \cup {g} : member[h] = 0}
                = IF member[g] = 0 THEN {h \in gs : member[h] = 0} \cup {g} ELSE {h \in gs : member[h] = 0}
          OBVIOUS
        <5>3. CASE member[g] = 0
          <6>1. r.members \cup {g} = s.members \cup {h \in gs \cup {g} : member[h] = 0}
            BY <5>1, <5>2, <5>3
          <6> QED BY <4>1, <5>1, <5>3, <6>1, Zenon
        <5>4. CASE member[g] # 0
          BY <4>1, <5>1, <5>2, <5>4, Zenon
        <5> QED BY <5>3, <5>4
      <4>2. CASE ~s.device
        BY <3>4, <4>2
      <4> QED BY <4>1, <4>2
    <3>7. Entered(r, g) = Reached(s, gs \cup {g})
      BY <3>4, <3>5, <3>6, Zenon DEF Entered, Reached
    <3> QED BY <3>1, <3>2, <3>3, <3>7
  <2>7. AddEvents(order[k]) \in Seq(GroupEvent) /\ Leads(r, AddEvents(order[k]), Entered(r, order[k]))
    BY <2>1, <2>5, EnterLeads
  <2>8. Leads(s, upTo[k - 1] \o AddEvents(order[k]), Entered(r, order[k]))
    BY <1>4, <2>3, <2>7, LeadsOn
  <2>9. upTo[k - 1] \o AddEvents(order[k]) \in Seq(GroupEvent)
    BY <1>4, <2>7, ConcatProperties
  <2> QED BY <2>2, <2>6, <2>8, <2>9
<1> HIDE DEF Good
<1>5. Bad = {}
  <2> SUFFICES ASSUME Bad # {} PROVE FALSE
    OBVIOUS
  <2>1. Bad \subseteq Nat
    BY <1>1
  <2> HIDE DEF Bad
  <2>2. PICK k \in Bad : \A j \in Bad : k <= j
    BY <2>1, LeastElement, Zenon
  <2> USE DEF Bad
  <2>3. k # 0
    BY <1>3, <2>2
  <2>4. k \in 1 .. n /\ k - 1 \in 0 .. n /\ ~(k <= k - 1)
    BY <1>1, <2>3
  <2>5. Good(k - 1)
    BY <2>2, <2>4
  <2> QED BY <1>4, <2>2, <2>4, <2>5
<1>6. Good(n)
  <2>1. n \in 0 .. n
    BY <1>1
  <2> QED BY <1>5, <2>1
<1> QED BY <1>2, <1>6 DEF Good

LEMMA LeftLeads ==
  ASSUME NEW s \in RowStates, NEW order \in Seq(Groups)
  PROVE  /\ LeftEvents(order) \in Seq(GroupEvent)
         /\ Leads(s, LeftEvents(order), Without(s, Listed(order, Len(order))))
<1> DEFINE n == Len(order)
<1>1. PICK list : list = LeftEvents(order)
  OBVIOUS
<1>2. n \in Nat /\ list = [i \in 1 .. n |-> Event("member_removed", order[i])]
  BY <1>1 DEF LeftEvents
<1>3. ASSUME NEW i \in 1 .. n
      PROVE  list[i] \in GroupEvent /\ list[i].what = "member_removed" /\ list[i].group = order[i]
  <2>1. order[i] \in Groups
    OBVIOUS
  <2> QED BY <1>2, <2>1, EventTypes DEF EventKinds, DeviceEvents
<1> HIDE DEF n
<1>4. list \in Seq(GroupEvent) /\ Len(list) = n
  BY <1>2, <1>3
<1> DEFINE run == [k \in 0 .. n |-> Without(s, Listed(order, k))]
<1>5. \A gs : Without(s, gs) \in RowStates
  BY DEF Without, RowStates
<1>6. run \in [0 .. n -> RowStates] /\ run[n] = Without(s, Listed(order, n))
  BY <1>2, <1>5
<1>7. run[0] = s
  <2>1. Listed(order, 0) = {}
    BY DEF Listed
  <2>2. Without(s, {}) = s
    BY DEF Without, RowStates
  <2>3. 0 \in 0 .. n
    BY <1>2
  <2> QED BY <2>1, <2>2, <2>3
<1>8. ASSUME NEW k \in 1 .. n PROVE run[k] = After(run[k - 1], list[k])
  <2>1. k \in 0 .. n /\ k - 1 \in 0 .. n
    BY <1>2
  <2>2. Listed(order, k) = Listed(order, k - 1) \cup {order[k]}
    <3>1. \A j : j \in 1 .. k <=> j \in 1 .. k - 1 \/ j = k
      BY <1>2
    <3> QED BY <3>1 DEF Listed
  <2>3. PICK gs : gs = Listed(order, k - 1)
    OBVIOUS
  <2>4. PICK r : r = Without(s, gs)
    OBVIOUS
  <2>5. r.device = s.device /\ r.groups = s.groups /\ r.members = s.members \ gs
    BY <2>4 DEF Without
  <2>6. r.members \ {order[k]} = s.members \ (gs \cup {order[k]})
    BY <2>5
  <2>7. After(r, list[k]) = Without(s, gs \cup {order[k]})
    BY <1>3, <2>5, <2>6, Zenon DEF After, Without
  <2> QED BY <2>1, <2>2, <2>3, <2>4, <2>7
<1> HIDE DEF run
<1>9. Leads(s, list, Without(s, Listed(order, n)))
  BY <1>4, <1>6, <1>7, <1>8 DEF Leads
<1> QED BY <1>1, <1>4, <1>9 DEF n

-----------------------------------------------------------------------------
(* Groups: the invariant.                                                  *)

MemoryTypes ==
  /\ current \in 0 .. made
  /\ made \in 0 .. MaxMade
  /\ groups \subseteq Groups
  /\ member \in [Groups -> 0 .. MaxMade]
  /\ memberOf \in [EndpointObjects -> SUBSET Groups]
  /\ removed \in BOOLEAN

\* An operation on the groups keeps the invariant when its events lead to what
\* it makes of the memory.
LEMMA GroupsGrow ==
  ASSUME GroupsInv, NEW more \in Seq(GroupEvent), events' = events \o more, UNCHANGED rowVars,
         NEW s, Leads(RowsNow, events, s), NEW t \in RowStates, Leads(s, more, t),
         Agrees(t)', MemoryTypes', MembersKnowTheirGroup', made' = 0 => Members' = {}
  PROVE  GroupsInv'
<1>1. events \in Seq(GroupEvent)
  BY DEF GroupsInv
<1>2. events' \in Seq(GroupEvent)
  BY <1>1, ConcatProperties
<1>3. Leads(RowsNow, events \o more, t)
  BY <1>1, LeadsOn
<1>4. RowsNow' = RowsNow
  BY DEF RowsNow, rowVars
<1>5. Leads(RowsNow, events, t)'
  <2>1. PICK run \in [0 .. Len(events') -> RowStates] :
          /\ run[0] = RowsNow /\ run[Len(events')] = t
          /\ \A k \in 1 .. Len(events') : run[k] = After(run[k - 1], events'[k])
    BY <1>3 DEF Leads
  <2> QED BY <1>4, <2>1 DEF Leads
<1>6. \A i \in DOMAIN events' : events'[i].what \in EventKinds
  <2>1. \A i \in DOMAIN events' : events'[i] \in GroupEvent
    BY <1>2
  <2>2. \A e \in GroupEvent : e.what \in EventKinds
    BY DEF GroupEvent, EventKinds, DeviceEvents
  <2> QED BY <2>1, <2>2
<1>7. GroupsTypeOK'
  BY <1>6 DEF GroupsTypeOK, MemoryTypes, GroupsInv, rowVars
<1>8. (~deviceRow => memberRows = {})'
  BY DEF GroupsInv, rowVars
<1> QED BY <1>2, <1>5, <1>7, <1>8 DEF GroupsInv

LEMMA AddedStep ==
  ASSUME GroupsInv, NEW o \in 1 .. made, NEW g \in Groups, AddedToGroup(o, g)
  PROVE  GroupsInv'
<1>1. /\ current \in 0 .. made /\ made \in 0 .. MaxMade /\ groups \subseteq Groups
      /\ member \in [Groups -> 0 .. MaxMade] /\ memberOf \in [EndpointObjects -> SUBSET Groups]
      /\ removed \in BOOLEAN
  BY DEF GroupsInv, GroupsTypeOK
<1>2. PICK s \in RowStates : Leads(RowsNow, events, s) /\ Agrees(s)
  BY DEF GroupsInv
<1>3. /\ groups' = groups \cup {g}
      /\ member' = [member EXCEPT ![g] = IF @ = 0 THEN o ELSE @]
      /\ memberOf' = IF member[g] = 0 THEN [memberOf EXCEPT ![o] = @ \cup {g}] ELSE memberOf
      /\ events' = events \o AddEvents(g)
      /\ current' = current /\ made' = made /\ removed' = removed /\ UNCHANGED rowVars
  BY DEF AddedToGroup, AddMember, Enqueue
<1>4. made # 0 /\ o # 0 /\ o \in EndpointObjects /\ o \in 0 .. MaxMade
  BY <1>1, ObjectBound DEF EndpointObjects
<1>5. s.groups = groups /\ s.members \subseteq Members /\ (~removed => s.members = Members /\ s.device)
  BY <1>2, <1>4 DEF Agrees
<1>6. AddEvents(g) \in Seq(GroupEvent) /\ Leads(s, AddEvents(g), Entered(s, g))
  BY <1>5, EnterLeads
<1>7. PICK t : t = Entered(s, g)
  OBVIOUS
<1>8. /\ t.device = s.device /\ t.groups = s.groups \cup {g}
      /\ t.members = IF member[g] = 0 /\ s.device THEN s.members \cup {g} ELSE s.members
  BY <1>7 DEF Entered
<1>9. t \in RowStates
  BY <1>7 DEF Entered, RowStates
<1>10. Members' = Members \cup {g}
  BY <1>1, <1>3, <1>4 DEF Members
<1>11. g \in Members <=> member[g] # 0
  BY DEF Members
<1>12. t.members \subseteq Members'
  BY <1>5, <1>8, <1>10
<1>13. ~removed => t.members = Members' /\ t.device
  <2>1. ASSUME ~removed PROVE t.members = IF member[g] = 0 THEN s.members \cup {g} ELSE s.members
    BY <1>5, <1>8, <2>1, Zenon
  <2>2. ASSUME ~removed PROVE t.members = Members'
    BY <1>5, <1>10, <1>11, <2>1, <2>2
  <2> QED BY <1>5, <1>8, <2>2, Zenon
<1>14. Agrees(t)'
  <2>1. t.groups = groups'
    BY <1>3, <1>5, <1>8
  <2> QED BY <1>3, <1>12, <1>13, <2>1 DEF Agrees
<1>15. MemoryTypes'
  BY <1>1, <1>3, <1>4 DEF MemoryTypes
<1>16. MembersKnowTheirGroup'
  <2> SUFFICES ASSUME NEW h \in Groups, member'[h] # 0
               PROVE  h \in groups' /\ h \in memberOf'[member'[h]]
    BY DEF MembersKnowTheirGroup
  <2>1. CASE h = g /\ member[g] = 0
    BY <1>1, <1>3, <1>4, <2>1
  <2>2. CASE ~(h = g /\ member[g] = 0)
    <3>1. member'[h] = member[h]
      BY <1>1, <1>3, <2>2
    <3>2. h \in groups /\ h \in memberOf[member[h]] /\ member[h] \in EndpointObjects
      BY <1>1, <3>1 DEF GroupsInv, MembersKnowTheirGroup, EndpointObjects
    <3> QED BY <1>1, <1>3, <1>4, <3>1, <3>2
  <2> QED BY <2>1, <2>2
<1>17. made' # 0
  BY <1>3, <1>4
<1> QED BY <1>2, <1>3, <1>6, <1>7, <1>9, <1>14, <1>15, <1>16, <1>17, GroupsGrow

LEMMA RemovedStep ==
  ASSUME GroupsInv, NEW o \in 1 .. made, NEW g \in Groups, RemovedFromGroup(o, g)
  PROVE  GroupsInv'
<1>1. /\ current \in 0 .. made /\ made \in 0 .. MaxMade /\ groups \subseteq Groups
      /\ member \in [Groups -> 0 .. MaxMade] /\ memberOf \in [EndpointObjects -> SUBSET Groups]
      /\ removed \in BOOLEAN
  BY DEF GroupsInv, GroupsTypeOK
<1>2. PICK s \in RowStates : Leads(RowsNow, events, s) /\ Agrees(s)
  BY DEF GroupsInv
<1>3. PICK e \in GroupEvent : e = Event("member_removed", g) /\ e.what = "member_removed" /\ e.group = g
  BY EventTypes DEF EventKinds, DeviceEvents
<1>4. /\ groups' = groups /\ member' = [member EXCEPT ![g] = 0]
      /\ memberOf' = [memberOf EXCEPT ![o] = @ \ {g}]
      /\ events' = events \o <<e>>
      /\ current' = current /\ made' = made /\ removed' = removed /\ UNCHANGED rowVars
  BY <1>3 DEF RemovedFromGroup, RemoveMember, Enqueue
<1>5. made # 0 /\ o \in EndpointObjects
  BY <1>1, ObjectBound DEF EndpointObjects
<1>6. s.groups = groups /\ s.members \subseteq Members /\ (~removed => s.members = Members /\ s.device)
  BY <1>2, <1>5 DEF Agrees
<1>7. PICK t : t = After(s, e)
  OBVIOUS
<1>8. t \in RowStates /\ Leads(s, <<e>>, t) /\ <<e>> \in Seq(GroupEvent)
  BY <1>7, AfterTypes, LeadsOne
<1>9. t.device = s.device /\ t.groups = s.groups /\ t.members = s.members \ {g}
  BY <1>3, <1>7 DEF After
<1>10. Members' = Members \ {g}
  BY <1>1, <1>4 DEF Members
<1>11. t.groups = groups' /\ t.members \subseteq Members' /\ (~removed => t.members = Members')
  BY <1>4, <1>6, <1>9, <1>10
<1>12. ~removed => t.device
  BY <1>6, <1>9, Zenon
<1>13. Agrees(t)'
  BY <1>4, <1>11, <1>12 DEF Agrees
<1>14. MemoryTypes'
  <2>1. member' \in [Groups -> 0 .. MaxMade]
    BY <1>1, <1>4, ObjectBound
  <2>2. memberOf' \in [EndpointObjects -> SUBSET Groups]
    BY <1>1, <1>4, <1>5
  <2> QED BY <1>1, <1>4, <2>1, <2>2 DEF MemoryTypes
<1>15. MembersKnowTheirGroup'
  <2> SUFFICES ASSUME NEW h \in Groups, member'[h] # 0
               PROVE  h \in groups' /\ h \in memberOf'[member'[h]]
    BY DEF MembersKnowTheirGroup
  <2>1. h # g /\ member'[h] = member[h]
    BY <1>1, <1>4
  <2>2. h \in groups /\ h \in memberOf[member[h]] /\ member[h] \in EndpointObjects
    BY <1>1, <2>1 DEF GroupsInv, MembersKnowTheirGroup, EndpointObjects
  <2> QED BY <1>1, <1>4, <1>5, <2>1, <2>2
<1>16. made' # 0
  BY <1>4, <1>5
<1> QED BY <1>2, <1>4, <1>8, <1>13, <1>14, <1>15, <1>16, GroupsGrow

LEMMA ScannedStep ==
  ASSUME GroupsInv, NEW o \in 1 .. made, NEW told \in SUBSET Groups, MembershipScanned(o, told)
  PROVE  GroupsInv'
<1> DEFINE known == {g \in groups : member[g] # 0}
<1>1. /\ current \in 0 .. made /\ made \in 0 .. MaxMade /\ groups \subseteq Groups
      /\ member \in [Groups -> 0 .. MaxMade] /\ memberOf \in [EndpointObjects -> SUBSET Groups]
      /\ removed \in BOOLEAN
  BY DEF GroupsInv, GroupsTypeOK
<1>2. PICK s \in RowStates : Leads(RowsNow, events, s) /\ Agrees(s)
  BY DEF GroupsInv
<1>3. /\ groups' = groups \cup told
      /\ member' = [g \in Groups |-> IF g \in known \ told THEN 0
                                     ELSE IF g \in told \ known THEN o ELSE member[g]]
      /\ memberOf' = [memberOf EXCEPT ![o] = (@ \ (known \ told)) \cup (told \ known)]
      /\ current' = current /\ made' = made /\ removed' = removed /\ UNCHANGED rowVars
  BY DEF MembershipScanned
<1>4. PICK left \in Orders(known \ told), entered \in Orders(told \ known) :
        events' = events \o (LeftEvents(left) \o EnteredEvents(entered))
  BY DEF MembershipScanned, Enqueue
<1>5. Members = known
  BY <1>1 DEF Members, GroupsInv, MembersKnowTheirGroup
<1>6. made # 0 /\ o # 0 /\ o \in EndpointObjects /\ o \in 0 .. MaxMade
  BY <1>1, ObjectBound DEF EndpointObjects
<1>7. s.groups = groups /\ s.members \subseteq known /\ (~removed => s.members = known /\ s.device)
  BY <1>2, <1>5, <1>6 DEF Agrees
<1>8. ASSUME NEW gs \in SUBSET Groups, NEW order \in Orders(gs)
      PROVE  order \in Seq(Groups) /\ Listed(order, Len(order)) = gs
  <2> DEFINE n == Cardinality(gs)
  <2>1. n \in Nat
    BY GroupsAreFinite, FS_Subset, FS_CardinalityType
  <2>2. order \in [1 .. n -> gs] /\ \A g \in gs : \E i \in 1 .. n : order[i] = g
    BY DEF Orders
  <2> HIDE DEF n
  <2>3. order \in Seq(gs) /\ Len(order) = n
    BY <2>1, <2>2
  <2> QED BY <2>2, <2>3 DEF Listed
<1> HIDE DEF known
<1>9. known \subseteq groups /\ \A g \in Groups : g \in known <=> member[g] # 0
  BY <1>1, <1>5 DEF Members, known
<1>10. PICK gone : gone = known \ told
  OBVIOUS
<1>11. PICK new : new = told \ known
  OBVIOUS
<1>12. gone \subseteq Groups /\ new \subseteq Groups
  BY <1>1, <1>9, <1>10, <1>11
<1>13. /\ left \in Seq(Groups) /\ Listed(left, Len(left)) = gone
       /\ entered \in Seq(Groups) /\ Listed(entered, Len(entered)) = new
  BY <1>4, <1>8, <1>10, <1>11, <1>12
<1>14. PICK r : r = Without(s, gone)
  OBVIOUS
<1>15. /\ r \in RowStates /\ r.device = s.device /\ r.groups = s.groups
       /\ r.members = s.members \ gone
  BY <1>14 DEF Without, RowStates
<1>16. LeftEvents(left) \in Seq(GroupEvent) /\ Leads(s, LeftEvents(left), r)
  BY <1>13, <1>14, LeftLeads
<1>17. PICK t : t = Reached(r, new)
  OBVIOUS
<1>18. t \in RowStates
  BY <1>12, <1>15, <1>17 DEF Reached, RowStates
<1>19. /\ t.device = r.device /\ t.groups = r.groups \cup new
       /\ t.members = IF r.device THEN r.members \cup {g \in new : member[g] = 0} ELSE r.members
  BY <1>17 DEF Reached
<1>20. {g \in new : member[g] = 0} = new
  BY <1>9, <1>11, <1>12
<1>21. EnteredEvents(entered) \in Seq(GroupEvent) /\ Leads(r, EnteredEvents(entered), t)
  <2>1. groups \subseteq r.groups
    BY <1>7, <1>15
  <2> QED BY <1>13, <1>15, <1>17, <2>1, EnterAllLeads
<1>22. PICK more : more = LeftEvents(left) \o EnteredEvents(entered)
  OBVIOUS
<1>23. more \in Seq(GroupEvent) /\ Leads(s, more, t) /\ events' = events \o more
  BY <1>4, <1>16, <1>21, <1>22, LeadsOn, ConcatProperties
<1>24. Members' = (known \ gone) \cup new
  BY <1>3, <1>6, <1>9, <1>10, <1>11, <1>12 DEF Members
<1>25. t.groups = groups'
  BY <1>3, <1>7, <1>9, <1>11, <1>15, <1>19
<1>26. t.members \subseteq (s.members \ gone) \cup new
  BY <1>15, <1>19, <1>20
<1>27. ~removed => t.members = (s.members \ gone) \cup new /\ t.device
  BY <1>7, <1>15, <1>19, <1>20, Zenon
<1>28. Agrees(t)'
  <2>1. t.members \subseteq Members' /\ (~removed => t.members = Members' /\ t.device)
    BY <1>7, <1>24, <1>26, <1>27
  <2> QED BY <1>3, <1>25, <2>1 DEF Agrees
<1>29. MemoryTypes'
  <2>1. member' \in [Groups -> 0 .. MaxMade]
    BY <1>1, <1>3, <1>6, ObjectBound
  <2>2. memberOf' \in [EndpointObjects -> SUBSET Groups]
    BY <1>1, <1>3, <1>6, <1>11, <1>12
  <2> QED BY <1>1, <1>3, <2>1, <2>2 DEF MemoryTypes
<1>30. MembersKnowTheirGroup'
  <2> SUFFICES ASSUME NEW h \in Groups, member'[h] # 0
               PROVE  h \in groups' /\ h \in memberOf'[member'[h]]
    BY DEF MembersKnowTheirGroup
  <2>1. h \notin gone
    BY <1>3, <1>10
  <2>2. CASE h \in new
    BY <1>1, <1>3, <1>6, <1>10, <1>11, <2>1, <2>2
  <2>3. CASE h \notin new
    <3>1. member'[h] = member[h]
      BY <1>3, <1>10, <1>11, <2>1, <2>3
    <3>2. h \in groups /\ h \in memberOf[member[h]] /\ member[h] \in EndpointObjects
      BY <1>1, <3>1 DEF GroupsInv, MembersKnowTheirGroup, EndpointObjects
    <3> QED BY <1>1, <1>3, <1>6, <1>10, <2>1, <3>1, <3>2
  <2> QED BY <2>2, <2>3
<1>31. made' # 0
  BY <1>3, <1>6
<1> QED BY <1>2, <1>3, <1>18, <1>23, <1>28, <1>29, <1>30, <1>31, GroupsGrow

LEMMA GroupRemovedStep ==
  ASSUME GroupsInv, NEW g \in Groups, RemoveGroup(g)
  PROVE  GroupsInv'
<1>1. /\ current \in 0 .. made /\ made \in 0 .. MaxMade /\ groups \subseteq Groups
      /\ member \in [Groups -> 0 .. MaxMade] /\ memberOf \in [EndpointObjects -> SUBSET Groups]
      /\ removed \in BOOLEAN
  BY DEF GroupsInv, GroupsTypeOK
<1>2. PICK s \in RowStates : Leads(RowsNow, events, s) /\ Agrees(s)
  BY DEF GroupsInv
<1>3. PICK e1 \in GroupEvent : e1 = Event("member_removed", g) /\ e1.what = "member_removed" /\ e1.group = g
  BY EventTypes DEF EventKinds, DeviceEvents
<1>4. PICK e2 \in GroupEvent : e2 = Event("group_removed", g) /\ e2.what = "group_removed" /\ e2.group = g
  BY EventTypes DEF EventKinds, DeviceEvents
<1>5. PICK first : first = IF member[g] = 0 THEN <<>> ELSE <<e1>>
  OBVIOUS
<1>6. /\ groups' = groups \ {g} /\ member' = [member EXCEPT ![g] = 0]
      /\ memberOf' = [o \in EndpointObjects |-> IF o = member[g] THEN memberOf[o] \ {g} ELSE memberOf[o]]
      /\ events' = events \o (first \o <<e2>>)
      /\ current' = current /\ made' = made /\ removed' = removed /\ UNCHANGED rowVars
  BY <1>3, <1>4, <1>5 DEF RemoveGroup, Enqueue
<1>7. /\ s.groups = groups /\ s.members \subseteq Members
      /\ ~removed => s.members = Members /\ (made # 0 => s.device)
  BY <1>2 DEF Agrees
<1>8. PICK r \in RowStates : /\ first \in Seq(GroupEvent) /\ Leads(s, first, r)
                            /\ r.device = s.device /\ r.groups = s.groups
                            /\ r.members \subseteq s.members /\ s.members \ {g} \subseteq r.members
  <2>1. CASE member[g] = 0
    <3>1. <<>> \in Seq(GroupEvent) /\ Leads(s, <<>>, s)
      BY LeadsNowhere
    <3> QED BY <1>5, <2>1, <3>1
  <2>2. CASE member[g] # 0
    <3>1. PICK r : r = After(s, e1)
      OBVIOUS
    <3>2. r \in RowStates /\ Leads(s, <<e1>>, r) /\ <<e1>> \in Seq(GroupEvent)
      BY <3>1, AfterTypes, LeadsOne
    <3>3. r.device = s.device /\ r.groups = s.groups /\ r.members = s.members \ {g}
      BY <1>3, <3>1 DEF After
    <3> QED BY <1>5, <2>2, <3>2, <3>3
  <2> QED BY <2>1, <2>2
<1>9. PICK t : t = After(r, e2)
  OBVIOUS
<1>10. t \in RowStates /\ Leads(r, <<e2>>, t) /\ <<e2>> \in Seq(GroupEvent)
  BY <1>9, AfterTypes, LeadsOne
<1>11. t.device = r.device /\ t.groups = r.groups \ {g} /\ t.members = r.members \ {g}
  BY <1>4, <1>9 DEF After
<1>12. PICK more : more = first \o <<e2>>
  OBVIOUS
<1>13. more \in Seq(GroupEvent) /\ Leads(s, more, t) /\ events' = events \o more
  BY <1>6, <1>8, <1>10, <1>12, LeadsOn, ConcatProperties
<1>14. Members' = Members \ {g}
  BY <1>1, <1>6 DEF Members
<1>15. t.members = s.members \ {g} /\ t.groups = groups'
  BY <1>6, <1>7, <1>8, <1>11
<1>16. t.members \subseteq Members' /\ (~removed => t.members = Members')
  BY <1>7, <1>14, <1>15
<1>17. ~removed => (made # 0 => t.device)
  BY <1>7, <1>8, <1>11, Zenon
<1>18. Agrees(t)'
  BY <1>6, <1>15, <1>16, <1>17 DEF Agrees
<1>19. MemoryTypes'
  <2>1. member' \in [Groups -> 0 .. MaxMade]
    BY <1>1, <1>6, ObjectBound
  <2>2. memberOf' \in [EndpointObjects -> SUBSET Groups]
    BY <1>1, <1>6
  <2> QED BY <1>1, <1>6, <2>1, <2>2 DEF MemoryTypes
<1>20. MembersKnowTheirGroup'
  <2> SUFFICES ASSUME NEW h \in Groups, member'[h] # 0
               PROVE  h \in groups' /\ h \in memberOf'[member'[h]]
    BY DEF MembersKnowTheirGroup
  <2>1. h # g /\ member'[h] = member[h]
    BY <1>1, <1>6
  <2>2. h \in groups /\ h \in memberOf[member[h]] /\ member[h] \in EndpointObjects
    BY <1>1, <2>1 DEF GroupsInv, MembersKnowTheirGroup, EndpointObjects
  <2> QED BY <1>1, <1>6, <2>1, <2>2
<1>21. made' = 0 => Members' = {}
  BY <1>6, <1>14 DEF GroupsInv
<1> QED BY <1>2, <1>6, <1>10, <1>13, <1>18, <1>19, <1>20, <1>21, GroupsGrow

LEMMA DeviceStep ==
  ASSUME GroupsInv, RemoveDevice \/ DevicePopped \/ DeviceAnnounced
  PROVE  GroupsInv'
<1>1. /\ current \in 0 .. made /\ made \in 0 .. MaxMade /\ groups \subseteq Groups
      /\ member \in [Groups -> 0 .. MaxMade] /\ memberOf \in [EndpointObjects -> SUBSET Groups]
      /\ removed \in BOOLEAN
  BY DEF GroupsInv, GroupsTypeOK
<1>2. PICK s \in RowStates : Leads(RowsNow, events, s) /\ Agrees(s)
  BY DEF GroupsInv
<1>3. /\ s.groups = groups /\ s.members \subseteq Members
      /\ ~removed => s.members = Members /\ (made # 0 => s.device)
  BY <1>2 DEF Agrees
<1>4. /\ groups' = groups /\ member' = member /\ memberOf' = memberOf /\ UNCHANGED rowVars
      /\ MembersKnowTheirGroup' /\ Members' = Members
  BY DEF RemoveDevice, DevicePopped, DeviceAnnounced, GroupsInv, MembersKnowTheirGroup, Members
<1>5. CASE RemoveDevice
  <2>1. PICK e \in GroupEvent : e = Event("device_removed", 0) /\ e.what = "device_removed"
    BY EventTypes DEF DeviceEvents
  <2>2. removed' = TRUE /\ events' = events \o <<e>> /\ current' = current /\ made' = made
    BY <1>5, <2>1 DEF RemoveDevice, Enqueue
  <2>3. PICK t : t = After(s, e)
    OBVIOUS
  <2>4. t \in RowStates /\ Leads(s, <<e>>, t) /\ <<e>> \in Seq(GroupEvent)
    BY <2>3, AfterTypes, LeadsOne
  <2>5. t.groups = s.groups /\ t.members = {}
    BY <2>1, <2>3 DEF After
  <2>6. Agrees(t)'
    BY <1>3, <1>4, <2>2, <2>5 DEF Agrees
  <2>7. MemoryTypes' /\ (made' = 0 => Members' = {})
    BY <1>1, <1>4, <2>2 DEF MemoryTypes, GroupsInv
  <2> QED BY <1>2, <1>4, <2>2, <2>4, <2>6, <2>7, GroupsGrow
<1>6. CASE DevicePopped
  <2>1. removed' = removed /\ events' = events /\ current' = 0 /\ made' = made
    BY <1>6 DEF DevicePopped
  <2>2. <<>> \in Seq(GroupEvent) /\ Leads(s, <<>>, s)
    BY LeadsNowhere
  <2>3. events' = events \o <<>>
    BY <2>1, ConcatEmptySeq DEF GroupsInv
  <2>4. Agrees(s)'
    BY <1>3, <1>4, <2>1 DEF Agrees
  <2>5. MemoryTypes' /\ (made' = 0 => Members' = {})
    BY <1>1, <1>4, <2>1 DEF MemoryTypes, GroupsInv
  <2> QED BY <1>2, <1>4, <2>2, <2>3, <2>4, <2>5, GroupsGrow
<1>7. CASE DeviceAnnounced
  <2>1. PICK e \in GroupEvent : e = Event("device_saved", 0) /\ e.what = "device_saved"
    BY EventTypes DEF DeviceEvents
  <2>2. /\ removed' = removed /\ events' = events \o <<e>>
        /\ current' = made + 1 /\ made' = made + 1 /\ made < MaxMade
    BY <1>7, <2>1 DEF DeviceAnnounced, Enqueue
  <2>3. PICK t : t = After(s, e)
    OBVIOUS
  <2>4. t \in RowStates /\ Leads(s, <<e>>, t) /\ <<e>> \in Seq(GroupEvent)
    BY <2>3, AfterTypes, LeadsOne
  <2>5. t.groups = s.groups /\ t.members = s.members /\ t.device
    BY <2>1, <2>3 DEF After
  <2>6. Agrees(t)'
    BY <1>3, <1>4, <2>2, <2>5 DEF Agrees
  <2>7. MemoryTypes' /\ made' # 0
    BY <1>1, <1>4, <2>2, ObjectBound DEF MemoryTypes
  <2> QED BY <1>2, <1>4, <2>2, <2>4, <2>6, <2>7, GroupsGrow
<1> QED BY <1>5, <1>6, <1>7

\* What the worker makes of the rows is After.
LEMMA WorkerAfter ==
  ASSUME GroupWorker, NEW e, e = Head(events), e.what \in EventKinds
  PROVE  RowsNow' = After(RowsNow, e)
<1>1. /\ groupRows' = CASE e.what = "group_added"   -> groupRows \cup {e.group}
                        [] e.what = "group_removed" -> groupRows \ {e.group}
                        [] OTHER                    -> groupRows
      /\ deviceRow' = CASE e.what = "device_saved"   -> TRUE
                        [] e.what = "device_removed" -> FALSE
                        [] OTHER                     -> deviceRow
      /\ memberRows' = CASE e.what = "member_added" -> IF deviceRow /\ e.group \in groupRows
                                                      THEN memberRows \cup {e.group} ELSE memberRows
                         [] e.what \in {"member_removed", "group_removed"} -> memberRows \ {e.group}
                         [] e.what = "device_removed" -> {}
                         [] OTHER                     -> memberRows
  BY DEF GroupWorker, MemberRowsAfter
<1>2. RowsNow' = [device |-> deviceRow', groups |-> groupRows', members |-> memberRows']
  BY DEF RowsNow
<1>3. RowsNow.device = deviceRow /\ RowsNow.groups = groupRows /\ RowsNow.members = memberRows
  BY DEF RowsNow
<1>4. After(RowsNow, e) =
        [device  |-> IF e.what = "device_saved" THEN TRUE
                     ELSE IF e.what = "device_removed" THEN FALSE ELSE deviceRow,
         groups  |-> IF e.what = "group_added" THEN groupRows \cup {e.group}
                     ELSE IF e.what = "group_removed" THEN groupRows \ {e.group} ELSE groupRows,
         members |-> IF e.what = "member_added"
                     THEN IF deviceRow /\ e.group \in groupRows THEN memberRows \cup {e.group}
                          ELSE memberRows
                     ELSE IF e.what \in {"member_removed", "group_removed"} THEN memberRows \ {e.group}
                     ELSE IF e.what = "device_removed" THEN {} ELSE memberRows]
  BY <1>3, Zenon DEF After
<1>5. CASE e.what = "group_added"
  BY <1>1, <1>2, <1>4, <1>5, Zenon
<1>6. CASE e.what = "member_added"
  BY <1>1, <1>2, <1>4, <1>6, Zenon
<1>7. CASE e.what = "member_removed"
  BY <1>1, <1>2, <1>4, <1>7, Zenon
<1>8. CASE e.what = "group_removed"
  BY <1>1, <1>2, <1>4, <1>8, Zenon
<1>9. CASE e.what = "device_saved"
  BY <1>1, <1>2, <1>4, <1>9, Zenon
<1>10. CASE e.what = "device_removed"
  BY <1>1, <1>2, <1>4, <1>10, Zenon
<1> QED BY <1>5, <1>6, <1>7, <1>8, <1>9, <1>10 DEF EventKinds

\* A member's row has the rows of its group and of its device.
LEMMA AfterKeyed ==
  ASSUME NEW r \in RowStates, NEW e \in GroupEvent,
         r.members \subseteq r.groups, r.device \/ r.members = {}
  PROVE  /\ After(r, e).members \subseteq After(r, e).groups
         /\ After(r, e).device \/ After(r, e).members = {}
<1>1. PICK t : t = After(r, e)
  OBVIOUS
<1>2. e.what \in EventKinds
  BY DEF GroupEvent, EventKinds, DeviceEvents
<1>3. CASE e.what = "group_added"
  <2>1. t.device = r.device /\ t.groups = r.groups \cup {e.group} /\ t.members = r.members
    BY <1>1, <1>3 DEF After
  <2> QED BY <1>1, <2>1
<1>4. CASE e.what = "member_added"
  <2>1. /\ t.device = r.device /\ t.groups = r.groups
        /\ t.members = IF r.device /\ e.group \in r.groups THEN r.members \cup {e.group} ELSE r.members
    BY <1>1, <1>4 DEF After
  <2>2. CASE r.device /\ e.group \in r.groups
    <3>1. t.members = r.members \cup {e.group} /\ t.device
      BY <2>1, <2>2, Zenon
    <3> QED BY <1>1, <2>1, <2>2, <3>1
  <2>3. CASE ~(r.device /\ e.group \in r.groups)
    <3>1. t.members = r.members
      BY <2>1, <2>3, Zenon
    <3> QED BY <1>1, <2>1, <3>1
  <2> QED BY <2>2, <2>3
<1>5. CASE e.what \in {"member_removed", "group_removed"}
  <2>1. /\ t.device = r.device /\ t.members = r.members \ {e.group}
        /\ t.groups = r.groups \/ t.groups = r.groups \ {e.group}
    BY <1>1, <1>5 DEF After
  <2> QED BY <1>1, <2>1
<1>6. CASE e.what = "device_saved"
  <2>1. t.device /\ t.groups = r.groups /\ t.members = r.members
    BY <1>1, <1>6 DEF After
  <2> QED BY <1>1, <2>1
<1>7. CASE e.what = "device_removed"
  <2>1. t.groups = r.groups /\ t.members = {}
    BY <1>1, <1>7 DEF After
  <2> QED BY <1>1, <2>1
<1> QED BY <1>2, <1>3, <1>4, <1>5, <1>6, <1>7 DEF EventKinds

LEMMA GroupWorkerStep ==
  ASSUME GroupsInv, GroupWorker
  PROVE  GroupsInv'
<1>1. PICK s \in RowStates : Leads(RowsNow, events, s) /\ Agrees(s)
  BY DEF GroupsInv
<1>2. events \in Seq(GroupEvent) /\ events # <<>> /\ events' = Tail(events) /\ UNCHANGED memoryVars
  BY DEF GroupsInv, GroupWorker
<1>3. PICK e \in GroupEvent : e = Head(events)
  BY <1>2, HeadTailProperties
<1>4. RowsNow' = After(RowsNow, e)
  <2>1. e.what \in EventKinds
    BY DEF GroupEvent, EventKinds, DeviceEvents
  <2> QED BY <1>3, <2>1, WorkerAfter
<1>5. RowsNow \in RowStates
  BY DEF RowsNow, RowStates, GroupsInv, GroupsTypeOK
<1>6. RowsNow' \in RowStates /\ Leads(RowsNow', Tail(events), s)
  BY <1>1, <1>2, <1>3, <1>4, LeadsFirst
<1>7. Leads(RowsNow, events, s)'
  <2>1. PICK run \in [0 .. Len(events') -> RowStates] :
          /\ run[0] = RowsNow' /\ run[Len(events')] = s
          /\ \A k \in 1 .. Len(events') : run[k] = After(run[k - 1], events'[k])
    BY <1>2, <1>6 DEF Leads
  <2> QED BY <2>1 DEF Leads
<1>8. Agrees(s)'
  BY <1>1, <1>2 DEF Agrees, Members, memoryVars
<1>9. /\ RowsNow'.members \subseteq RowsNow'.groups
      /\ RowsNow'.device \/ RowsNow'.members = {}
  <2>1. RowsNow.members \subseteq RowsNow.groups /\ (RowsNow.device \/ RowsNow.members = {})
    BY DEF RowsNow, GroupsInv, GroupsTypeOK
  <2> QED BY <1>4, <1>5, <2>1, AfterKeyed
<1>10. /\ deviceRow' \in BOOLEAN /\ groupRows' \subseteq Groups /\ memberRows' \subseteq groupRows'
       /\ ~deviceRow' => memberRows' = {}
  BY <1>6, <1>9 DEF RowsNow, RowStates
<1>11. events' \in Seq(GroupEvent)
  BY <1>2, HeadTailProperties
<1>12. \A i \in DOMAIN events' : events'[i].what \in EventKinds
  <2>1. \A i \in DOMAIN events' : events'[i] \in GroupEvent
    BY <1>11
  <2>2. \A x \in GroupEvent : x.what \in EventKinds
    BY DEF GroupEvent, EventKinds, DeviceEvents
  <2> QED BY <2>1, <2>2
<1>13. GroupsTypeOK'
  BY <1>2, <1>10, <1>12 DEF GroupsInv, GroupsTypeOK, memoryVars
<1>14. MembersKnowTheirGroup' /\ (made = 0 => Members = {})'
  BY <1>2 DEF GroupsInv, MembersKnowTheirGroup, Members, memoryVars
<1> QED BY <1>1, <1>7, <1>8, <1>10, <1>11, <1>13, <1>14 DEF GroupsInv

\* Without events, the rows are what they are.
LEMMA NoEventsLead ==
  ASSUME deviceRow \in BOOLEAN, groupRows \subseteq Groups, memberRows \subseteq Groups,
         events = <<>>, Agrees(RowsNow)
  PROVE  \E s \in RowStates : Leads(RowsNow, events, s) /\ Agrees(s)
<1>1. RowsNow \in RowStates
  BY DEF RowsNow, RowStates
<1> QED BY <1>1, LeadsNowhere

LEMMA GroupsRestartStep ==
  ASSUME GroupsInv, RestartGroups
  PROVE  GroupsInv'
<1>1. /\ deviceRow \in BOOLEAN /\ groupRows \subseteq Groups /\ memberRows \subseteq groupRows
      /\ ~deviceRow => memberRows = {}
  BY DEF GroupsInv, GroupsTypeOK
<1>2. /\ current' = (IF deviceRow THEN 1 ELSE 0) /\ made' = (IF deviceRow THEN 1 ELSE 0)
      /\ groups' = groupRows
      /\ member' = [g \in Groups |-> IF g \in memberRows THEN 1 ELSE 0]
      /\ memberOf' = [o \in EndpointObjects |-> IF o = 1 THEN memberRows ELSE {}]
      /\ events' = <<>> /\ removed' = FALSE
      /\ deviceRow' = deviceRow /\ groupRows' = groupRows /\ memberRows' = memberRows
  BY DEF RestartGroups, rowVars
<1>3. 1 \in EndpointObjects /\ 1 \in 0 .. MaxMade /\ 0 \in 0 .. MaxMade
  BY ObjectBound DEF EndpointObjects
<1>4. Members' = memberRows
  BY <1>1, <1>2 DEF Members
<1>5. /\ made' \in 0 .. MaxMade /\ current' \in 0 .. made'
      /\ made' # 0 => deviceRow
      /\ made' = 0 => ~deviceRow
  <2>1. CASE deviceRow
    BY <1>2, <1>3, <2>1
  <2>2. CASE ~deviceRow
    BY <1>2, <1>3, <2>2
  <2> QED BY <2>1, <2>2
<1>6. Agrees(RowsNow)'
  <2>1. RowsNow'.groups = groupRows /\ RowsNow'.members = memberRows /\ RowsNow'.device = deviceRow
    BY <1>2 DEF RowsNow
  <2>2. made' # 0 => RowsNow'.device
    BY <1>5, <2>1, Zenon
  <2> QED BY <1>2, <1>4, <2>1, <2>2 DEF Agrees
<1>7. (\E s \in RowStates : Leads(RowsNow, events, s) /\ Agrees(s))'
  <2>1. RowsNow' \in RowStates
    BY <1>1, <1>2 DEF RowsNow, RowStates
  <2>2. Leads(RowsNow', <<>>, RowsNow')
    BY <2>1, LeadsNowhere
  <2>3. Leads(RowsNow, events, RowsNow)'
    BY <1>2, <2>2 DEF Leads
  <2> QED BY <1>6, <2>1, <2>3
<1>8. GroupsTypeOK'
  <2>1. member' \in [Groups -> 0 .. MaxMade]
    BY <1>2, <1>3
  <2>2. memberOf' \in [EndpointObjects -> SUBSET Groups]
    BY <1>1, <1>2
  <2>3. DOMAIN events' = {}
    BY <1>2
  <2> QED BY <1>1, <1>2, <1>5, <2>1, <2>2, <2>3 DEF GroupsTypeOK
<1>9. MembersKnowTheirGroup'
  BY <1>1, <1>2, <1>3 DEF MembersKnowTheirGroup
<1>10. events' \in Seq(GroupEvent)
  BY <1>2
<1>11. (~deviceRow => memberRows = {})' /\ (made = 0 => Members = {})'
  BY <1>1, <1>2, <1>4, <1>5
<1> QED BY <1>7, <1>8, <1>9, <1>10, <1>11 DEF GroupsInv

LEMMA GroupsStutter ==
  ASSUME GroupsInv, UNCHANGED groupVars
  PROVE  GroupsInv'
<1>1. RowsNow' = RowsNow /\ Members' = Members /\ events' = events
  BY DEF groupVars, RowsNow, Members
<1>2. PICK s \in RowStates : Leads(RowsNow, events, s) /\ Agrees(s)
  BY DEF GroupsInv
<1>3. Leads(RowsNow, events, s)'
  BY <1>1, <1>2 DEF Leads
<1>4. Agrees(s)'
  BY <1>1, <1>2 DEF Agrees, groupVars
<1> QED BY <1>1, <1>2, <1>3, <1>4
        DEF GroupsInv, GroupsTypeOK, MembersKnowTheirGroup, groupVars

LEMMA GroupsAlways == GroupsSpec => []GroupsInv
<1>1. GroupsInit => GroupsInv
  <2> SUFFICES ASSUME GroupsInit PROVE GroupsInv
    OBVIOUS
  <2>1. 1 \in 0 .. MaxMade /\ 0 \in 0 .. MaxMade
    BY ObjectBound
  <2>2. GroupsTypeOK /\ events \in Seq(GroupEvent) /\ MembersKnowTheirGroup /\ Members = {}
    <3>1. DOMAIN events = {} /\ events \in Seq(GroupEvent) /\ current \in 0 .. made
      BY DEF GroupsInit
    <3>2. member \in [Groups -> 0 .. MaxMade] /\ memberOf \in [EndpointObjects -> SUBSET Groups]
      BY <2>1 DEF GroupsInit
    <3> QED BY <2>1, <3>1, <3>2 DEF GroupsInit, GroupsTypeOK, MembersKnowTheirGroup, Members
  <2>3. RowsNow.groups = groups /\ RowsNow.members = {} /\ RowsNow.device
    BY DEF RowsNow, GroupsInit
  <2>4. Agrees(RowsNow)
    BY <2>2, <2>3 DEF Agrees
  <2>5. \E s \in RowStates : Leads(RowsNow, events, s) /\ Agrees(s)
    BY <2>4, NoEventsLead DEF GroupsInit
  <2> QED BY <2>2, <2>5 DEF GroupsInv, GroupsInit
<1>2. GroupsInv /\ [GroupsNext]_groupVars => GroupsInv'
  BY AddedStep, RemovedStep, ScannedStep, GroupRemovedStep, DeviceStep, GroupWorkerStep,
     GroupsRestartStep, GroupsStutter DEF GroupsNext
<1> QED BY <1>1, <1>2, PTL DEF GroupsSpec

\* The members, the queue of the listener and the rows keep their types, with any
\* number of objects of the device and of events.
THEOREM GroupsTypeCorrect == GroupsSpec => []GroupsTypeOK
<1>1. GroupsInv => GroupsTypeOK
  BY DEF GroupsInv
<1> QED BY <1>1, GroupsAlways, PTL

\* A group and its members agree on who is in it, and once the worker has caught
\* up the rows are what a restart needs: whichever objects of the device entered
\* and left, whatever was committed between restarts, and whether or not the
\* device was removed and joined again.
THEOREM MembershipStays == GroupsSpec => []MembershipAgrees
<1>1. GroupsInv => MembershipAgrees
  <2> SUFFICES ASSUME GroupsInv, events = <<>>
               PROVE  /\ groupRows = groups /\ memberRows \subseteq Members
                      /\ ~removed => memberRows = Members
    BY DEF MembershipAgrees, GroupRowsFollow, GroupsInv, Members
  <2>1. PICK s \in RowStates : Leads(RowsNow, events, s) /\ Agrees(s)
    BY DEF GroupsInv
  <2>2. s = RowsNow
    BY <2>1 DEF Leads
  <2>3. s.groups = groupRows /\ s.members = memberRows
    BY <2>2 DEF RowsNow
  <2> QED BY <2>1, <2>3 DEF Agrees
<1> QED BY <1>1, GroupsAlways, PTL
=============================================================================
