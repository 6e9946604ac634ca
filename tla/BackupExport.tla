---------------------------- MODULE BackupExport ---------------------------
(***************************************************************************)
(* src/scripts/backup_restore.py beside a running system: the export reads *)
(* the tables one after the other, each with a snapshot of its own (READ   *)
(* COMMITTED), while rows come and go; the restore writes the saved rows   *)
(* back in one transaction.                                                *)
(*                                                                         *)
(* A row is its identifier, which is never used twice, with the rows its   *)
(* foreign keys name and its unique key; the other columns are left out.   *)
(***************************************************************************)
EXTENDS Naturals, Sequences, SequencesExt

CONSTANTS
  Rows,        \* the identifiers that rows may get
  TableOf,     \* row -> its table
  ParentsOf,   \* row -> the rows its foreign keys name
  KeyOf,       \* row -> its unique key within its table
  Related,     \* table -> the tables that its class has a relationship() to
  ReadOrder,   \* the tables in the order the export reads them
  MaxChanges   \* bound: changes of the database beside the scripts

\* Every table is read once, and not before those its foreign keys name
\* (backup_restore.py:62-203, the foreign keys of db_models.py).
ASSUME BackupAssumption ==
  /\ ReadOrder \in Seq(Range(ReadOrder)) /\ ReadOrder # <<>>
  /\ \A i, j \in DOMAIN ReadOrder : ReadOrder[i] = ReadOrder[j] => i = j
  /\ \A r \in Rows : TableOf[r] \in Range(ReadOrder) /\ ParentsOf[r] \subseteq Rows
  /\ \A r \in Rows : \A p \in ParentsOf[r] : \A i, j \in DOMAIN ReadOrder :
       (ReadOrder[i] = TableOf[p] /\ ReadOrder[j] = TableOf[r]) => i <= j
  \* A class has a relationship() for each of its foreign keys, or, as
  \* TaskOutboxEvent, none at all.
  /\ \A r \in Rows : \/ {TableOf[p] : p \in ParentsOf[r]} \subseteq Related[TableOf[r]]
                     \/ Related[TableOf[r]] = {}

VARIABLES
  db,        \* the rows in the database
  read,      \* how many tables the running export has read
  backup,    \* the rows it has saved
  script,    \* "none", "exporting", "exported", "restored" or "failed"
  created,   \* history: row -> "before" or "since" the export began
  changes    \* number of changes made so far

backupVars == <<db, read, backup, script, created, changes>>

Clash(r, rows) == \E q \in rows \ {r} : TableOf[q] = TableOf[r] /\ KeyOf[q] = KeyOf[r]
\* What the foreign keys and the unique constraints demand.
Consistent(rows) == \A r \in rows : ParentsOf[r] \subseteq rows /\ ~Clash(r, rows)

BackupTypeOK ==
  /\ db \subseteq Rows /\ Consistent(db)
  /\ backup \subseteq DOMAIN created /\ DOMAIN created \subseteq Rows
  /\ read \in 0..Len(ReadOrder)
  /\ script \in {"none", "exporting", "exported", "restored", "failed"}

BackupInit ==
  /\ db = {} /\ created = [r \in {} |-> "before"]
  /\ read = 0 /\ backup = {} /\ script = "none" /\ changes = 0

(***************************************************************************)
(* The system goes on working.                                             *)
(***************************************************************************)
Change == changes < MaxChanges /\ changes' = changes + 1

InsertRow(r) ==
  /\ Change /\ r \notin DOMAIN created /\ Consistent(db \cup {r})
  /\ db' = db \cup {r}
  /\ created' = [q \in DOMAIN created \cup {r} |->
       IF q # r THEN created[q] ELSE IF script = "none" THEN "before" ELSE "since"]
  /\ UNCHANGED <<read, backup, script>>

\* ondelete="CASCADE": what refers to the row goes with it, at any distance.
ReferrersIncluded(rows) == \A q \in Rows : ParentsOf[q] \cap rows # {} => q \in rows
Cascade(r) ==
  {q \in Rows : \A rows \in SUBSET Rows : (r \in rows /\ ReferrersIncluded(rows)) => q \in rows}

DeleteRows(r) ==
  /\ Change /\ r \in db
  /\ db' = db \ Cascade(r)
  /\ UNCHANGED <<read, backup, script, created>>

\* The database is lost and set up again without rows.
LoseDatabase ==
  /\ Change /\ script = "exported"
  /\ db' = {}
  /\ UNCHANGED <<read, backup, script, created>>

(***************************************************************************)
(* export_backup: one table per step, written to the file after the last.  *)
(***************************************************************************)
\* Mutant: the tables are read from the children up.
NextTableBackwards == ReadOrder[Len(ReadOrder) - read]
NextTable == ReadOrder[read + 1]

ReadTable ==
  /\ script \in {"none", "exporting"}
  /\ backup' = backup \cup {r \in db : TableOf[r] = NextTable}
  /\ read' = read + 1
  /\ script' = IF read + 1 = Len(ReadOrder) THEN "exported" ELSE "exporting"
  /\ UNCHANGED <<db, created, changes>>

(***************************************************************************)
(* restore_backup: insert or overwrite every saved row, delete nothing; a  *)
(* violated constraint aborts it as a whole.  The session does not flush   *)
(* by itself, so all but the tenants, which are left out here, is written  *)
(* by the flush of the commit, table after table.                          *)
(***************************************************************************)

\* The flush writes a table after those its class is related to, as far as they
\* take part, and takes what need not wait first, by the names of the classes.
\* A table without relationships comes then: before a table it refers to that
\* has to wait, and after one that has not (Task comes before TaskOutboxEvent).
Waits(table) == \E r \in backup : TableOf[r] \in Related[table]
WrittenBefore(table, other) == table \in Related[other] \/ ~Waits(table)

\* A foreign key is looked at when the row is inserted, not at the commit.
Insertable(r) ==
  \A p \in ParentsOf[r] :
    p \in db \/ (p \in backup /\ WrittenBefore(TableOf[p], TableOf[r]))

Restore ==
  /\ script \in {"exported", "restored"}
  /\ IF /\ \A r \in backup \ db : Insertable(r)
        /\ \A r \in db \cup backup : ~Clash(r, db \cup backup)
     THEN script' = "restored" /\ db' = db \cup backup
     ELSE script' = "failed" /\ db' = db
  /\ UNCHANGED <<read, backup, created, changes>>

BackupNext ==
  \/ \E r \in Rows : InsertRow(r) \/ DeleteRows(r)
  \/ ReadTable \/ Restore \/ LoseDatabase

BackupSpec == BackupInit /\ [][BackupNext]_backupVars

(***************************************************************************)
(* Properties                                                              *)
(***************************************************************************)

\* A restore that fails, fails on a saved row whose parent was inserted after
\* the export had begun and so is missing from the backup, on a unique key that
\* a row outside the backup took since, or on a saved row that is written before
\* its saved parent: an outbox event whose task is not in the database yet.  The
\* export reads parents before their children, so what is deleted beside it
\* never spoils a backup.
RestoreFailureHasACause ==
  [][(script # "failed" /\ script' = "failed")
       => \E r \in backup :
            \/ \E p \in ParentsOf[r] \ backup : created[p] = "since"
            \/ \E q \in db \ backup : created[q] = "since" /\ Clash(q, {r})
            \/ \E p \in (ParentsOf[r] \cap backup) \ db :
                 ~WrittenBefore(TableOf[p], TableOf[r])]_backupVars
=============================================================================
