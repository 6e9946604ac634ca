--------------------------- MODULE PlatformProofs --------------------------
(***************************************************************************)
(* Theorems about the parts that MCPlatform runs on small instances: the   *)
(* backup script beside a running system, for any schema and any number of *)
(* rows; the tenant cache, for any number of keys, callers and users and   *)
(* any capacity; the settings of the tenants, for any number of requests   *)
(* and processes and any size of their caches; and, with the limiter and   *)
(* the filter of LimiterFilterProofs, the specification that runs the five *)
(* parts beside each other.                                                *)
(***************************************************************************)
EXTENDS MCPlatform, LimiterFilterProofs

(***************************************************************************)
(* BackupExport: the rows that a deletion takes along                      *)
(***************************************************************************)

LEMMA CascadeIsClosed ==
  ASSUME NEW r \in Rows
  PROVE  r \in Cascade(r) /\ ReferrersIncluded(Cascade(r))
  <1>1. r \in Cascade(r)
    BY DEF Cascade
  <1>2. ASSUME NEW q \in Rows, NEW p \in ParentsOf[q] \cap Cascade(r)
        PROVE  q \in Cascade(r)
    <2> SUFFICES ASSUME NEW rows \in SUBSET Rows, r \in rows, ReferrersIncluded(rows)
                 PROVE  q \in rows
      BY DEF Cascade
    <2>1. p \in rows
      BY DEF Cascade
    <2> QED
      BY <2>1 DEF ReferrersIncluded
  <1> QED
    BY <1>1, <1>2 DEF ReferrersIncluded

(***************************************************************************)
(* What the export has saved                                               *)
(***************************************************************************)

Tables == Len(ReadOrder)

RowsInv ==
  /\ db \subseteq DOMAIN created /\ Consistent(db)
  /\ DOMAIN created \subseteq Rows
  /\ \A r \in DOMAIN created : created[r] \in {"before", "since"}

ScriptInv ==
  /\ read \in 0 .. Tables
  /\ script \in {"none", "exporting", "exported", "restored", "failed"}
  /\ script = "none" => read = 0
  /\ script = "exporting" => read < Tables
  /\ script \in {"exported", "restored", "failed"} => read = Tables

\* Saved rows are of tables that have been read.  A row that was there before
\* the export began is saved with its table, if nobody has deleted it.
SavedInv ==
  /\ backup \subseteq DOMAIN created
  /\ \A r \in backup : \E i \in 1 .. read : ReadOrder[i] = TableOf[r]
  /\ \A r \in db, i \in 1 .. read :
       (ReadOrder[i] = TableOf[r] /\ created[r] = "before") => r \in backup

\* The rows of one table are from one moment, and parents are saved with or
\* before the rows that refer to them.
BackupOk ==
  /\ \A r \in backup : ~Clash(r, backup)
  /\ \A r \in backup : \A p \in ParentsOf[r] :
       p \in DOMAIN created /\ (p \in backup \/ created[p] = "since")

BackupInv == RowsInv /\ ScriptInv /\ SavedInv /\ BackupOk

LEMMA BackupInvInit == BackupInit => BackupInv
  <1> SUFFICES ASSUME BackupInit
               PROVE  BackupInv
    OBVIOUS
  <1>1. Tables \in Nat /\ Tables # 0
    BY BackupAssumption DEF Tables
  <1> QED
    BY <1>1 DEF BackupInit, BackupInv, RowsInv, Consistent, ScriptInv, SavedInv, BackupOk

\* A table of the order has one place in it.
LEMMA OnePlace ==
  ASSUME NEW r \in Rows
  PROVE  /\ \E i \in 1 .. Tables : ReadOrder[i] = TableOf[r]
         /\ \A i, j \in 1 .. Tables : ReadOrder[i] = ReadOrder[j] => i = j
         /\ \A p \in ParentsOf[r] : \A i, j \in 1 .. Tables :
              (ReadOrder[i] = TableOf[p] /\ ReadOrder[j] = TableOf[r]) => i <= j
         /\ ParentsOf[r] \subseteq Rows
         /\ Tables \in Nat
  <1>1. DOMAIN ReadOrder = 1 .. Tables /\ Tables \in Nat
    BY BackupAssumption, LenProperties DEF Tables
  <1>2. \E i \in 1 .. Tables : ReadOrder[i] = TableOf[r]
    BY <1>1, BackupAssumption DEF Range
  <1> QED
    BY <1>1, <1>2, BackupAssumption

LEMMA InsertKeepsBackup ==
  ASSUME BackupInv, NEW r \in Rows, InsertRow(r)
  PROVE  BackupInv'
  <1>1. /\ r \notin DOMAIN created /\ Consistent(db \cup {r}) /\ db' = db \cup {r}
        /\ created' = [q \in DOMAIN created \cup {r} |->
             IF q # r THEN created[q] ELSE IF script = "none" THEN "before" ELSE "since"]
        /\ read' = read /\ backup' = backup /\ script' = script
    BY DEF InsertRow
  <1>2. /\ DOMAIN created' = DOMAIN created \cup {r}
        /\ \A q \in DOMAIN created : created'[q] = created[q]
        /\ created'[r] \in {"before", "since"} /\ script # "none" => created'[r] = "since"
    BY <1>1
  <1>3. RowsInv' /\ ScriptInv'
    BY <1>1, <1>2 DEF BackupInv, RowsInv, ScriptInv
  <1>4. SavedInv'
    <2>1. script = "none" => 1 .. read = {}
      BY DEF BackupInv, ScriptInv
    <2>2. \A q \in backup : q \in DOMAIN created
      BY DEF BackupInv, SavedInv
    <2>3. \A q \in db : q \in DOMAIN created
      BY DEF BackupInv, RowsInv
    <2> QED
      BY <1>1, <1>2, <2>1, <2>2, <2>3 DEF BackupInv, SavedInv
  <1>5. BackupOk'
    BY <1>1, <1>2 DEF BackupInv, BackupOk
  <1> QED
    BY <1>3, <1>4, <1>5 DEF BackupInv

\* Rows go: with a row go those that refer to it.
LEMMA LossKeepsBackup ==
  ASSUME BackupInv, db' \subseteq db, Consistent(db'), UNCHANGED <<read, backup, script, created>>
  PROVE  BackupInv'
  BY DEF BackupInv, RowsInv, ScriptInv, SavedInv, BackupOk

LEMMA DeletionKeepsBackup ==
  ASSUME BackupInv, NEW r \in Rows, DeleteRows(r)
  PROVE  BackupInv'
  <1>1. /\ db' = db \ Cascade(r) /\ read' = read /\ backup' = backup /\ script' = script
        /\ created' = created
    BY DEF DeleteRows
  <1>2. ASSUME NEW q \in db'
        PROVE  ParentsOf[q] \subseteq db' /\ ~Clash(q, db')
    <2>1. q \in db /\ q \in Rows /\ q \notin Cascade(r)
      BY <1>1 DEF BackupInv, RowsInv
    <2>2. ParentsOf[q] \subseteq db /\ ~Clash(q, db)
      BY <2>1 DEF BackupInv, RowsInv, Consistent
    <2>3. ParentsOf[q] \cap Cascade(r) = {}
      BY <2>1, CascadeIsClosed DEF ReferrersIncluded
    <2> QED
      BY <1>1, <2>2, <2>3 DEF Clash
  <1> QED
    BY <1>1, <1>2, LossKeepsBackup DEF Consistent

LEMMA ReadKeepsBackup ==
  ASSUME BackupInv, ReadTable
  PROVE  BackupInv'
  <1> DEFINE new == {r \in db : TableOf[r] = ReadOrder[read + 1]}
  <1>1. /\ script \in {"none", "exporting"} /\ backup' = backup \cup new /\ read' = read + 1
        /\ script' = (IF read + 1 = Tables THEN "exported" ELSE "exporting")
        /\ db' = db /\ created' = created
    BY DEF ReadTable, NextTable, Tables
  <1>2. read \in Nat /\ read < Tables /\ Tables \in Nat
    <2>1. Tables \in Nat /\ Tables # 0
      BY BackupAssumption DEF Tables
    <2> QED
      BY <1>1, <2>1 DEF BackupInv, ScriptInv
  <1>3. ScriptInv' /\ RowsInv'
    BY <1>1, <1>2 DEF BackupInv, ScriptInv, RowsInv, Tables
  <1>4. \A i \in 1 .. read' : i \in 1 .. read \/ i = read + 1
    BY <1>1, <1>2
  <1>5. /\ 1 .. read \subseteq 1 .. read' /\ read + 1 \in 1 .. read'
        /\ 1 .. read' \subseteq 1 .. Tables
    BY <1>1, <1>2
  <1>6. \A r \in new : r \in db /\ r \in Rows /\ r \in DOMAIN created
    BY DEF BackupInv, RowsInv
  <1>7. SavedInv'
    BY <1>1, <1>4, <1>5, <1>6 DEF BackupInv, SavedInv
  <1>8. ASSUME NEW r \in backup'
        PROVE  ~Clash(r, backup')
    <2>1. ASSUME NEW q \in new, NEW s \in backup, TableOf[q] = TableOf[s]
          PROVE  FALSE
      <3>1. PICK i \in 1 .. read : ReadOrder[i] = TableOf[s]
        BY DEF BackupInv, SavedInv
      <3>2. i = read + 1
        BY <1>5, <1>6, <2>1, <3>1, OnePlace
      <3> QED
        BY <1>2, <3>1, <3>2
    <2>2. \A q, s \in new : q # s => ~(TableOf[q] = TableOf[s] /\ KeyOf[q] = KeyOf[s])
      BY DEF BackupInv, RowsInv, Consistent, Clash
    <2>3. \A q, s \in backup : q # s => ~(TableOf[q] = TableOf[s] /\ KeyOf[q] = KeyOf[s])
      BY DEF BackupInv, BackupOk, Clash
    <2> QED
      BY <1>1, <2>1, <2>2, <2>3 DEF Clash
  <1>9. ASSUME NEW r \in new, NEW p \in ParentsOf[r]
        PROVE  p \in DOMAIN created /\ (p \in backup' \/ created[p] = "since")
    <2>1. p \in db /\ p \in Rows /\ p \in DOMAIN created
      BY <1>6 DEF BackupInv, RowsInv, Consistent
    <2>2. PICK i \in 1 .. Tables : ReadOrder[i] = TableOf[p]
      BY <2>1, OnePlace
    <2>3. i <= read + 1
      BY <1>1, <1>5, <1>6, <2>2, OnePlace
    <2>4. CASE i = read + 1
      BY <1>1, <2>1, <2>2, <2>4
    <2>5. CASE i # read + 1
      <3>1. i \in 1 .. read
        BY <1>2, <2>3, <2>5
      <3> QED
        BY <1>1, <2>1, <2>2, <3>1 DEF BackupInv, SavedInv, RowsInv
    <2> QED
      BY <2>1, <2>4, <2>5
  <1>10. BackupOk'
    BY <1>1, <1>8, <1>9 DEF BackupInv, BackupOk
  <1> QED
    BY <1>3, <1>7, <1>10 DEF BackupInv

\* A restore that succeeds leaves the constraints intact.
LEMMA RestoredIsConsistent ==
  ASSUME Consistent(db), \A r \in backup \ db : Insertable(r),
         \A r \in db \cup backup : ~Clash(r, db \cup backup)
  PROVE  Consistent(db \cup backup)
  <1>1. \A r \in backup \ db : ParentsOf[r] \subseteq db \cup backup
    BY DEF Insertable
  <1>2. \A r \in db : ParentsOf[r] \subseteq db \cup backup
    BY DEF Consistent
  <1> QED
    BY <1>1, <1>2 DEF Consistent

LEMMA RestoreKeepsBackup ==
  ASSUME BackupInv, Restore
  PROVE  BackupInv'
  <1>0. Consistent(db)
    BY DEF BackupInv, RowsInv
  <1>1. /\ script \in {"exported", "restored"} /\ script' \in {"restored", "failed"}
        /\ read' = read /\ backup' = backup /\ created' = created
        /\ \/ db' = db
           \/ db' = db \cup backup /\ Consistent(db \cup backup)
    BY <1>0, RestoredIsConsistent DEF Restore
  <1>2. RowsInv' /\ ScriptInv' /\ SavedInv'
    BY <1>1 DEF BackupInv, RowsInv, ScriptInv, SavedInv
  <1>3. BackupOk'
    BY <1>1 DEF BackupInv, BackupOk
  <1> QED
    BY <1>2, <1>3 DEF BackupInv

LEMMA BackupInvStep ==
  ASSUME BackupInv, [BackupNext]_backupVars
  PROVE  BackupInv'
  <1>1. CASE UNCHANGED backupVars
    BY <1>1 DEF backupVars, BackupInv, RowsInv, ScriptInv, SavedInv, BackupOk
  <1>2. ASSUME NEW r \in Rows, InsertRow(r) \/ DeleteRows(r)
        PROVE  BackupInv'
    BY <1>2, InsertKeepsBackup, DeletionKeepsBackup
  <1>3. CASE ReadTable \/ Restore
    BY <1>3, ReadKeepsBackup, RestoreKeepsBackup
  <1>4. CASE LoseDatabase
    BY <1>4, LossKeepsBackup DEF LoseDatabase, Consistent
  <1> QED
    BY <1>1, <1>2, <1>3, <1>4 DEF BackupNext

LEMMA BackupInvHolds == BackupSpec => []BackupInv
  <1>1. BackupInv /\ [BackupNext]_backupVars => BackupInv'
    BY BackupInvStep
  <1> QED
    BY BackupInvInit, <1>1, PTL DEF BackupSpec

\* The database keeps its foreign keys and unique constraints, whatever is
\* restored into it, and the script its bounds.
THEOREM BackupTypeCorrect == BackupSpec => []BackupTypeOK
  <1>1. BackupInv => BackupTypeOK
    BY DEF BackupInv, RowsInv, ScriptInv, SavedInv, BackupTypeOK, Tables
  <1> QED
    BY BackupInvHolds, <1>1, PTL

\* restore_backup fails only on what was inserted after the export had begun, a
\* parent that is missing from the backup or a row that took a unique key, or on
\* the order in which the flush writes: a saved row comes before its saved
\* parent, as an outbox event before its task.  For any schema whose classes
\* have a relationship for each foreign key or for none.
THEOREM RestoresFailForACause == BackupSpec => RestoreFailureHasACause
  <1> DEFINE Cause ==
        \E r \in backup :
          \/ \E p \in ParentsOf[r] \ backup : created[p] = "since"
          \/ \E q \in db \ backup : created[q] = "since" /\ Clash(q, {r})
          \/ \E p \in (ParentsOf[r] \cap backup) \ db :
               ~WrittenBefore(TableOf[p], TableOf[r])
  <1>1. ASSUME BackupInv, BackupNext, script # "failed", script' = "failed"
        PROVE  Cause
    <2>1. /\ Restore /\ script \in {"exported", "restored"}
          /\ \/ \E r \in backup \ db : ~Insertable(r)
             \/ \E r \in db \cup backup : Clash(r, db \cup backup)
      BY <1>1 DEF BackupNext, InsertRow, DeleteRows, LoseDatabase, ReadTable, Restore
    <2>2. /\ read = Tables /\ DOMAIN created \subseteq Rows /\ db \subseteq DOMAIN created
          /\ backup \subseteq DOMAIN created
      BY <1>1, <2>1 DEF BackupInv, ScriptInv, RowsInv, SavedInv
    <2>3. ASSUME NEW r \in backup \ db, ~Insertable(r)
          PROVE  Cause
      <3>1. PICK p \in ParentsOf[r] :
              p \notin db /\ (p \in backup => ~WrittenBefore(TableOf[p], TableOf[r]))
        BY <2>3 DEF Insertable
      <3>2. CASE p \notin backup
        <4>1. created[p] = "since"
          BY <1>1, <2>3, <3>2 DEF BackupInv, BackupOk
        <4> QED
          BY <2>3, <3>2, <4>1
      <3>3. CASE p \in backup
        BY <2>3, <3>1, <3>3
      <3> QED
        BY <3>2, <3>3
    <2>5. ASSUME NEW q \in db \ backup, NEW s \in backup, TableOf[q] = TableOf[s],
                 KeyOf[q] = KeyOf[s]
          PROVE  Cause
      <3>1. PICK i \in 1 .. Tables : ReadOrder[i] = TableOf[q]
        BY <2>2, OnePlace
      <3>2. created[q] = "since"
        BY <1>1, <2>2, <3>1 DEF BackupInv, SavedInv, RowsInv
      <3> QED
        BY <2>5, <3>2 DEF Clash
    <2>6. ASSUME NEW r \in db \cup backup, Clash(r, db \cup backup)
          PROVE  Cause
      <3>1. PICK q \in db \cup backup : q # r /\ TableOf[q] = TableOf[r] /\ KeyOf[q] = KeyOf[r]
        BY <2>6 DEF Clash
      <3>2. ~(q \in db /\ r \in db)
        BY <1>1, <3>1 DEF BackupInv, RowsInv, Consistent, Clash
      <3>3. ~(q \in backup /\ r \in backup)
        BY <1>1, <3>1 DEF BackupInv, BackupOk, Clash
      <3>4. \/ q \in db \ backup /\ r \in backup
            \/ r \in db \ backup /\ q \in backup
        BY <3>2, <3>3
      <3> QED
        BY <2>5, <3>1, <3>4
    <2> QED
      BY <2>1, <2>3, <2>6
  <1>2. BackupInv /\ [BackupNext]_backupVars
          => [(script # "failed" /\ script' = "failed") => Cause]_backupVars
    BY <1>1
  <1>3. BackupSpec => [][(script # "failed" /\ script' = "failed") => Cause]_backupVars
    BY BackupInvHolds, <1>2, PTL DEF BackupSpec
  <1> QED
    BY <1>3 DEF RestoreFailureHasACause

(***************************************************************************)
(* TenantCache: sequences of entries                                       *)
(***************************************************************************)

CacheEntry == [key : Keys, value : Callers, refs : Nat]
OnceEach(s) == \A i, j \in DOMAIN s : s[i].key = s[j].key => i = j

LEMMA OneLess ==
  ASSUME NEW E, NEW s \in Seq(E), OnceEach(s), NEW i \in DOMAIN s
  PROVE  /\ RemoveAt(s, i) \in Seq(E) /\ OnceEach(RemoveAt(s, i))
         /\ Len(RemoveAt(s, i)) = Len(s) - 1
         /\ \A x : x \in Range(RemoveAt(s, i)) <=> x \in Range(s) /\ x # s[i]
  <1> DEFINE n == Len(s)
             r == RemoveAt(s, i)
  <1>1. n \in Nat /\ i \in 1 .. n /\ DOMAIN s = 1 .. n
    BY LenProperties
  <1>2. /\ r \in Seq(E) /\ Len(r) = n - 1
        /\ \A j \in 1 .. n - 1 : r[j] = IF j < i THEN s[j] ELSE s[j + 1]
    <2> DEFINE front == SubSeq(s, 1, i - 1)
               rest == SubSeq(s, i + 1, n)
    <2>1. /\ front \in Seq(E) /\ Len(front) = i - 1
          /\ \A j \in 1 .. i - 1 : front[j] = s[j]
      BY <1>1
    <2>2. /\ rest \in Seq(E) /\ Len(rest) = n - i
          /\ \A j \in 1 .. n - i : rest[j] = s[i + j]
      BY <1>1
    <2>3. r = front \o rest
      BY DEF RemoveAt
    <2> HIDE DEF front, rest, r, n
    <2>4. /\ r \in Seq(E) /\ Len(r) = n - 1
          /\ \A j \in 1 .. n - 1 : r[j] = IF j <= i - 1 THEN front[j] ELSE rest[j - (i - 1)]
      <3>1. /\ r \in Seq(E) /\ Len(r) = Len(front) + Len(rest)
            /\ \A j \in 1 .. Len(front) + Len(rest) :
                 r[j] = IF j <= Len(front) THEN front[j] ELSE rest[j - Len(front)]
        BY <2>1, <2>2, <2>3, ConcatProperties
      <3>2. Len(front) + Len(rest) = n - 1
        BY <1>1, <2>1, <2>2
      <3> QED
        BY <2>1, <3>1, <3>2
    <2>5. ASSUME NEW j \in 1 .. n - 1, j < i
          PROVE  r[j] = s[j]
      BY <1>1, <2>1, <2>4, <2>5
    <2>6. ASSUME NEW j \in 1 .. n - 1, ~(j < i)
          PROVE  r[j] = s[j + 1]
      <3>1. j - (i - 1) \in 1 .. n - i /\ i + (j - (i - 1)) = j + 1 /\ ~(j <= i - 1)
        BY <1>1, <2>6
      <3> QED
        BY <1>1, <2>2, <2>4, <3>1
    <2> QED
      BY <2>4, <2>5, <2>6
  <1>3. DOMAIN r = 1 .. n - 1
    BY <1>2, LenProperties
  <1> HIDE DEF r, n
  <1>4. ASSUME NEW j \in 1 .. n - 1
        PROVE  \E k \in 1 .. n : k # i /\ k = (IF j < i THEN j ELSE j + 1) /\ r[j] = s[k]
    BY <1>1, <1>2
  <1>5. ASSUME NEW k \in 1 .. n, k # i
        PROVE  \E j \in 1 .. n - 1 : r[j] = s[k]
    <2>1. CASE k < i
      <3>1. k \in 1 .. n - 1
        BY <1>1, <2>1
      <3> QED
        BY <1>2, <2>1, <3>1
    <2>2. CASE ~(k < i)
      <3>1. k - 1 \in 1 .. n - 1 /\ ~(k - 1 < i) /\ (k - 1) + 1 = k
        BY <1>1, <1>5, <2>2
      <3> QED
        BY <1>2, <3>1
    <2> QED
      BY <2>1, <2>2
  <1>6. OnceEach(r)
    <2> SUFFICES ASSUME NEW a \in 1 .. n - 1, NEW b \in 1 .. n - 1, r[a].key = r[b].key
                 PROVE  a = b
      BY <1>3 DEF OnceEach
    <2>1. PICK j \in 1 .. n : j = (IF a < i THEN a ELSE a + 1) /\ r[a] = s[j]
      BY <1>4
    <2>2. PICK k \in 1 .. n : k = (IF b < i THEN b ELSE b + 1) /\ r[b] = s[k]
      BY <1>4
    <2>3. j = k
      BY <1>1, <2>1, <2>2 DEF OnceEach
    <2> QED
      BY <1>1, <2>1, <2>2, <2>3
  <1>7. ASSUME NEW x
        PROVE  x \in Range(r) <=> x \in Range(s) /\ x # s[i]
    <2>1. x \in Range(r) <=> \E j \in 1 .. n - 1 : r[j] = x
      BY <1>3 DEF Range
    <2>2. x \in Range(s) <=> \E k \in 1 .. n : s[k] = x
      BY <1>1 DEF Range
    <2>3. \A k \in 1 .. n : s[k] = s[i] => k = i
      BY <1>1 DEF OnceEach
    <2> QED
      BY <1>1, <1>4, <1>5, <2>1, <2>2, <2>3, ZenonT(40)
  <1> QED
    BY <1>2, <1>6, <1>7 DEF r, n

LEMMA OneMore ==
  ASSUME NEW E, NEW s \in Seq(E), OnceEach(s), NEW e \in E,
         \A x \in Range(s) : x.key # e.key
  PROVE  /\ Append(s, e) \in Seq(E) /\ OnceEach(Append(s, e))
         /\ Len(Append(s, e)) = Len(s) + 1
         /\ \A x : x \in Range(Append(s, e)) <=> x \in Range(s) \/ x = e
  <1> DEFINE n == Len(s)
             r == Append(s, e)
  <1>1. /\ n \in Nat /\ r \in Seq(E) /\ Len(r) = n + 1 /\ r[n + 1] = e
        /\ \A j \in 1 .. n : r[j] = s[j]
    OBVIOUS
  <1>2. DOMAIN s = 1 .. n /\ DOMAIN r = 1 .. n + 1
    BY <1>1, LenProperties
  <1>3. \A i : i \in 1 .. n + 1 <=> i \in 1 .. n \/ i = n + 1
    BY <1>1
  <1> HIDE DEF n, r
  <1>4. \A j \in 1 .. n : r[j] \in Range(s) /\ r[j].key # e.key
    BY <1>1, <1>2 DEF Range
  <1>5. OnceEach(r)
    BY <1>1, <1>2, <1>3, <1>4 DEF OnceEach
  <1>6. \A x : x \in Range(r) <=> x \in Range(s) \/ x = e
    BY <1>1, <1>2, <1>3 DEF Range
  <1> QED
    BY <1>1, <1>5, <1>6 DEF n, r

(***************************************************************************)
(* The entries of the cache                                                *)
(***************************************************************************)

\* What the cache holds, whatever was used last.
Held == Range(entries)

EntriesInv ==
  /\ entries \in Seq(CacheEntry) /\ OnceEach(entries)
  /\ Len(entries) <= Capacity

LEMMA HeldEntries ==
  ASSUME EntriesInv
  PROVE  /\ Held \subseteq CacheEntry
         /\ \A x, y \in Held : x.key = y.key => x = y
         /\ \A k : At(k) = {} <=> \A x \in Held : x.key # k
         /\ \A k : At(k) # {} =>
              /\ Place(k) \in DOMAIN entries /\ Entry(k) \in Held /\ Entry(k).key = k
              /\ Entry(k) \in CacheEntry
  <1>1. \A x : x \in Held <=> \E i \in DOMAIN entries : entries[i] = x
    BY DEF Held, Range
  <1>2. \A i \in DOMAIN entries : entries[i] \in CacheEntry
    BY LenProperties DEF EntriesInv
  <1>3. \A x, y \in Held : x.key = y.key => x = y
    BY <1>1 DEF EntriesInv, OnceEach
  <1>4. ASSUME NEW k
        PROVE  At(k) = {} <=> \A x \in Held : x.key # k
    BY <1>1 DEF At
  <1>5. ASSUME NEW k, At(k) # {}
        PROVE  Place(k) \in DOMAIN entries /\ Entry(k) \in Held /\ Entry(k).key = k
    <2>1. Place(k) \in At(k)
      BY <1>5 DEF Place
    <2> QED
      BY <1>1, <2>1 DEF At, Entry
  <1> QED
    BY <1>1, <1>2, <1>3, <1>4, <1>5

\* An entry moves to the end, perhaps with another number of references.
LEMMA MovedToEnd ==
  ASSUME EntriesInv, NEW k \in Keys, At(k) # {}, NEW e \in CacheEntry, e.key = k,
         entries' = ToEnd(k, e)
  PROVE  EntriesInv' /\ \A x : x \in Held' <=> (x \in Held /\ x.key # k) \/ x = e
  <1> DEFINE less == RemoveAt(entries, Place(k))
  <1>1. /\ Place(k) \in DOMAIN entries /\ entries[Place(k)].key = k
        /\ entries[Place(k)] \in Held
        /\ \A x, y \in Held : x.key = y.key => x = y
    BY HeldEntries DEF Entry
  <1>2. /\ less \in Seq(CacheEntry) /\ OnceEach(less) /\ Len(less) = Len(entries) - 1
        /\ \A x : x \in Range(less) <=> x \in Held /\ x # entries[Place(k)]
    BY <1>1, OneLess DEF EntriesInv, Held
  <1>3. entries' = Append(less, e)
    BY DEF ToEnd
  <1> HIDE DEF less
  <1>4. \A x : x \in Range(less) <=> x \in Held /\ x.key # k
    BY <1>1, <1>2
  <1>5. /\ entries' \in Seq(CacheEntry) /\ OnceEach(entries') /\ Len(entries') = Len(less) + 1
        /\ \A x : x \in Range(entries') <=> x \in Range(less) \/ x = e
    BY <1>2, <1>3, <1>4, OneMore
  <1>6. Len(entries') <= Capacity
    BY <1>2, <1>5 DEF EntriesInv
  <1> QED
    BY <1>4, <1>5, <1>6 DEF EntriesInv, Held

\* Room is made: what goes has no references.
LEMMA RoomIsMade ==
  ASSUME EntriesInv, CanPop
  PROVE  /\ Popped \in Seq(CacheEntry) /\ OnceEach(Popped) /\ Len(Popped) < Capacity
         /\ Range(Popped) \subseteq Held
         /\ \A x \in Held \ Range(Popped) : x.refs = 0
  <1>1. Capacity \in Nat /\ Len(entries) \in Nat /\ Capacity # 0
    BY CacheAssumption DEF EntriesInv
  <1>2. CASE ~Full
    BY <1>1, <1>2 DEF Popped, Full, EntriesInv, Held
  <1>3. CASE Full
    <2> DEFINE i == Min(Unpinned)
    <2>1. Unpinned \in SUBSET Nat /\ Unpinned # {}
      BY <1>3, LenProperties DEF CanPop, Unpinned, EntriesInv
    <2>2. i \in Unpinned
      BY <2>1, MinOfNats
    <2>3. i \in DOMAIN entries /\ entries[i].refs = 0
      BY <2>2 DEF Unpinned
    <2>4. Popped = RemoveAt(entries, i)
      BY <1>3 DEF Popped
    <2> HIDE DEF i
    <2>5. /\ Popped \in Seq(CacheEntry) /\ OnceEach(Popped) /\ Len(Popped) = Len(entries) - 1
          /\ \A x : x \in Range(Popped) <=> x \in Held /\ x # entries[i]
      BY <2>3, <2>4, OneLess DEF EntriesInv, Held
    <2>6. Len(Popped) < Capacity
      BY <1>1, <2>5 DEF EntriesInv
    <2> QED
      BY <2>3, <2>5, <2>6
  <1> QED
    BY <1>2, <1>3

(***************************************************************************)
(* The calls                                                               *)
(***************************************************************************)

CallState == [pc : CallPCs, key : Keys \cup {NoCall}, of : Callers \cup {NoCall}]
Futures == {"none", "pending", "result", "exception", "cancelled"}

CallsType ==
  /\ inflight \in [Keys -> Callers \cup {NoCall}]
  /\ call \in [Callers -> CallState]
  /\ future \in [Callers -> Futures]

\* A future that is registered under a key is its creator's, and the key has
\* no entry yet.
FlightInv ==
  \A k \in Keys : inflight[k] # NoCall =>
    LET c == inflight[k] IN
    /\ call[c].key = k /\ call[c].pc \in {"creating", "cancelled"}
    /\ future[c] \in {"pending", "cancelled"}
    /\ \A x \in Held : x.key # k

CreatorInv ==
  \A c \in Callers : call[c].pc = "creating" => call[c].key \in Keys /\ inflight[call[c].key] = c

WaiterInv ==
  \A c \in Callers : call[c].pc = "waiting" =>
    /\ call[c].of \in Callers /\ future[call[c].of] = "pending"
    /\ call[call[c].of].pc \in {"creating", "cancelled"}

CallsInv == CallsType /\ FlightInv /\ CreatorInv /\ WaiterInv

\* A call that has a value keeps it.
StillReturned == \A c \in Callers : call[c].pc = "returned" => call'[c].pc = "returned"

\* No key is taken that has no entry now.
NoNewKeys == \A x \in Held' : \E y \in Held : y.key = x.key

LEMMA QuietCalls ==
  ASSUME CallsInv, NoNewKeys, UNCHANGED <<inflight, call, future>>
  PROVE  CallsInv' /\ StillReturned
  <1>1. FlightInv'
    BY DEF CallsInv, FlightInv, NoNewKeys
  <1> QED
    BY <1>1 DEF CallsInv, CallsType, CreatorInv, WaiterInv, StillReturned

\* A call that begins and neither creates nor waits.
LEMMA CallEnds ==
  ASSUME CallsInv, NoNewKeys, NEW c \in Callers, call[c].pc \in {"idle", "creating"},
         NEW x \in CallState, x.pc \in {"returned", "raised", "cancelled"},
         call[c].pc = "creating" => x = [call[c] EXCEPT !.pc = "cancelled"],
         call' = [call EXCEPT ![c] = x], UNCHANGED inflight,
         future' \in [Callers -> Futures],
         \A d \in Callers : (d = c /\ call[c].pc = "idle") \/ future'[d] = future[d]
  PROVE  CallsInv' /\ StillReturned
  <1>1. /\ \A d \in Callers \ {c} : call'[d] = call[d]
        /\ call'[c] = x /\ call' \in [Callers -> CallState]
    BY DEF CallsInv, CallsType
  <1>2. CallsType'
    BY <1>1 DEF CallsInv, CallsType
  <1>3. call[c] \in CallState
    BY DEF CallsInv, CallsType
  <1>4. call[c].pc = "creating" => x.key = call[c].key /\ x.pc = "cancelled"
    BY <1>3 DEF CallState
  <1>5. FlightInv'
    <2> SUFFICES ASSUME NEW k \in Keys, inflight[k] # NoCall
                 PROVE  /\ call'[inflight[k]].key = k
                        /\ call'[inflight[k]].pc \in {"creating", "cancelled"}
                        /\ future'[inflight[k]] \in {"pending", "cancelled"}
                        /\ \A y \in Held' : y.key # k
      BY DEF FlightInv
    <2>1. /\ inflight[k] \in Callers /\ call[inflight[k]].key = k
          /\ call[inflight[k]].pc \in {"creating", "cancelled"}
          /\ future[inflight[k]] \in {"pending", "cancelled"}
          /\ \A y \in Held : y.key # k
      BY DEF CallsInv, CallsType, FlightInv
    <2> QED
      BY <1>1, <1>4, <2>1 DEF NoNewKeys
  <1>6. CreatorInv'
    BY <1>1 DEF CallsInv, CreatorInv
  <1>7. WaiterInv'
    <2> SUFFICES ASSUME NEW d \in Callers, call'[d].pc = "waiting"
                 PROVE  /\ call'[d].of \in Callers /\ future'[call'[d].of] = "pending"
                        /\ call'[call'[d].of].pc \in {"creating", "cancelled"}
      BY DEF WaiterInv
    <2>1. d # c /\ call'[d] = call[d]
      BY <1>1
    <2>2. /\ call[d].of \in Callers /\ future[call[d].of] = "pending"
          /\ call[call[d].of].pc \in {"creating", "cancelled"}
      BY <2>1 DEF CallsInv, WaiterInv
    <2> QED
      BY <1>1, <1>4, <2>1, <2>2
  <1>8. StillReturned
    BY <1>1 DEF StillReturned
  <1> QED
    BY <1>2, <1>5, <1>6, <1>7, <1>8 DEF CallsInv

LEMMA JoinKeepsCalls ==
  ASSUME EntriesInv, CallsInv, NEW c \in Callers, NEW k \in Keys, Join(c, k)
  PROVE  CallsInv' /\ StillReturned
  <1> DEFINE d == inflight[k]
             x == [pc |-> IF future[d] = "cancelled" THEN "cancelled" ELSE "waiting",
                   key |-> k, of |-> d]
  <1>1. /\ call[c].pc = "idle" /\ d # NoCall /\ call' = [call EXCEPT ![c] = x]
        /\ entries' = entries /\ inflight' = inflight /\ future' = future
    BY DEF Join
  <1>2. /\ d \in Callers /\ call[d].key = k /\ call[d].pc \in {"creating", "cancelled"}
        /\ future[d] \in {"pending", "cancelled"}
    BY <1>1 DEF CallsInv, CallsType, FlightInv
  <1>3. /\ x \in CallState /\ x.of = d
        /\ \/ x.pc = "waiting" /\ future[d] = "pending"
           \/ x.pc = "cancelled"
    BY <1>2 DEF CallState, CallPCs
  <1> HIDE DEF x
  <1>4. /\ \A e \in Callers \ {c} : call'[e] = call[e]
        /\ call'[c] = x /\ call' \in [Callers -> CallState]
    BY <1>1, <1>3 DEF CallsInv, CallsType
  <1>5. Held' = Held
    BY <1>1 DEF Held
  <1>6. CallsType'
    BY <1>1, <1>4 DEF CallsInv, CallsType
  <1>7. FlightInv'
    <2>1. \A j \in Keys : inflight[j] # NoCall => inflight[j] \in Callers /\ inflight[j] # c
      BY <1>1 DEF CallsInv, CallsType, FlightInv
    <2> QED
      BY <1>1, <1>4, <1>5, <2>1 DEF CallsInv, FlightInv
  <1>8. CreatorInv'
    BY <1>1, <1>3, <1>4 DEF CallsInv, CreatorInv
  <1>9. WaiterInv'
    <2>1. ASSUME NEW e \in Callers \ {c}, call[e].pc = "waiting"
          PROVE  call[e].of \in Callers \ {c}
      BY <1>1, <2>1 DEF CallsInv, WaiterInv
    <2> QED
      BY <1>1, <1>2, <1>3, <1>4, <2>1 DEF CallsInv, WaiterInv
  <1>10. StillReturned
    BY <1>1, <1>4 DEF StillReturned
  <1> QED
    BY <1>6, <1>7, <1>8, <1>9, <1>10 DEF CallsInv

LEMMA CreateKeepsCalls ==
  ASSUME EntriesInv, CallsInv, NEW c \in Callers, NEW k \in Keys, Create(c, k)
  PROVE  CallsInv' /\ StillReturned
  <1>1. call[c].pc = "idle" /\ inflight[k] = NoCall /\ \A x \in Held : x.key # k
    BY HeldEntries DEF Create
  <1>2. CASE ~CanPop
    <2> DEFINE x == [pc |-> "raised", key |-> k, of |-> c]
    <2>1. /\ call' = [call EXCEPT ![c] = x] /\ future' = [future EXCEPT ![c] = "exception"]
          /\ entries' = entries /\ inflight' = inflight
      BY <1>2 DEF Create
    <2>2. x \in CallState /\ x.pc = "raised"
      BY DEF CallState, CallPCs
    <2>3. /\ future' \in [Callers -> Futures]
          /\ \A d \in Callers : (d = c /\ call[c].pc = "idle") \/ future'[d] = future[d]
      BY <1>1, <2>1 DEF CallsInv, CallsType, Futures
    <2>4. NoNewKeys
      BY <2>1 DEF NoNewKeys, Held
    <2> HIDE DEF x
    <2> QED
      BY <1>1, <2>1, <2>2, <2>3, <2>4, CallEnds
  <1>3. CASE CanPop
    <2> DEFINE x == [pc |-> "creating", key |-> k, of |-> c]
    <2>1. /\ call' = [call EXCEPT ![c] = x] /\ future' = [future EXCEPT ![c] = "pending"]
          /\ entries' = Popped /\ inflight' = [inflight EXCEPT ![k] = c]
      BY <1>3 DEF Create
    <2>2. x \in CallState /\ x.pc = "creating" /\ x.key = k
      BY DEF CallState, CallPCs
    <2> HIDE DEF x
    <2>3. /\ \A d \in Callers \ {c} : call'[d] = call[d] /\ future'[d] = future[d]
          /\ call'[c] = x /\ future'[c] = "pending"
          /\ \A j \in Keys \ {k} : inflight'[j] = inflight[j]
          /\ inflight'[k] = c
      BY <2>1 DEF CallsInv, CallsType
    <2>4. CallsType'
      BY <2>1, <2>2 DEF CallsInv, CallsType, Futures
    <2>5. Held' \subseteq Held
      BY <1>3, <2>1, RoomIsMade DEF Held
    <2>6. c \in Callers /\ c # NoCall
      BY CacheAssumption
    <2>7. FlightInv'
      <3>1. ASSUME NEW j \in Keys \ {k}, inflight[j] # NoCall
            PROVE  inflight[j] \in Callers \ {c}
        BY <1>1, <3>1 DEF CallsInv, CallsType, FlightInv
      <3> QED
        BY <1>1, <2>2, <2>3, <2>5, <3>1 DEF CallsInv, FlightInv
    <2>8. CreatorInv'
      <3>1. ASSUME NEW d \in Callers \ {c}, call[d].pc = "creating"
            PROVE  call[d].key \in Keys \ {k} /\ inflight[call[d].key] = d
        BY <1>1, <3>1, CacheAssumption DEF CallsInv, CreatorInv
      <3> QED
        BY <2>2, <2>3, <3>1 DEF CreatorInv
    <2>9. WaiterInv'
      <3>1. ASSUME NEW e \in Callers \ {c}, call[e].pc = "waiting"
            PROVE  call[e].of \in Callers \ {c}
        BY <1>1, <3>1 DEF CallsInv, WaiterInv
      <3> QED
        BY <2>2, <2>3, <3>1 DEF CallsInv, WaiterInv
    <2>10. StillReturned
      BY <1>1, <2>3 DEF StillReturned
    <2> QED
      BY <2>4, <2>7, <2>8, <2>9, <2>10 DEF CallsInv
  <1> QED
    BY <1>2, <1>3

\* The creator is through: its key is free, and who has waited for it goes on.
LEMMA SettlingKeepsCalls ==
  ASSUME CallsInv, NEW c \in Callers, call[c].pc = "creating",
         NEW result \in {"result", "exception"}, NEW how \in {"returned", "raised"},
         inflight' = [inflight EXCEPT ![call[c].key] = NoCall],
         future' = Settled(c, result), call' = Resumed(c, how),
         \A x \in Held' : x.key = call[c].key \/ \E y \in Held : y.key = x.key
  PROVE  CallsInv' /\ StillReturned /\ call'[c].pc = how
  <1> DEFINE k == call[c].key
  <1>1. k \in Keys /\ inflight[k] = c /\ c # NoCall
    BY CacheAssumption DEF CallsInv, CreatorInv
  <1>2. /\ \A j \in Keys \ {k} : inflight'[j] = inflight[j]
        /\ inflight'[k] = NoCall
        /\ inflight' \in [Keys -> Callers \cup {NoCall}]
    BY <1>1 DEF CallsInv, CallsType
  <1>3. future' \in [Callers -> Futures] /\ \A d \in Callers \ {c} : future'[d] = future[d]
    BY DEF Settled, CallsInv, CallsType, Futures
  <1>4. ASSUME NEW d \in Callers
        PROVE  /\ call'[d] \in CallState /\ call'[d].key = call[d].key /\ call'[d].of = call[d].of
               /\ call'[d].pc = (IF d = c \/ (call[d].pc = "waiting" /\ call[d].of = c)
                                 THEN how ELSE call[d].pc)
    <2>1. call[d] \in CallState
      BY DEF CallsInv, CallsType
    <2>2. CASE d = c \/ (call[d].pc = "waiting" /\ call[d].of = c)
      <3> DEFINE x == [call[d] EXCEPT !.pc = how]
      <3>1. call'[d] = x
        BY <2>2 DEF Resumed
      <3>2. x \in CallState /\ x.key = call[d].key /\ x.of = call[d].of /\ x.pc = how
        BY <2>1 DEF CallState, CallPCs
      <3> QED
        BY <2>2, <3>1, <3>2
    <2>3. CASE ~(d = c \/ (call[d].pc = "waiting" /\ call[d].of = c))
      BY <2>1, <2>3 DEF Resumed
    <2> QED
      BY <2>2, <2>3
  <1>5. CallsType'
    <2>1. call' \in [Callers -> CallState]
      BY <1>4 DEF Resumed
    <2> QED
      BY <1>2, <1>3, <2>1 DEF CallsType
  <1>6. FlightInv'
    <2> SUFFICES ASSUME NEW j \in Keys, inflight'[j] # NoCall
                 PROVE  /\ call'[inflight'[j]].key = j
                        /\ call'[inflight'[j]].pc \in {"creating", "cancelled"}
                        /\ future'[inflight'[j]] \in {"pending", "cancelled"}
                        /\ \A y \in Held' : y.key # j
      BY DEF FlightInv
    <2>1. j # k /\ inflight'[j] = inflight[j]
      BY <1>2
    <2>2. /\ inflight[j] \in Callers /\ call[inflight[j]].key = j
          /\ call[inflight[j]].pc \in {"creating", "cancelled"}
          /\ future[inflight[j]] \in {"pending", "cancelled"}
          /\ \A y \in Held : y.key # j
      BY <2>1 DEF CallsInv, CallsType, FlightInv
    <2>3. inflight[j] # c
      BY <2>1, <2>2
    <2> QED
      BY <1>3, <1>4, <2>1, <2>2, <2>3
  <1>7. CreatorInv'
    <2> SUFFICES ASSUME NEW d \in Callers, call'[d].pc = "creating"
                 PROVE  call'[d].key \in Keys /\ inflight'[call'[d].key] = d
      BY DEF CreatorInv
    <2>1. d # c /\ call[d].pc = "creating"
      BY <1>4
    <2>2. call[d].key \in Keys /\ inflight[call[d].key] = d
      BY <2>1 DEF CallsInv, CreatorInv
    <2> QED
      BY <1>1, <1>2, <1>4, <2>1, <2>2
  <1>8. WaiterInv'
    <2> SUFFICES ASSUME NEW d \in Callers, call'[d].pc = "waiting"
                 PROVE  /\ call'[d].of \in Callers /\ future'[call'[d].of] = "pending"
                        /\ call'[call'[d].of].pc \in {"creating", "cancelled"}
      BY DEF WaiterInv
    <2>1. d # c /\ call[d].pc = "waiting" /\ call[d].of # c
      BY <1>4
    <2>2. /\ call[d].of \in Callers /\ future[call[d].of] = "pending"
          /\ call[call[d].of].pc \in {"creating", "cancelled"}
      BY <2>1 DEF CallsInv, WaiterInv
    <2> QED
      BY <1>3, <1>4, <2>1, <2>2
  <1>9. StillReturned
    BY <1>4 DEF StillReturned
  <1> QED
    BY <1>4, <1>5, <1>6, <1>7, <1>8, <1>9 DEF CallsInv

\* A waiter's cancellation cancels the future and with it all who wait for it.
LEMMA CancelKeepsCalls ==
  ASSUME CallsInv, NEW c \in Callers, CancelWaiter(c)
  PROVE  CallsInv' /\ StillReturned
  <1> DEFINE of == call[c].of
  <1>1. /\ call[c].pc = "waiting" /\ future[of] = "pending"
        /\ future' = [future EXCEPT ![of] = "cancelled"]
        /\ entries' = entries /\ inflight' = inflight
    BY DEF CancelWaiter
  <1>2. of \in Callers
    BY <1>1 DEF CallsInv, WaiterInv
  <1>3. /\ future'[of] = "cancelled" /\ \A d \in Callers \ {of} : future'[d] = future[d]
        /\ future' \in [Callers -> Futures] /\ Held' = Held
    BY <1>1, <1>2 DEF CallsInv, CallsType, Futures, Held
  <1>4. ASSUME NEW d \in Callers
        PROVE  /\ call'[d] \in CallState /\ call'[d].key = call[d].key /\ call'[d].of = call[d].of
               /\ call'[d].pc = (IF call[d].pc = "waiting" /\ call[d].of = of
                                 THEN "cancelled" ELSE call[d].pc)
    <2>1. call[d] \in CallState
      BY DEF CallsInv, CallsType
    <2>2. CASE call[d].pc = "waiting" /\ call[d].of = of
      <3> DEFINE x == [call[d] EXCEPT !.pc = "cancelled"]
      <3>1. call'[d] = x
        BY <2>2 DEF CancelWaiter
      <3>2. x \in CallState /\ x.key = call[d].key /\ x.of = call[d].of /\ x.pc = "cancelled"
        BY <2>1 DEF CallState, CallPCs
      <3> QED
        BY <2>2, <3>1, <3>2
    <2>3. CASE ~(call[d].pc = "waiting" /\ call[d].of = of)
      BY <2>1, <2>3 DEF CancelWaiter
    <2> QED
      BY <2>2, <2>3
  <1> HIDE DEF of
  <1>5. CallsType'
    <2>1. call' \in [Callers -> CallState]
      BY <1>4 DEF CancelWaiter
    <2> QED
      BY <1>1, <1>3, <2>1 DEF CallsInv, CallsType
  <1>6. FlightInv'
    <2>1. \A k \in Keys : inflight[k] # NoCall => inflight[k] \in Callers
      BY DEF CallsInv, CallsType
    <2> QED
      BY <1>1, <1>3, <1>4, <2>1 DEF CallsInv, FlightInv
  <1>7. CreatorInv'
    BY <1>1, <1>4 DEF CallsInv, CreatorInv
  <1>8. WaiterInv'
    BY <1>3, <1>4 DEF CallsInv, WaiterInv
  <1>9. StillReturned
    BY <1>4 DEF StillReturned
  <1> QED
    BY <1>5, <1>6, <1>7, <1>8, <1>9 DEF CallsInv

(***************************************************************************)
(* The pins                                                                *)
(***************************************************************************)

PinRecord == [key : Keys \cup {NoCall}, value : Callers \cup {NoCall}, cleared : BOOLEAN]

\* Who holds a pin of a key, and those of them whose entry no clear has taken.
PinHolders(k) == { u \in Users : pinned[u].key = k }
Claims(k) == { u \in Users : pinned[u].key = k /\ ~pinned[u].cleared }

PinsType == pinned \in [Users -> PinRecord] /\ strayed \subseteq Keys

\* An entry has no more references than its key has pins, and exactly as many
\* as pins are left after the last clear, unless an unpin went astray.
RefsInv ==
  \A x \in Held :
    /\ call[x.value].pc = "returned"
    /\ x.refs <= Cardinality(PinHolders(x.key))
    /\ x.key \notin strayed => x.refs = Cardinality(Claims(x.key))

\* A pin's value was created, so that no entry gets it again after a clear; it
\* is there as long as no clear has taken it.
PinOk(u) ==
  LET p == pinned[u] IN
  p = NoPin \/ /\ p.key \in Keys /\ p.value \in Callers /\ call[p.value].pc = "returned"
               /\ p.cleared => \A x \in Held : x.value # p.value
               /\ (~p.cleared /\ p.key \notin strayed)
                    => \E x \in Held : x.key = p.key /\ x.value = p.value

PinsInv == PinsType /\ RefsInv /\ \A u \in Users : PinOk(u)

LEMMA CountedUsers ==
  ASSUME NEW k
  PROVE  /\ IsFiniteSet(PinHolders(k)) /\ Cardinality(PinHolders(k)) \in Nat
         /\ Cardinality(PinHolders(k)) <= Cardinality(Users)
         /\ IsFiniteSet(Claims(k)) /\ Cardinality(Claims(k)) \in Nat
         /\ Cardinality(Claims(k)) <= Cardinality(PinHolders(k))
         /\ Cardinality(Claims(k)) = 0 => Claims(k) = {}
  <1>1. PinHolders(k) \subseteq Users /\ Claims(k) \subseteq PinHolders(k)
    BY DEF PinHolders, Claims
  <1>2. IsFiniteSet(PinHolders(k)) /\ Cardinality(PinHolders(k)) <= Cardinality(Users)
    BY <1>1, FS_Subset, CacheAssumption
  <1>3. IsFiniteSet(Claims(k)) /\ Cardinality(Claims(k)) <= Cardinality(PinHolders(k))
    BY <1>1, <1>2, FS_Subset
  <1> QED
    BY <1>2, <1>3, FS_CardinalityType, FS_EmptySet

\* Entries without references go, a new one comes.
LEMMA EntriesKeepPins ==
  ASSUME EntriesInv, PinsInv, EntriesInv', StillReturned, UNCHANGED <<pinned, strayed>>,
         NEW kept \in SUBSET Held, \A x \in Held \ kept : x.refs = 0,
         NEW new \in SUBSET CacheEntry,
         \A x : x \in Held' <=> x \in kept \/ x \in new,
         \A x \in new : /\ x.refs = 0 /\ call[x.value].pc # "returned"
                        /\ call'[x.value].pc = "returned"
                        /\ \A y \in Held : y.key # x.key
  PROVE  PinsInv'
  <1>1. PinsType'
    BY DEF PinsInv, PinsType
  <1>2. \A k : PinHolders(k)' = PinHolders(k) /\ Claims(k)' = Claims(k)
    BY DEF PinHolders, Claims
  <1>3. ASSUME NEW u \in Users, pinned[u] # NoPin
        PROVE  /\ pinned[u].key \in Keys /\ pinned[u].value \in Callers
               /\ call[pinned[u].value].pc = "returned"
               /\ pinned[u].cleared => \A x \in Held : x.value # pinned[u].value
               /\ (~pinned[u].cleared /\ pinned[u].key \notin strayed)
                    => \E x \in Held : x.key = pinned[u].key /\ x.value = pinned[u].value
    BY <1>3 DEF PinsInv, PinOk
  <1>4. ASSUME NEW x \in kept
        PROVE  /\ call'[x.value].pc = "returned"
               /\ x.refs <= Cardinality(PinHolders(x.key))
               /\ x.key \notin strayed => x.refs = Cardinality(Claims(x.key))
    <2>1. x \in CacheEntry /\ x.value \in Callers
      BY HeldEntries DEF CacheEntry
    <2> QED
      BY <2>1 DEF PinsInv, RefsInv, StillReturned
  <1>5. ASSUME NEW x \in new
        PROVE  /\ x.refs <= Cardinality(PinHolders(x.key))
               /\ x.key \notin strayed => x.refs = Cardinality(Claims(x.key))
    <2>1. x.refs = 0 /\ x.key \in Keys /\ \A y \in Held : y.key # x.key
      BY DEF CacheEntry
    <2>2. ASSUME x.key \notin strayed, NEW u \in Claims(x.key)
          PROVE  FALSE
      <3>1. pinned[u].key = x.key /\ ~pinned[u].cleared /\ u \in Users
        BY DEF Claims
      <3>2. pinned[u] # NoPin
        BY <2>1, <3>1, CacheAssumption DEF NoPin
      <3> QED
        BY <1>3, <2>1, <2>2, <3>1, <3>2
    <2>3. x.key \notin strayed => Claims(x.key) = {}
      BY <2>2
    <2> QED
      BY <2>1, <2>3, CountedUsers, FS_EmptySet
  <1>6. RefsInv'
    <2> SUFFICES ASSUME NEW x \in Held'
                 PROVE  /\ call'[x.value].pc = "returned"
                        /\ x.refs <= Cardinality(PinHolders(x.key))
                        /\ x.key \notin strayed => x.refs = Cardinality(Claims(x.key))
      BY <1>2 DEF RefsInv
    <2> QED
      BY <1>4, <1>5
  <1>7. ASSUME NEW u \in Users
        PROVE  PinOk(u)'
    <2> DEFINE p == pinned[u]
    <2>1. CASE p = NoPin
      BY <2>1 DEF PinOk
    <2>2. CASE p # NoPin
      <3>1. call'[p.value].pc = "returned"
        BY <1>3, <2>2 DEF StillReturned
      <3>2. p.cleared => \A x \in Held' : x.value # p.value
        BY <1>3, <2>2
      <3>3. ASSUME ~p.cleared, p.key \notin strayed
            PROVE  \E x \in Held' : x.key = p.key /\ x.value = p.value
        <4>1. PICK x \in Held : x.key = p.key /\ x.value = p.value
          BY <1>3, <2>2, <3>3
        <4>2. u \in Claims(x.key)
          BY <3>3, <4>1 DEF Claims
        <4>3. x.refs # 0
          <5>1. x.refs = Cardinality(Claims(x.key))
            BY <3>3, <4>1 DEF PinsInv, RefsInv
          <5> QED
            BY <4>2, <5>1, CountedUsers
        <4> QED
          BY <4>1, <4>3
      <3> QED
        BY <1>3, <2>2, <3>1, <3>2, <3>3 DEF PinOk
    <2> QED
      BY <2>1, <2>2
  <1> QED
    BY <1>1, <1>6, <1>7 DEF PinsInv

LEMMA PinKeepsPins ==
  ASSUME EntriesInv, PinsInv, NEW u \in Users, NEW k \in Keys, Pin(u, k)
  PROVE  EntriesInv' /\ NoNewKeys /\ PinsInv'
  <1>1. PICK x : x = Entry(k)
    OBVIOUS
  <1>2. At(k) # {} /\ x \in Held /\ x.key = k /\ x \in CacheEntry
    BY <1>1, HeldEntries DEF Pin
  <1>3. PICK e : e = [x EXCEPT !.refs = @ + 1]
    OBVIOUS
  <1>4. e \in CacheEntry /\ e.key = k /\ e.value = x.value /\ e.refs = x.refs + 1 /\ x.refs \in Nat
    BY <1>2, <1>3 DEF CacheEntry
  <1>5. /\ pinned[u] = NoPin /\ entries' = ToEnd(k, e)
        /\ pinned' = [pinned EXCEPT ![u] = [key |-> k, value |-> x.value, cleared |-> FALSE]]
        /\ call' = call /\ strayed' = strayed
    BY <1>1, <1>3 DEF Pin
  <1>6. EntriesInv' /\ \A y : y \in Held' <=> (y \in Held /\ y.key # k) \/ y = e
    BY <1>2, <1>4, <1>5, MovedToEnd
  <1>7. NoNewKeys
    BY <1>2, <1>4, <1>6 DEF NoNewKeys
  <1>8. /\ \A v \in Users \ {u} : pinned'[v] = pinned[v]
        /\ pinned'[u].key = k /\ pinned'[u].value = x.value /\ ~pinned'[u].cleared
        /\ pinned' \in [Users -> PinRecord]
        /\ pinned[u].key \notin Keys
    BY <1>2, <1>5, CacheAssumption DEF PinsInv, PinsType, PinRecord, CacheEntry, NoPin
  <1>9. ASSUME NEW j \in Keys \ {k}
        PROVE  PinHolders(j)' = PinHolders(j) /\ Claims(j)' = Claims(j)
    BY <1>8 DEF PinHolders, Claims
  <1>10. /\ Cardinality(PinHolders(k)') = Cardinality(PinHolders(k)) + 1
         /\ Cardinality(Claims(k)') = Cardinality(Claims(k)) + 1
    <2>1. PinHolders(k)' = PinHolders(k) \cup {u} /\ Claims(k)' = Claims(k) \cup {u}
      BY <1>8 DEF PinHolders, Claims
    <2>2. u \notin PinHolders(k) /\ u \notin Claims(k)
      BY <1>8 DEF PinHolders, Claims
    <2> QED
      BY <2>1, <2>2, CountedUsers, FS_AddElement
  <1>11. RefsInv'
    <2> SUFFICES ASSUME NEW y \in Held'
                 PROVE  /\ call[y.value].pc = "returned"
                        /\ y.refs <= Cardinality(PinHolders(y.key)')
                        /\ y.key \notin strayed => y.refs = Cardinality(Claims(y.key)')
      BY <1>5 DEF RefsInv
    <2>1. CASE y \in Held /\ y.key # k
      <3>1. y.key \in Keys
        BY <2>1, HeldEntries DEF CacheEntry
      <3> QED
        BY <1>9, <2>1, <3>1 DEF PinsInv, RefsInv
    <2>2. CASE y = e
      <3>1. /\ call[x.value].pc = "returned" /\ x.refs <= Cardinality(PinHolders(k))
            /\ k \notin strayed => x.refs = Cardinality(Claims(k))
        BY <1>2 DEF PinsInv, RefsInv
      <3> QED
        BY <1>4, <1>10, <2>2, <3>1, CountedUsers
    <2> QED
      BY <1>6, <2>1, <2>2
  <1>12. ASSUME NEW v \in Users
         PROVE  PinOk(v)'
    <2>1. CASE v = u
      <3>1. x.value \in Callers /\ call[x.value].pc = "returned"
        BY <1>2 DEF CacheEntry, PinsInv, RefsInv
      <3> QED
        BY <1>4, <1>5, <1>6, <1>8, <2>1, <3>1 DEF PinOk
    <2>2. CASE v # u
      <3>1. \A y \in Held' : \E z \in Held : z.value = y.value
        BY <1>2, <1>4, <1>6
      <3>2. \A z \in Held : \E y \in Held' : y.key = z.key /\ y.value = z.value
        BY <1>2, <1>4, <1>6, HeldEntries
      <3>3. pinned'[v] = pinned[v] /\ PinOk(v)
        BY <1>8, <2>2 DEF PinsInv
      <3> QED
        BY <1>5, <3>1, <3>2, <3>3 DEF PinOk
    <2> QED
      BY <2>1, <2>2
  <1> QED
    BY <1>5, <1>6, <1>7, <1>8, <1>11, <1>12 DEF PinsInv, PinsType

LEMMA ClearKeepsPins ==
  ASSUME EntriesInv, PinsInv, Clear
  PROVE  EntriesInv' /\ NoNewKeys /\ PinsInv'
  <1>1. /\ entries' = <<>> /\ call' = call /\ strayed' = strayed
        /\ pinned' = [u \in Users |-> IF pinned[u] = NoPin THEN NoPin
                                      ELSE [pinned[u] EXCEPT !.cleared = TRUE]]
    BY DEF Clear
  <1>2. Held' = {}
    BY <1>1 DEF Held, Range
  <1>3. EntriesInv'
    BY <1>1, CacheAssumption DEF EntriesInv, OnceEach
  <1>4. ASSUME NEW u \in Users
        PROVE  pinned'[u] \in PinRecord /\ PinOk(u)'
    <2>1. pinned[u] \in PinRecord /\ PinOk(u)
      BY DEF PinsInv, PinsType
    <2>2. CASE pinned[u] = NoPin
      BY <1>1, <2>1, <2>2 DEF PinOk
    <2>3. CASE pinned[u] # NoPin
      <3> DEFINE p == [pinned[u] EXCEPT !.cleared = TRUE]
      <3>1. pinned'[u] = p
        BY <1>1, <2>3
      <3>2. /\ p \in PinRecord /\ p.key = pinned[u].key /\ p.value = pinned[u].value
            /\ p.cleared
        BY <2>1 DEF PinRecord
      <3> HIDE DEF p
      <3> QED
        BY <1>1, <1>2, <2>1, <2>3, <3>1, <3>2 DEF PinOk
    <2> QED
      BY <2>2, <2>3
  <1>5. PinsType' /\ RefsInv'
    BY <1>1, <1>2, <1>4 DEF PinsType, RefsInv, PinsInv
  <1>6. NoNewKeys
    BY <1>2 DEF NoNewKeys
  <1> QED
    BY <1>3, <1>4, <1>5, <1>6 DEF PinsInv

\* An unpin after a clear may hit an entry that is not the pin's: its key has
\* strayed from then on.  Otherwise it takes back its own reference.
LEMMA UnpinKeepsPins ==
  ASSUME EntriesInv, PinsInv, NEW u \in Users, Unpin(u)
  PROVE  EntriesInv' /\ NoNewKeys /\ PinsInv'
  <1>0. PICK k : k = pinned[u].key
    OBVIOUS
  <1> DEFINE Low(x) == IF x.key = k /\ x.refs > 0 THEN [x EXCEPT !.refs = @ - 1] ELSE x
  <1>1. /\ pinned[u] # NoPin /\ pinned' = [pinned EXCEPT ![u] = NoPin] /\ call' = call
        /\ entries' = [i \in DOMAIN entries |-> Low(entries[i])]
        /\ strayed' = IF At(k) # {} /\ Entry(k).value # pinned[u].value
                      THEN strayed \cup {k} ELSE strayed
    BY <1>0 DEF Unpin
  <1>2. k \in Keys /\ k # NoCall
    BY <1>0, <1>1, CacheAssumption DEF PinsInv, PinOk
  <1>3. ASSUME NEW x \in CacheEntry
        PROVE  /\ Low(x) \in CacheEntry /\ Low(x).key = x.key /\ Low(x).value = x.value
               /\ x.refs \in Nat
               /\ Low(x).refs = IF x.key = k /\ x.refs > 0 THEN x.refs - 1 ELSE x.refs
    BY DEF CacheEntry
  <1> HIDE DEF Low
  <1>4. EntriesInv'
    <2> DEFINE n == Len(entries)
    <2>1. n \in Nat /\ DOMAIN entries = 1 .. n /\ \A i \in 1 .. n : entries[i] \in CacheEntry
      BY LenProperties DEF EntriesInv
    <2>2. DOMAIN entries' = 1 .. n /\ \A i \in 1 .. n : entries'[i] = Low(entries[i])
      BY <1>1, <2>1
    <2> HIDE DEF n
    <2>3. entries' \in [1 .. n -> CacheEntry]
      BY <1>1, <1>3, <2>1
    <2>4. entries' \in Seq(CacheEntry) /\ Len(entries') = n
      BY <2>1, <2>3, SeqDef, LenProperties
    <2>5. OnceEach(entries')
      BY <1>3, <2>1, <2>2 DEF EntriesInv, OnceEach
    <2> QED
      BY <2>4, <2>5 DEF EntriesInv, n
  <1>5. \A y : y \in Held' <=> \E x \in Held : y = Low(x)
    BY <1>1 DEF Held, Range
  <1>6. Held \subseteq CacheEntry
    BY HeldEntries
  <1>7. NoNewKeys
    BY <1>3, <1>5, <1>6 DEF NoNewKeys
  <1>8. /\ \A v \in Users \ {u} : pinned'[v] = pinned[v]
        /\ pinned'[u] = NoPin /\ pinned'[u].key = NoCall
        /\ pinned' \in [Users -> PinRecord]
    BY <1>1 DEF PinsInv, PinsType, PinRecord, NoPin
  <1>9. ASSUME NEW j \in Keys \ {k}
        PROVE  PinHolders(j)' = PinHolders(j) /\ Claims(j)' = Claims(j)
    BY <1>0, <1>8, CacheAssumption DEF PinHolders, Claims
  <1>10. PinHolders(k)' = PinHolders(k) \ {u} /\ Claims(k)' = Claims(k) \ {u}
    BY <1>0, <1>2, <1>8 DEF PinHolders, Claims
  <1>11. Cardinality(PinHolders(k)') = Cardinality(PinHolders(k)) - 1
    <2>1. u \in PinHolders(k)
      BY <1>0 DEF PinHolders
    <2> QED
      BY <1>10, <2>1, CountedUsers, FS_RemoveElement
  <1>12. RefsInv'
    <2> SUFFICES ASSUME NEW x \in Held
                 PROVE  /\ call[x.value].pc = "returned"
                        /\ Low(x).refs <= Cardinality(PinHolders(x.key)')
                        /\ x.key \notin strayed' => Low(x).refs = Cardinality(Claims(x.key)')
      BY <1>1, <1>3, <1>5, <1>6 DEF RefsInv
    <2>1. /\ x \in CacheEntry /\ x.key \in Keys /\ x.refs \in Nat
          /\ call[x.value].pc = "returned" /\ x.refs <= Cardinality(PinHolders(x.key))
          /\ x.key \notin strayed => x.refs = Cardinality(Claims(x.key))
      BY <1>6 DEF CacheEntry, PinsInv, RefsInv
    <2>2. CASE x.key # k
      BY <1>1, <1>3, <1>9, <2>1, <2>2
    <2>3. CASE x.key = k
      <3>1. Low(x).refs <= Cardinality(PinHolders(k)')
        <4>1. Cardinality(PinHolders(k)) \in Nat /\ Cardinality(PinHolders(k)') \in Nat
          BY <1>10, CountedUsers, FS_Subset, FS_CardinalityType
        <4> QED
          BY <1>3, <1>11, <2>1, <2>3, <4>1
      <3>2. ASSUME k \notin strayed'
            PROVE  Low(x).refs = Cardinality(Claims(k)')
        <4>1. At(k) # {} /\ Entry(k) = x
          BY <2>3, HeldEntries
        <4>2. k \notin strayed /\ x.value = pinned[u].value
          BY <1>1, <3>2, <4>1
        <4>3. u \in Claims(k)
          BY <1>0, <1>1, <3>2, <4>1, <4>2 DEF PinsInv, PinOk, Claims
        <4>4. Cardinality(Claims(k)') = Cardinality(Claims(k)) - 1
          BY <1>10, <4>3, CountedUsers, FS_RemoveElement
        <4>5. x.refs = Cardinality(Claims(k)) /\ x.refs # 0
          BY <2>1, <2>3, <4>2, <4>3, CountedUsers
        <4> QED
          BY <1>3, <2>1, <2>3, <4>4, <4>5
      <3> QED
        BY <2>1, <2>3, <3>1, <3>2
    <2> QED
      BY <2>2, <2>3
  <1>13. ASSUME NEW v \in Users
         PROVE  PinOk(v)'
    <2>1. CASE v = u
      BY <1>8, <2>1 DEF PinOk, NoPin
    <2>2. CASE v # u
      <3>1. \A y \in Held' : \E z \in Held : z.value = y.value
        BY <1>3, <1>5, <1>6
      <3>2. \A z \in Held : \E y \in Held' : y.key = z.key /\ y.value = z.value
        BY <1>3, <1>5, <1>6
      <3>3. pinned'[v] = pinned[v] /\ PinOk(v) /\ strayed \subseteq strayed'
        BY <1>1, <1>8, <2>2 DEF PinsInv
      <3> QED
        BY <1>1, <3>1, <3>2, <3>3 DEF PinOk
    <2> QED
      BY <2>1, <2>2
  <1>14. PinsType'
    BY <1>1, <1>2, <1>8 DEF PinsInv, PinsType
  <1> QED
    BY <1>4, <1>7, <1>12, <1>13, <1>14 DEF PinsInv

(***************************************************************************)
(* The cache's invariant, action by action                                 *)
(***************************************************************************)

CacheInv == EntriesInv /\ CallsInv /\ PinsInv

LEMMA CacheInvInit == CacheInit => CacheInv
  <1> SUFFICES ASSUME CacheInit
               PROVE  CacheInv
    OBVIOUS
  <1>1. Held = {}
    BY DEF CacheInit, Held, Range
  <1>2. EntriesInv
    BY CacheAssumption DEF CacheInit, EntriesInv, OnceEach
  <1>3. CallsInv
    BY <1>1 DEF CacheInit, CallsInv, CallsType, CallState, CallPCs, Futures, FlightInv, CreatorInv,
                WaiterInv
  <1>4. PinsInv
    BY <1>1 DEF CacheInit, PinsInv, PinsType, PinRecord, NoPin, RefsInv, PinOk
  <1> QED
    BY <1>2, <1>3, <1>4 DEF CacheInv

\* Nothing but the order of the entries changes, or nothing at all.
LEMMA SameEntriesKeepPins ==
  ASSUME EntriesInv, PinsInv, EntriesInv', \A x : x \in Held' <=> x \in Held, StillReturned,
         UNCHANGED <<pinned, strayed>>
  PROVE  PinsInv'
  <1> DEFINE new == {}
  <1>1. \A x \in Held \ Held : x.refs = 0
    OBVIOUS
  <1>2. /\ new \in SUBSET CacheEntry
        /\ \A x : x \in Held' <=> x \in Held \/ x \in new
        /\ \A x \in new : /\ x.refs = 0 /\ call[x.value].pc # "returned"
                          /\ call'[x.value].pc = "returned"
                          /\ \A y \in Held : y.key # x.key
    OBVIOUS
  <1> HIDE DEF new
  <1> QED
    BY <1>1, <1>2, EntriesKeepPins

LEMMA HitKeepsCache ==
  ASSUME CacheInv, NEW c \in Callers, NEW k \in Keys, Hit(c, k)
  PROVE  CacheInv'
  <1> DEFINE x == [pc |-> "returned", key |-> k, of |-> NoCall]
  <1>1. PICK e : e = Entry(k)
    OBVIOUS
  <1>2. /\ call[c].pc = "idle" /\ At(k) # {} /\ entries' = ToEnd(k, e)
        /\ call' = [call EXCEPT ![c] = x]
        /\ inflight' = inflight /\ future' = future /\ pinned' = pinned /\ strayed' = strayed
    BY <1>1 DEF Hit
  <1>3. e \in CacheEntry /\ e.key = k /\ e \in Held /\ \A y \in Held : y.key = k => y = e
    BY <1>1, <1>2, HeldEntries DEF CacheInv
  <1>4. EntriesInv' /\ \A y : y \in Held' <=> y \in Held
    <2>1. EntriesInv' /\ \A y : y \in Held' <=> (y \in Held /\ y.key # k) \/ y = e
      BY <1>2, <1>3, MovedToEnd DEF CacheInv
    <2> QED
      BY <1>3, <2>1
  <1>5. x \in CallState /\ x.pc = "returned"
    BY DEF CallState, CallPCs
  <1> HIDE DEF x
  <1>6. CallsInv' /\ StillReturned
    <2>1. NoNewKeys
      BY <1>4 DEF NoNewKeys
    <2>2. future' \in [Callers -> Futures]
      BY <1>2 DEF CacheInv, CallsInv, CallsType
    <2> QED
      BY <1>2, <1>5, <2>1, <2>2, CallEnds DEF CacheInv
  <1>7. PinsInv'
    BY <1>2, <1>4, <1>6, SameEntriesKeepPins DEF CacheInv
  <1> QED
    BY <1>4, <1>6, <1>7 DEF CacheInv

\* Steps that leave the entries and the pins alone.
LEMMA CallsAlone ==
  ASSUME CacheInv, CallsInv', StillReturned, UNCHANGED <<entries, pinned, strayed>>
  PROVE  CacheInv'
  <1>1. EntriesInv' /\ \A x : x \in Held' <=> x \in Held
    BY DEF CacheInv, EntriesInv, Held
  <1> QED
    BY <1>1, SameEntriesKeepPins DEF CacheInv

LEMMA CreateKeepsCache ==
  ASSUME CacheInv, NEW c \in Callers, NEW k \in Keys, Create(c, k)
  PROVE  CacheInv'
  <1>1. CallsInv' /\ StillReturned
    BY CreateKeepsCalls DEF CacheInv
  <1>2. CASE ~CanPop
    BY <1>1, <1>2, CallsAlone DEF Create
  <1>3. CASE CanPop
    <2> DEFINE kept == Range(Popped)
               new == {}
    <2>1. entries' = Popped /\ pinned' = pinned /\ strayed' = strayed
      BY <1>3 DEF Create
    <2>2. /\ EntriesInv' /\ kept \in SUBSET Held /\ \A x \in Held \ kept : x.refs = 0
          /\ Held' = kept
      <3>1. /\ Popped \in Seq(CacheEntry) /\ OnceEach(Popped) /\ Len(Popped) < Capacity
            /\ kept \subseteq Held /\ \A x \in Held \ kept : x.refs = 0
        BY <1>3, RoomIsMade DEF CacheInv
      <3> HIDE DEF kept
      <3>2. Len(Popped) <= Capacity
        <4>1. Len(Popped) \in Nat /\ Capacity \in Nat
          BY <3>1, LenProperties, CacheAssumption
        <4> QED
          BY <3>1, <4>1
      <3> QED
        BY <2>1, <3>1, <3>2 DEF EntriesInv, Held, kept
    <2>3. /\ new \in SUBSET CacheEntry
          /\ \A x : x \in Held' <=> x \in kept \/ x \in new
          /\ \A x \in new : /\ x.refs = 0 /\ call[x.value].pc # "returned"
                            /\ call'[x.value].pc = "returned"
                            /\ \A y \in Held : y.key # x.key
      BY <2>2
    <2> HIDE DEF kept, new
    <2>4. PinsInv'
      BY <1>1, <2>1, <2>2, <2>3, EntriesKeepPins DEF CacheInv
    <2> QED
      BY <1>1, <2>2, <2>4 DEF CacheInv
  <1> QED
    BY <1>2, <1>3

LEMMA FailKeepsCache ==
  ASSUME CacheInv, NEW c \in Callers, call[c].pc = "creating", Fail(c)
  PROVE  CacheInv'
  <1>1. /\ inflight' = [inflight EXCEPT ![call[c].key] = NoCall]
        /\ future' = Settled(c, "exception") /\ call' = Resumed(c, "raised")
        /\ entries' = entries /\ pinned' = pinned /\ strayed' = strayed
    BY DEF Fail
  <1>2. \A x \in Held' : x.key = call[c].key \/ \E y \in Held : y.key = x.key
    BY <1>1 DEF Held
  <1>3. CallsInv' /\ StillReturned
    BY <1>1, <1>2, SettlingKeepsCalls DEF CacheInv
  <1> QED
    BY <1>1, <1>3, CallsAlone

\* What was created goes in, and the room for it is made once more.
LEMMA ReturnKeepsCache ==
  ASSUME CacheInv, NEW c \in Callers, FactoryReturns(c)
  PROVE  CacheInv'
  <1>1. CASE ~CanPop
    BY <1>1, FailKeepsCache DEF FactoryReturns
  <1>2. CASE CanPop
    <2>1. PICK k : k = call[c].key
      OBVIOUS
    <2> DEFINE e == [key |-> k, value |-> c, refs |-> 0]
               kept == Range(Popped)
               new == {e}
    <2>2. /\ call[c].pc = "creating" /\ entries' = Append(Popped, e)
          /\ inflight' = [inflight EXCEPT ![call[c].key] = NoCall]
          /\ future' = Settled(c, "result") /\ call' = Resumed(c, "returned")
          /\ pinned' = pinned /\ strayed' = strayed
      BY <1>2, <2>1 DEF FactoryReturns
    <2>3. k \in Keys /\ inflight[k] = c /\ c # NoCall
      BY <2>1, <2>2, CacheAssumption DEF CacheInv, CallsInv, CreatorInv
    <2>4. \A y \in Held : y.key # k
      BY <2>3 DEF CacheInv, CallsInv, FlightInv
    <2>5. e \in CacheEntry /\ e.key = k /\ e.value = c /\ e.refs = 0
      BY <2>3 DEF CacheEntry
    <2> HIDE DEF e
    <2>6. /\ Popped \in Seq(CacheEntry) /\ OnceEach(Popped) /\ Len(Popped) < Capacity
          /\ kept \in SUBSET Held /\ \A x \in Held \ kept : x.refs = 0
      BY <1>2, RoomIsMade DEF CacheInv
    <2>7. EntriesInv' /\ \A x : x \in Held' <=> x \in kept \/ x \in new
      <3>1. /\ entries' \in Seq(CacheEntry) /\ OnceEach(entries')
            /\ Len(entries') = Len(Popped) + 1
            /\ \A x : x \in Range(entries') <=> x \in Range(Popped) \/ x = e
        BY <2>2, <2>4, <2>5, <2>6, OneMore
      <3>2. Len(Popped) + 1 <= Capacity
        <4>1. Len(Popped) \in Nat /\ Capacity \in Nat
          BY <2>6, LenProperties, CacheAssumption
        <4> HIDE DEF kept
        <4> QED
          BY <2>6, <4>1
      <3> QED
        BY <3>1, <3>2 DEF EntriesInv, Held
    <2> HIDE DEF kept
    <2>8. \A x \in Held' : x.key = call[c].key \/ \E y \in Held : y.key = x.key
      BY <2>1, <2>5, <2>6, <2>7
    <2>9. CallsInv' /\ StillReturned /\ call'[c].pc = "returned"
      BY <2>2, <2>8, SettlingKeepsCalls DEF CacheInv
    <2>10. /\ new \in SUBSET CacheEntry
           /\ \A x \in new : /\ x.refs = 0 /\ call[x.value].pc # "returned"
                             /\ call'[x.value].pc = "returned"
                             /\ \A y \in Held : y.key # x.key
      BY <2>2, <2>4, <2>5, <2>9
    <2> HIDE DEF new
    <2>11. PinsInv'
      BY <2>2, <2>6, <2>7, <2>9, <2>10, EntriesKeepPins DEF CacheInv
    <2> QED
      BY <2>7, <2>9, <2>11 DEF CacheInv
  <1> QED
    BY <1>1, <1>2

LEMMA CreatorCancelKeepsCache ==
  ASSUME CacheInv, NEW c \in Callers, CancelCreator(c)
  PROVE  CacheInv'
  <1> DEFINE x == [call[c] EXCEPT !.pc = "cancelled"]
  <1>1. /\ call[c].pc = "creating" /\ call' = [call EXCEPT ![c] = x]
        /\ entries' = entries /\ inflight' = inflight /\ future' = future
        /\ pinned' = pinned /\ strayed' = strayed
    BY DEF CancelCreator
  <1>2. call[c] \in CallState /\ future' \in [Callers -> Futures]
    BY <1>1 DEF CacheInv, CallsInv, CallsType
  <1>3. x \in CallState /\ x.pc = "cancelled"
    BY <1>2 DEF CallState, CallPCs
  <1>4. call[c].pc = "creating" => x = [call[c] EXCEPT !.pc = "cancelled"]
    OBVIOUS
  <1>5. NoNewKeys
    BY <1>1 DEF NoNewKeys, Held
  <1> HIDE DEF x
  <1>6. CallsInv' /\ StillReturned
    BY <1>1, <1>2, <1>3, <1>4, <1>5, CallEnds DEF CacheInv
  <1> QED
    BY <1>1, <1>6, CallsAlone

LEMMA CacheInvStep ==
  ASSUME CacheInv, [CacheNext]_cacheVars
  PROVE  CacheInv'
  <1>1. CASE UNCHANGED cacheVars
    <2>1. NoNewKeys
      BY <1>1 DEF cacheVars, NoNewKeys, Held
    <2> QED
      BY <1>1, <2>1, QuietCalls, CallsAlone DEF cacheVars, CacheInv
  <1>2. ASSUME NEW c \in Callers, NEW k \in Keys, Hit(c, k) \/ Join(c, k) \/ Create(c, k)
        PROVE  CacheInv'
    <2>1. CASE Join(c, k)
      BY <2>1, JoinKeepsCalls, CallsAlone DEF CacheInv, Join
    <2> QED
      BY <1>2, <2>1, HitKeepsCache, CreateKeepsCache
  <1>3. ASSUME NEW c \in Callers,
               FactoryReturns(c) \/ FactoryRaises(c) \/ CancelCreator(c) \/ CancelWaiter(c)
        PROVE  CacheInv'
    <2>1. CASE CancelWaiter(c)
      BY <2>1, CancelKeepsCalls, CallsAlone DEF CacheInv, CancelWaiter
    <2>2. CASE FactoryRaises(c)
      BY <2>2, FailKeepsCache DEF FactoryRaises
    <2> QED
      BY <1>3, <2>1, <2>2, ReturnKeepsCache, CreatorCancelKeepsCache
  <1>4. ASSUME EntriesInv', NoNewKeys, PinsInv', UNCHANGED <<inflight, call, future>>
        PROVE  CacheInv'
    BY <1>4, QuietCalls DEF CacheInv
  <1>5. ASSUME NEW u \in Users, NEW k \in Keys, Pin(u, k)
        PROVE  CacheInv'
    BY <1>4, <1>5, PinKeepsPins DEF CacheInv, Pin
  <1>6. ASSUME NEW u \in Users, Unpin(u)
        PROVE  CacheInv'
    BY <1>4, <1>6, UnpinKeepsPins DEF CacheInv, Unpin
  <1>7. CASE Clear
    BY <1>4, <1>7, ClearKeepsPins DEF CacheInv, Clear
  <1> QED
    BY <1>1, <1>2, <1>3, <1>5, <1>6, <1>7 DEF CacheNext

LEMMA CacheInvHolds == CacheSpec => []CacheInv
  <1>1. CacheInv /\ [CacheNext]_cacheVars => CacheInv'
    BY CacheInvStep
  <1> QED
    BY CacheInvInit, <1>1, PTL DEF CacheSpec

\* The cache never holds more than its capacity, nor a key twice, and no entry
\* counts more references than there are users.
THEOREM CacheTypeCorrect == CacheSpec => []CacheTypeOK
  <1>1. ASSUME CacheInv
        PROVE  CacheTypeOK
    <2> DEFINE Bounded == [key : Keys, value : Callers, refs : 0 .. Cardinality(Users)]
    <2>1. ASSUME NEW x \in Held
          PROVE  x \in Bounded
      <3>1. x \in CacheEntry /\ x.refs \in Nat /\ x.refs <= Cardinality(PinHolders(x.key))
        BY <1>1, HeldEntries DEF CacheInv, PinsInv, RefsInv, CacheEntry
      <3>2. Cardinality(Users) \in Nat
        BY CacheAssumption, FS_CardinalityType
      <3>3. x.refs \in 0 .. Cardinality(Users)
        BY <3>1, <3>2, CountedUsers
      <3> QED
        BY <3>1, <3>3 DEF CacheEntry
    <2> HIDE DEF Bounded
    <2>2. entries \in Seq(Bounded)
      <3>1. \A i \in 1 .. Len(entries) : entries[i] \in Bounded
        BY <1>1, <2>1, LenProperties DEF CacheInv, EntriesInv, Held, Range
      <3>2. entries \in [1 .. Len(entries) -> Bounded] /\ Len(entries) \in Nat
        BY <1>1, <3>1, LenProperties DEF CacheInv, EntriesInv
      <3> QED
        BY <3>2, SeqDef
    <2> QED
      BY <1>1, <2>2 DEF CacheInv, EntriesInv, OnceEach, CallsInv, CallsType, CallState, Futures,
                        PinsInv, PinsType, PinRecord, CacheTypeOK, Bounded
  <1> QED
    BY CacheInvHolds, <1>1, PTL

\* While a request holds a pin its value stays in the cache, unless a clear or
\* a foreign unpin takes it.
THEOREM PinsKeepEntries == CacheSpec => []PinnedEntriesStay
  <1>1. ASSUME CacheInv
        PROVE  PinnedEntriesStay
    <2> SUFFICES ASSUME NEW u \in Users, pinned[u] # NoPin, ~pinned[u].cleared,
                        pinned[u].key \notin strayed
                 PROVE  \E i \in DOMAIN entries :
                          /\ entries[i].key = pinned[u].key
                          /\ entries[i].value = pinned[u].value
                          /\ entries[i].refs > 0
      BY DEF PinnedEntriesStay
    <2>1. PICK x \in Held : x.key = pinned[u].key /\ x.value = pinned[u].value
      BY <1>1 DEF CacheInv, PinsInv, PinOk
    <2>2. x.refs = Cardinality(Claims(x.key)) /\ u \in Claims(x.key)
      BY <1>1, <2>1 DEF CacheInv, PinsInv, RefsInv, Claims
    <2>3. x.refs > 0
      BY <2>2, CountedUsers
    <2> QED
      BY <2>1, <2>3 DEF Held, Range
  <1> QED
    BY CacheInvHolds, <1>1, PTL

\* Who waits for a value waits for a creator that is at work, or was cancelled.
THEOREM WaitersAreServed == CacheSpec => []WaitersHaveACreator
  <1>1. CacheInv => WaitersHaveACreator
    BY DEF CacheInv, CallsInv, WaiterInv, WaitersHaveACreator
  <1> QED
    BY CacheInvHolds, <1>1, PTL

(***************************************************************************)
(* TenantConfig: what a bounded dictionary does                            *)
(***************************************************************************)

LEMMA HasInRange ==
  ASSUME NEW cache, NEW k
  PROVE  Has(cache, k) <=> \E x \in Range(cache) : x.key = k
  BY DEF Has, Range

\* A key that is popped is gone, and no other comes.
LEMMA PopOne ==
  ASSUME NEW E, NEW cache \in Seq(E), OnceEach(cache), NEW k
  PROVE  /\ Pop(cache, k) \in Seq(E) /\ OnceEach(Pop(cache, k))
         /\ Len(Pop(cache, k)) <= Len(cache)
         /\ ~Has(Pop(cache, k), k)
         /\ \A j : Has(Pop(cache, k), j) => Has(cache, j)
  <1>1. CASE ~Has(cache, k)
    BY <1>1, LenProperties DEF Pop
  <1>2. CASE Has(cache, k)
    <2>1. PICK i : i = CHOOSE j \in DOMAIN cache : cache[j].key = k
      OBVIOUS
    <2>2. i \in DOMAIN cache /\ cache[i].key = k /\ Pop(cache, k) = RemoveAt(cache, i)
      BY <1>2, <2>1 DEF Has, Pop
    <2>3. /\ Pop(cache, k) \in Seq(E) /\ OnceEach(Pop(cache, k))
          /\ Len(Pop(cache, k)) = Len(cache) - 1
          /\ \A x : x \in Range(Pop(cache, k)) <=> x \in Range(cache) /\ x # cache[i]
      BY <2>2, OneLess
    <2>4. \A x \in Range(cache) : x.key = k => x = cache[i]
      BY <2>2 DEF Range, OnceEach
    <2>5. Len(Pop(cache, k)) <= Len(cache)
      BY <2>3, LenProperties
    <2> QED
      BY <2>3, <2>4, <2>5, HasInRange
  <1> QED
    BY <1>1, <1>2

LEMMA TailOfCache ==
  ASSUME NEW E, NEW s \in Seq(E), OnceEach(s), Len(s) # 0
  PROVE  /\ Tail(s) \in Seq(E) /\ OnceEach(Tail(s)) /\ Len(Tail(s)) = Len(s) - 1
         /\ Range(Tail(s)) \subseteq Range(s)
  <1> DEFINE n == Len(s)
             r == Tail(s)
  <1>1. /\ n \in Nat /\ n # 0 /\ r \in Seq(E) /\ Len(r) = n - 1
        /\ \A i \in 1 .. n - 1 : r[i] = s[i + 1]
    OBVIOUS
  <1>2. DOMAIN s = 1 .. n /\ DOMAIN r = 1 .. n - 1
    BY <1>1, LenProperties
  <1>3. \A i \in 1 .. n - 1 : i + 1 \in 1 .. n
    BY <1>1
  <1> HIDE DEF n, r
  <1>4. OnceEach(r)
    <2> SUFFICES ASSUME NEW i \in 1 .. n - 1, NEW j \in 1 .. n - 1, r[i].key = r[j].key
                 PROVE  i = j
      BY <1>2 DEF OnceEach
    <2>1. PICK a \in DOMAIN s, b \in DOMAIN s : /\ a = i + 1 /\ r[i] = s[a]
                                              /\ b = j + 1 /\ r[j] = s[b]
      BY <1>1, <1>2, <1>3
    <2>2. a = b
      BY <2>1 DEF OnceEach
    <2> QED
      BY <1>1, <2>1, <2>2
  <1>5. Range(r) \subseteq Range(s)
    BY <1>1, <1>2, <1>3 DEF Range
  <1> QED
    BY <1>1, <1>4, <1>5 DEF n, r

\* What is put in is there, nothing else comes, and the limit is kept.
LEMMA PutOne ==
  ASSUME NEW E, NEW cache \in Seq(E), OnceEach(cache), NEW k, NEW d,
         [key |-> k, data |-> d] \in E, NEW limit \in Nat \ {0}, Len(cache) <= limit
  PROVE  /\ Put(cache, k, d, limit) \in Seq(E) /\ OnceEach(Put(cache, k, d, limit))
         /\ Len(Put(cache, k, d, limit)) <= limit
         /\ Has(Put(cache, k, d, limit), k) /\ Get(Put(cache, k, d, limit), k) = d
         /\ \A j : Has(Put(cache, k, d, limit), j) => j = k \/ Has(cache, j)
  <1>1. PICK e : e = [key |-> k, data |-> d]
    OBVIOUS
  <1>2. e \in E /\ e.key = k /\ e.data = d
    BY <1>1
  <1>3. PICK r : r = Put(cache, k, d, limit)
    OBVIOUS
  <1>4. /\ r \in Seq(E) /\ OnceEach(r) /\ Len(r) <= limit
        /\ \A j : Has(r, j) => j = k \/ Has(cache, j)
        /\ \E i \in DOMAIN r : r[i] = e
    <2>1. CASE Has(cache, k)
      <3> DEFINE n == Len(cache)
      <3>1. n \in Nat /\ DOMAIN cache = 1 .. n /\ \A i \in 1 .. n : cache[i] \in E
        BY LenProperties
      <3>2. r = [i \in 1 .. n |-> IF cache[i].key = k THEN e ELSE cache[i]]
        BY <1>1, <1>3, <2>1, <3>1 DEF Put
      <3>3. DOMAIN r = 1 .. n /\ r \in [1 .. n -> E] /\ \A i \in 1 .. n : r[i].key = cache[i].key
        BY <1>2, <3>1, <3>2
      <3> HIDE DEF n
      <3>4. r \in Seq(E) /\ Len(r) = n
        BY <3>1, <3>3, SeqDef, LenProperties
      <3>5. OnceEach(r)
        BY <3>1, <3>3 DEF OnceEach
      <3>6. \A j : Has(r, j) => Has(cache, j)
        BY <3>1, <3>3 DEF Has
      <3>7. \E i \in DOMAIN r : r[i] = e
        BY <2>1, <3>1, <3>2, <3>3 DEF Has
      <3> QED
        BY <3>4, <3>5, <3>6, <3>7 DEF n
    <2>2. CASE ~Has(cache, k)
      <3> DEFINE rest == IF Len(cache) >= limit THEN Tail(cache) ELSE cache
      <3>1. r = Append(rest, e)
        BY <1>1, <1>3, <2>2 DEF Put
      <3>2. /\ rest \in Seq(E) /\ OnceEach(rest) /\ Len(rest) + 1 <= limit
            /\ Range(rest) \subseteq Range(cache)
        <4>1. Len(cache) \in Nat /\ limit \in Nat /\ limit # 0
          BY LenProperties
        <4>2. CASE Len(cache) >= limit
          <5>1. Len(cache) # 0
            BY <4>1, <4>2
          <5>2. /\ Tail(cache) \in Seq(E) /\ OnceEach(Tail(cache))
                /\ Len(Tail(cache)) = Len(cache) - 1 /\ Range(Tail(cache)) \subseteq Range(cache)
            BY <5>1, TailOfCache
          <5>3. Len(Tail(cache)) + 1 <= limit
            BY <4>1, <5>2
          <5> QED
            BY <4>2, <5>2, <5>3
        <4>3. CASE ~(Len(cache) >= limit)
          BY <4>1, <4>3
        <4> QED
          BY <4>2, <4>3
      <3> HIDE DEF rest
      <3>3. \A x \in Range(rest) : x.key # e.key
        BY <1>2, <2>2, <3>2, HasInRange
      <3>4. /\ r \in Seq(E) /\ OnceEach(r) /\ Len(r) = Len(rest) + 1
            /\ \A x : x \in Range(r) <=> x \in Range(rest) \/ x = e
        BY <1>2, <3>1, <3>2, <3>3, OneMore
      <3>5. \A j : Has(r, j) => j = k \/ Has(cache, j)
        BY <1>2, <3>2, <3>4, HasInRange
      <3>6. \E i \in DOMAIN r : r[i] = e
        BY <3>4 DEF Range
      <3> QED
        BY <3>2, <3>4, <3>5, <3>6
    <2> QED
      BY <2>1, <2>2
  <1>5. Has(r, k)
    BY <1>2, <1>4 DEF Has
  <1>6. Get(r, k) = d
    <2>1. \A i \in DOMAIN r : r[i].key = k => r[i] = e
      BY <1>2, <1>4 DEF OnceEach
    <2> QED
      BY <1>2, <1>5, <2>1 DEF Has, Get
  <1> QED
    BY <1>3, <1>4, <1>5, <1>6

(***************************************************************************)
(* TenantConfig: rows, requests and what was published                     *)
(***************************************************************************)

VersionRow == [version : Nat \ {0}, data : Data]
OverlayRow == [tenant : TenantIds, kb : KbIds \cup {None}, data : Data, by : Ops]
Publishing == { "publish", "set_prompt" }
Locking == { "locked", "read" }
Request ==
  [pc : { "idle", "begun", "locked", "read", "committed", "done", "failed", "selected", "loaded" },
   kind : Kinds, proc : Procs, tenant : TenantIds \cup {None}, kb : KbIds \cup {None},
   field : Fields \cup {None}, rows : SUBSET (VersionRow \cup OverlayRow),
   expected : Data, result : Data]

TablesType ==
  /\ versions \in [TenantIds -> SUBSET VersionRow]
  /\ overlays \in SUBSET OverlayRow
  /\ op \in [Ops -> Request]
  /\ truth \in [{"config"} \X TenantIds \cup {"prompt"} \X Scopes -> Data \cup {None}]

HasNewest(rows) == \E r \in rows : \A s \in rows : s.version <= r.version

\* What was published of a tenant's configuration is its newest version.
VersionsInv ==
  \A t \in TenantIds :
    /\ \A r, s \in versions[t] : r.version = s.version => r = s
    /\ \/ versions[t] = {} /\ truth[<<"config", t>>] = None
       \/ HasNewest(versions[t]) /\ truth[<<"config", t>>] = Latest(versions[t]).data

\* A scope has one overlay at most, and that is what was published of it.
OverlaysInv ==
  /\ \A r, s \in overlays : (r.tenant = s.tenant /\ r.kb = s.kb) \/ r.by = s.by => r = s
  /\ \A r \in overlays : /\ truth[<<"prompt", <<r.tenant, r.kb>>>>] = r.data
                         /\ op[r.by].pc \in { "committed", "done" }
  /\ \A s \in Scopes : (\A r \in overlays : <<r.tenant, r.kb>> # s) => truth[<<"prompt", s>>] = None

\* The advisory lock of a scope has one holder.
LocksInv ==
  \A o, q \in Ops :
    (op[o].pc \in Locking /\ op[q].pc \in Locking /\ ScopeOf(o) = ScopeOf(q)) => o = q

\* What a request knows of its rows: a publication that has read has the rows
\* there are, a load what was published when it selected.
RequestOk(o) ==
  LET q == op[o] IN
  /\ q.pc \in Locking \cup { "begun", "committed", "selected" } =>
       q.tenant \in TenantIds /\ (q.kind \in Publishing => q.field \in Fields)
  /\ q.pc \in Locking \cup { "committed" } => q.kind \in Publishing
  /\ q.pc = "selected" => q.kind \notin Publishing
  /\ q.kind \in { "publish", "load" } => q.rows \subseteq VersionRow
  /\ q.kind \in { "set_prompt", "load_prompt" } => q.rows \subseteq OverlayRow
  /\ q.pc = "read" => q.rows = RowsFor(o)
  /\ (q.pc = "committed" /\ q.kind = "publish") => HasNewest(q.rows)
  /\ (q.pc = "selected" /\ q.kind = "load") =>
       \/ q.rows = {} /\ q.expected = Defaults
       \/ HasNewest(q.rows) /\ q.expected = Latest(q.rows).data
  /\ (q.pc = "selected" /\ q.kind = "load_prompt") =>
       /\ \A r \in q.rows : r.kb \in { q.kb, None } /\ (r.kb = q.kb => q.expected = r.data)
       /\ (\A r \in q.rows : r.kb # q.kb) => \A r \in q.rows : q.expected = r.data
       /\ q.rows = {} => q.expected = Defaults
  /\ q.pc = "loaded" => q.result = q.expected

RequestsInv == \A o \in Ops : RequestOk(o)

TablesInv == TablesType /\ VersionsInv /\ OverlaysInv /\ LocksInv /\ RequestsInv

LEMMA LatestRow ==
  ASSUME NEW rows, HasNewest(rows)
  PROVE  Latest(rows) \in rows /\ \A s \in rows : s.version <= Latest(rows).version
  BY DEF HasNewest, Latest

LEMMA NewRowIsLatest ==
  ASSUME NEW rows \in SUBSET VersionRow, NEW r \in VersionRow,
         \A s \in rows : s.version < r.version
  PROVE  HasNewest(rows \cup {r}) /\ Latest(rows \cup {r}) = r
  <1>1. \A s \in rows \cup {r} : s.version \in Nat
    BY DEF VersionRow
  <1>2. \A s \in rows \cup {r} : s.version <= r.version
    BY <1>1
  <1>3. HasNewest(rows \cup {r})
    BY <1>2 DEF HasNewest
  <1>4. \A s \in rows : ~(r.version <= s.version)
    BY <1>1
  <1> QED
    BY <1>3, <1>4, LatestRow

LEMMA DefaultsAreData == Defaults \in Data /\ None \notin Data
  BY SettingsAssumption DEF Defaults, Data

LEMMA TablesInvInit == SettingsInit => TablesInv
  <1> SUFFICES ASSUME SettingsInit
               PROVE  TablesInv
    OBVIOUS
  <1>1. NotStarted \in Request
    BY DefaultsAreData, SettingsAssumption DEF NotStarted, Request, Kinds
  <1>2. /\ NotStarted.pc = "idle" /\ NotStarted.kind = "load" /\ NotStarted.rows = {}
    BY DEF NotStarted
  <1>3. \A o \in Ops : op[o] = NotStarted
    BY DEF SettingsInit
  <1>4. TablesType
    BY <1>1 DEF SettingsInit, TablesType
  <1>5. VersionsInv /\ OverlaysInv
    BY DEF SettingsInit, VersionsInv, OverlaysInv
  <1>6. LocksInv /\ RequestsInv
    BY <1>2, <1>3 DEF LocksInv, Locking, RequestsInv, RequestOk, Publishing
  <1> QED
    BY <1>4, <1>5, <1>6 DEF TablesInv

\* A step of one request that leaves the tables alone.
LEMMA RequestMoves ==
  ASSUME TablesInv, NEW o \in Ops, NEW x \in Request, op' = [op EXCEPT ![o] = x],
         UNCHANGED <<versions, overlays, truth>>, RequestOk(o)',
         op[o].pc \in { "committed", "done" } => x.pc \in { "committed", "done" },
         x.pc \in Locking => /\ ScopeOf(o)' = ScopeOf(o)
                             /\ op[o].pc \in Locking \/ Holders(o) = {}
  PROVE  TablesInv'
  <1>1. /\ op'[o] = x /\ op' \in [Ops -> Request]
        /\ \A q \in Ops \ {o} : op'[q] = op[q] /\ ScopeOf(q)' = ScopeOf(q)
                                /\ RowsFor(q)' = RowsFor(q)
    BY DEF TablesInv, TablesType, ScopeOf, RowsFor
  <1>2. TablesType' /\ VersionsInv'
    BY <1>1 DEF TablesInv, TablesType, VersionsInv
  <1>3. OverlaysInv'
    <2>1. \A r \in overlays : r.by \in Ops
      BY DEF TablesInv, TablesType, OverlayRow
    <2> QED
      BY <1>1, <2>1 DEF TablesInv, OverlaysInv
  <1>4. LocksInv'
    <2>1. ASSUME NEW q \in Ops \ {o}, op[q].pc \in Locking, x.pc \in Locking,
                 ScopeOf(q) = ScopeOf(o)
          PROVE  FALSE
      BY <2>1 DEF TablesInv, LocksInv, Holders, Locking
    <2> QED
      BY <1>1, <2>1 DEF TablesInv, LocksInv
  <1>5. RequestsInv'
    BY <1>1 DEF TablesInv, RequestsInv, RequestOk
  <1> QED
    BY <1>2, <1>3, <1>4, <1>5 DEF TablesInv

\* A request that is over keeps nothing but its answer.
LEMMA RequestEnds ==
  ASSUME TablesInv, NEW o \in Ops, NEW pc \in { "done", "failed", "loaded" }, NEW result \in Data,
         op' = Finished(o, pc, result), UNCHANGED <<versions, overlays, truth>>,
         pc = "loaded" => result = op[o].expected,
         op[o].pc = "committed" => pc = "done", op[o].pc # "done"
  PROVE  TablesInv'
  <1> DEFINE x == [NotStarted EXCEPT !.pc = pc, !.result = result,
                     !.expected = IF pc = "loaded" THEN op[o].expected ELSE Defaults]
  <1>1. op[o] \in Request /\ op[o].expected \in Data
    BY DEF TablesInv, TablesType, Request
  <1>2. /\ x \in Request /\ x.pc = pc /\ x.kind = "load" /\ x.rows = {}
        /\ x.result = result /\ (pc = "loaded" => x.expected = op[o].expected)
    BY <1>1, DefaultsAreData, SettingsAssumption DEF NotStarted, Request, Kinds
  <1>3. op' = [op EXCEPT ![o] = x]
    BY DEF Finished
  <1> HIDE DEF x
  <1>4. op'[o] = x
    BY <1>3 DEF TablesInv, TablesType
  <1>5. RequestOk(o)'
    BY <1>2, <1>4 DEF RequestOk, Locking, Publishing
  <1> QED
    BY <1>2, <1>3, <1>5, RequestMoves DEF Locking

LEMMA StartKeepsTables ==
  ASSUME TablesInv, NEW o \in Ops, NEW kind \in Kinds, NEW p \in Procs, NEW t \in TenantIds,
         NEW kbid \in KbIds \cup {None}, NEW f \in Fields \cup {None}, Start(o, kind, p, t, kbid, f)
  PROVE  TablesInv'
  <1> DEFINE x == [NotStarted EXCEPT !.pc = "begun", !.kind = kind, !.proc = p,
                                     !.tenant = t, !.kb = kbid, !.field = f]
  <1>1. /\ op[o].pc = "idle" /\ (kind \in { "load", "load_prompt" } <=> f = None)
        /\ op' = [op EXCEPT ![o] = x] /\ UNCHANGED <<versions, overlays, truth>>
    BY DEF Start
  <1>2. /\ x \in Request /\ x.pc = "begun" /\ x.kind = kind
        /\ x.tenant = t /\ x.field = f /\ x.rows = {}
    BY DefaultsAreData DEF NotStarted, Request
  <1> HIDE DEF x
  <1>3. op'[o] = x
    BY <1>1 DEF TablesInv, TablesType
  <1>4. kind \in Publishing => f \in Fields
    BY <1>1 DEF Publishing
  <1>5. RequestOk(o)'
    BY <1>2, <1>3, <1>4 DEF RequestOk, Locking
  <1> QED
    BY <1>1, <1>2, <1>5, RequestMoves DEF Locking

LEMMA LockKeepsTables ==
  ASSUME TablesInv, NEW o \in Ops, Lock(o)
  PROVE  TablesInv'
  <1> DEFINE x == [op[o] EXCEPT !.pc = "locked"]
  <1>1. /\ op[o].pc = "begun" /\ op[o].kind \in Publishing /\ Holders(o) = {}
        /\ op' = [op EXCEPT ![o] = x] /\ UNCHANGED <<versions, overlays, truth>>
    BY DEF Lock, Publishing
  <1>2. op[o] \in Request /\ RequestOk(o)
    BY DEF TablesInv, TablesType, RequestsInv
  <1>3. /\ x \in Request /\ x.pc = "locked" /\ x.kind = op[o].kind /\ x.tenant = op[o].tenant
        /\ x.kb = op[o].kb /\ x.field = op[o].field /\ x.rows = op[o].rows
    BY <1>2 DEF Request
  <1> HIDE DEF x
  <1>4. op'[o] = x
    BY <1>1 DEF TablesInv, TablesType
  <1>5. RequestOk(o)'
    BY <1>1, <1>2, <1>3, <1>4 DEF RequestOk, Locking
  <1>6. ScopeOf(o)' = ScopeOf(o)
    BY <1>3, <1>4 DEF ScopeOf
  <1> QED
    BY <1>1, <1>3, <1>5, <1>6, RequestMoves

LEMMA ReadKeepsTables ==
  ASSUME TablesInv, NEW o \in Ops, ReadRow(o)
  PROVE  TablesInv'
  <1>1. CASE op[o].kind = "set_prompt" /\ Cardinality(RowsFor(o)) > 1
    BY <1>1, RequestEnds, DefaultsAreData DEF ReadRow
  <1>2. CASE ~(op[o].kind = "set_prompt" /\ Cardinality(RowsFor(o)) > 1)
    <2>1. PICK rows : rows = RowsFor(o)
      OBVIOUS
    <2> DEFINE x == [op[o] EXCEPT !.pc = "read", !.rows = rows]
    <2>2. op[o] \in Request /\ RequestOk(o) /\ op[o].pc = "locked"
      BY DEF TablesInv, TablesType, RequestsInv, ReadRow
    <2>3. op' = [op EXCEPT ![o] = x] /\ UNCHANGED <<versions, overlays, truth>>
      BY <1>2, <2>1, <2>2 DEF ReadRow, TablesInv, TablesType
    <2>4. /\ op[o].kind = "publish" => rows \subseteq VersionRow
          /\ op[o].kind # "publish" => rows \subseteq OverlayRow
      BY <2>1, <2>2 DEF RowsFor, TablesInv, TablesType, RequestOk, Locking
    <2>5. /\ x \in Request /\ x.pc = "read" /\ x.kind = op[o].kind /\ x.tenant = op[o].tenant
          /\ x.kb = op[o].kb /\ x.field = op[o].field /\ x.rows = rows
      BY <2>2, <2>4 DEF Request
    <2> HIDE DEF x
    <2>6. op'[o] = x
      BY <2>3 DEF TablesInv, TablesType
    <2>7. ScopeOf(o)' = ScopeOf(o) /\ RowsFor(o)' = RowsFor(o)
      <3>1. ScopeOf(o)' = ScopeOf(o)
        BY <2>5, <2>6 DEF ScopeOf
      <3>2. RowsFor(o)' = RowsFor(o)
        <4>1. /\ op'[o].kind = op[o].kind /\ op'[o].tenant = op[o].tenant /\ op'[o].kb = op[o].kb
              /\ versions' = versions /\ overlays' = overlays
          BY <2>3, <2>5, <2>6
        <4> QED
          BY <4>1 DEF RowsFor
      <3> QED
        BY <3>1, <3>2
    <2>8. RequestOk(o)'
      BY <2>1, <2>2, <2>4, <2>5, <2>6, <2>7 DEF RequestOk, Locking, Publishing
    <2> QED
      BY <2>2, <2>3, <2>5, <2>7, <2>8, RequestMoves DEF Locking
  <1> QED
    BY <1>1, <1>2

LEMMA SelectKeepsTables ==
  ASSUME TablesInv, NEW o \in Ops, Select(o)
  PROVE  TablesInv'
  <1>1. /\ op[o] \in Request /\ RequestOk(o)
        /\ op[o].tenant \in TenantIds /\ op[o].kb \in KbIds \cup {None}
    BY DEF TablesInv, TablesType, RequestsInv, RequestOk, Select, Request
  <1>2. PICK t \in TenantIds, kbid \in KbIds \cup {None} : t = op[o].tenant /\ kbid = op[o].kb
    BY <1>1
  <1>3. PICK rows : rows = IF op[o].kind = "load" THEN versions[t]
                           ELSE {r \in overlays : r.tenant = t /\ r.kb \in {kbid, None}}
    OBVIOUS
  <1>4. PICK expected : expected = ExpectedNow(o)
    OBVIOUS
  <1>5. /\ op[o].kind \in { "load", "load_prompt" } /\ op[o].pc = "begun"
        /\ op[o].kind = "load" =>
             rows = versions[t] /\ expected = OrDefaults(truth[<<"config", t>>])
        /\ op[o].kind = "load_prompt" =>
             /\ rows = {r \in overlays : r.tenant = t /\ r.kb \in {kbid, None}}
             /\ expected = IF truth[<<"prompt", <<t, kbid>>>>] # None
                           THEN truth[<<"prompt", <<t, kbid>>>>]
                           ELSE OrDefaults(truth[<<"prompt", <<t, None>>>>])
    BY <1>2, <1>3, <1>4 DEF Select, ExpectedNow, ScopeOf
  <1>6. /\ truth[<<"config", t>>] \in Data \cup {None}
        /\ truth[<<"prompt", <<t, kbid>>>>] \in Data \cup {None}
        /\ truth[<<"prompt", <<t, None>>>>] \in Data \cup {None}
    BY DEF TablesInv, TablesType, Scopes
  <1>7. expected \in Data
    BY <1>5, <1>6, DefaultsAreData DEF OrDefaults
  <1>8. /\ op[o].kind = "load" => rows \subseteq VersionRow
        /\ op[o].kind = "load_prompt" => rows \subseteq OverlayRow
    BY <1>5 DEF TablesInv, TablesType
  <1>9. op[o].kind = "load" => \/ rows = {} /\ expected = Defaults
                               \/ HasNewest(rows) /\ expected = Latest(rows).data
    <2> SUFFICES ASSUME op[o].kind = "load"
                 PROVE  \/ rows = {} /\ expected = Defaults
                        \/ HasNewest(rows) /\ expected = Latest(rows).data
      OBVIOUS
    <2>1. CASE versions[t] = {} /\ truth[<<"config", t>>] = None
      BY <1>5, <2>1 DEF OrDefaults
    <2>2. CASE HasNewest(versions[t]) /\ truth[<<"config", t>>] = Latest(versions[t]).data
      <3>1. Latest(versions[t]) \in VersionRow
        BY <2>2, LatestRow DEF TablesInv, TablesType
      <3>2. truth[<<"config", t>>] # None
        BY <2>2, <3>1, DefaultsAreData DEF VersionRow
      <3> QED
        BY <1>5, <2>2, <3>2 DEF OrDefaults
    <2> QED
      BY <2>1, <2>2 DEF TablesInv, VersionsInv
  <1>10. op[o].kind = "load_prompt" =>
           /\ \A r \in rows : r.kb \in {kbid, None} /\ (r.kb = kbid => expected = r.data)
           /\ (\A r \in rows : r.kb # kbid) => \A r \in rows : expected = r.data
           /\ rows = {} => expected = Defaults
    <2> SUFFICES ASSUME op[o].kind = "load_prompt"
                 PROVE  /\ \A r \in rows : /\ r.kb \in {kbid, None}
                                          /\ (r.kb = kbid => expected = r.data)
                        /\ (\A r \in rows : r.kb # kbid) => \A r \in rows : expected = r.data
                        /\ rows = {} => expected = Defaults
      OBVIOUS
    <2>1. \A r \in rows : /\ r \in overlays /\ r.tenant = t /\ r.kb \in {kbid, None}
                          /\ truth[<<"prompt", <<t, r.kb>>>>] = r.data /\ r.data # None
      <3>1. ASSUME NEW r \in rows
            PROVE  r \in overlays /\ r.tenant = t /\ r.kb \in {kbid, None} /\ r.data \in Data
        BY <1>5, <3>1 DEF TablesInv, TablesType, OverlayRow
      <3>2. \A r \in overlays : truth[<<"prompt", <<r.tenant, r.kb>>>>] = r.data
        BY DEF TablesInv, OverlaysInv
      <3> QED
        BY <3>1, <3>2, DefaultsAreData
    <2>2. \A k \in {kbid, None} : (\A r \in rows : r.kb # k) => truth[<<"prompt", <<t, k>>>>] = None
      <3> SUFFICES ASSUME NEW k \in {kbid, None}, \A r \in rows : r.kb # k
                   PROVE  truth[<<"prompt", <<t, k>>>>] = None
        OBVIOUS
      <3>1. <<t, k>> \in Scopes
        BY DEF Scopes
      <3>2. \A r \in overlays : <<r.tenant, r.kb>> # <<t, k>>
        BY <1>5
      <3> QED
        BY <3>1, <3>2 DEF TablesInv, OverlaysInv
    <2>3. \A r \in rows : r.kb = kbid => expected = r.data
      BY <1>5, <2>1
    <2>4. (\A r \in rows : r.kb # kbid) => \A r \in rows : expected = r.data
      BY <1>5, <2>1, <2>2 DEF OrDefaults
    <2>5. rows = {} => expected = Defaults
      BY <1>5, <2>2 DEF OrDefaults
    <2> QED
      BY <2>1, <2>3, <2>4, <2>5
  <1> DEFINE x == [op[o] EXCEPT !.pc = "selected", !.expected = expected, !.rows = rows]
  <1>11. op' = [op EXCEPT ![o] = x] /\ UNCHANGED <<versions, overlays, truth>>
    BY <1>1, <1>2, <1>3, <1>4 DEF Select, TablesInv, TablesType
  <1>12. /\ x \in Request /\ x.pc = "selected" /\ x.kind = op[o].kind /\ x.tenant = t
         /\ x.kb = kbid /\ x.rows = rows /\ x.expected = expected
    BY <1>1, <1>2, <1>5, <1>7, <1>8 DEF Request
  <1> HIDE DEF x
  <1>13. op'[o] = x
    BY <1>11 DEF TablesInv, TablesType
  <1>14. RequestOk(o)'
    <2>1. op'[o].kind \notin Publishing /\ op'[o].tenant \in TenantIds
      BY <1>5, <1>12, <1>13 DEF Publishing
    <2> QED
      BY <1>5, <1>8, <1>9, <1>10, <1>12, <1>13, <2>1 DEF RequestOk, Locking
  <1> QED
    BY <1>5, <1>11, <1>12, <1>14, RequestMoves DEF Locking

\* What a publication of a configuration adds is newer than all there is.
LEMMA NewVersionIsNewer ==
  ASSUME TablesInv, NEW o \in Ops, op[o].pc = "read", op[o].kind = "publish"
  PROVE  /\ op[o].tenant \in TenantIds /\ op[o].field \in Fields
         /\ op[o].rows = versions[op[o].tenant]
         /\ NewVersion(o) \in VersionRow
         /\ \A r \in op[o].rows : r.version < NewVersion(o).version
         /\ NewVersion(o).data =
              [IF truth[<<"config", op[o].tenant>>] = None THEN Defaults
               ELSE truth[<<"config", op[o].tenant>>] EXCEPT ![op[o].field] = o]
  <1>1. op[o] \in Request /\ RequestOk(o)
    BY DEF TablesInv, TablesType, RequestsInv
  <1>2. op[o].tenant \in TenantIds /\ op[o].field \in Fields /\ op[o].rows = versions[op[o].tenant]
    BY <1>1 DEF RequestOk, Locking, Publishing, RowsFor
  <1>3. PICK t \in TenantIds, f \in Fields, rows \in SUBSET VersionRow :
          t = op[o].tenant /\ f = op[o].field /\ rows = op[o].rows /\ rows = versions[t]
    BY <1>2 DEF TablesInv, TablesType
  <1> DEFINE base == IF rows = {} THEN [version |-> 0, data |-> Defaults] ELSE Latest(rows)
  <1>4. base.version \in Nat /\ base.data \in Data /\ (\A r \in rows : r.version <= base.version)
        /\ base.data = IF truth[<<"config", t>>] = None THEN Defaults ELSE truth[<<"config", t>>]
    <2>1. CASE rows = {} /\ truth[<<"config", t>>] = None
      BY <2>1, DefaultsAreData
    <2>2. CASE HasNewest(rows) /\ truth[<<"config", t>>] = Latest(rows).data
      <3>1. Latest(rows) \in VersionRow /\ (\A s \in rows : s.version <= Latest(rows).version)
        BY <2>2, LatestRow
      <3>2. rows # {} /\ Latest(rows).data # None
        BY <2>2, <3>1, DefaultsAreData DEF HasNewest, VersionRow
      <3> QED
        BY <2>2, <3>1, <3>2 DEF VersionRow
    <2> QED
      BY <1>3, <2>1, <2>2 DEF TablesInv, VersionsInv
  <1>5. NewVersion(o) = [version |-> base.version + 1, data |-> [base.data EXCEPT ![f] = o]]
    BY <1>3 DEF NewVersion
  <1> HIDE DEF base
  <1>6. [base.data EXCEPT ![f] = o] \in Data
    BY <1>4 DEF Data
  <1>7. NewVersion(o) \in VersionRow /\ (\A r \in rows : r.version < NewVersion(o).version)
    BY <1>4, <1>5, <1>6 DEF VersionRow
  <1>8. NewVersion(o).data = [base.data EXCEPT ![f] = o]
    BY <1>5
  <1> QED
    BY <1>2, <1>3, <1>4, <1>7, <1>8

\* The lock of its scope keeps the rows a publication has read as they are.
LEMMA OthersReadElsewhere ==
  ASSUME TablesInv, NEW o \in Ops, NEW q \in Ops \ {o}, op[o].pc = "read", op[q].pc = "read"
  PROVE  /\ ScopeOf(q) # ScopeOf(o)
         /\ op[o].kind = "publish" /\ op[q].kind = "publish" => op[q].tenant # op[o].tenant
         /\ op[o].kind # "publish" /\ op[q].kind # "publish" =>
              <<op[q].tenant, op[q].kb>> # <<op[o].tenant, op[o].kb>>
  <1>1. ScopeOf(q) # ScopeOf(o)
    BY DEF TablesInv, LocksInv, Locking
  <1>2. op[o].kind \in Publishing /\ op[q].kind \in Publishing
    BY DEF TablesInv, RequestsInv, RequestOk, Locking
  <1> QED
    BY <1>1, <1>2 DEF ScopeOf, Publishing

LEMMA CommitConfigKeepsTables ==
  ASSUME TablesInv, NEW o \in Ops, CommitConfig(o)
  PROVE  TablesInv'
  <1>1. op[o].pc = "read" /\ op[o].kind = "publish" /\ overlays' = overlays
    BY DEF CommitConfig
  <1>0. PICK t \in TenantIds, f \in Fields, row \in VersionRow :
          t = op[o].tenant /\ f = op[o].field /\ row = NewVersion(o)
    BY <1>1, NewVersionIsNewer
  <1>2. /\ t = op[o].tenant /\ f = op[o].field /\ row = NewVersion(o)
        /\ \A r \in versions[t] : r.version < row.version
        /\ row.data = [IF truth[<<"config", t>>] = None THEN Defaults
                       ELSE truth[<<"config", t>>] EXCEPT ![f] = o]
    BY <1>1, <1>0, NewVersionIsNewer
  <1>3. /\ versions' = [versions EXCEPT ![t] = @ \cup {row}]
        /\ truth' = [truth EXCEPT ![<<"config", t>>] = row.data]
    <2>1. ScopeOf(o) = <<"config", t>>
      BY <1>1, <1>2 DEF ScopeOf
    <2> QED
      BY <1>2, <2>1 DEF CommitConfig, Committed
  <1>4. /\ versions \in [TenantIds -> SUBSET VersionRow] /\ overlays \in SUBSET OverlayRow
        /\ op \in [Ops -> Request] /\ op[o] \in Request /\ RequestOk(o)
        /\ truth \in [{"config"} \X TenantIds \cup {"prompt"} \X Scopes -> Data \cup {None}]
    BY DEF TablesInv, TablesType, RequestsInv
  <1>5. row.data \in Data /\ <<"config", t>> \in {"config"} \X TenantIds
    BY DEF VersionRow
  <1> DEFINE x == [op[o] EXCEPT !.pc = "committed", !.rows = {row}]
  <1>6. op' = [op EXCEPT ![o] = x]
    BY <1>2, <1>4 DEF CommitConfig
  <1>7. /\ x \in Request /\ x.pc = "committed" /\ x.kind = "publish" /\ x.rows = {row}
        /\ x.tenant = t /\ x.field = f
    BY <1>1, <1>2, <1>4 DEF Request
  <1> HIDE DEF x
  <1>8. op'[o] = x /\ \A q \in Ops \ {o} : op'[q] = op[q]
    BY <1>4, <1>6
  <1>9. TablesType'
    <2>1. versions' \in [TenantIds -> SUBSET VersionRow]
      BY <1>3, <1>4
    <2>2. truth' \in [{"config"} \X TenantIds \cup {"prompt"} \X Scopes -> Data \cup {None}]
      BY <1>3, <1>4, <1>5
    <2>3. op' \in [Ops -> Request] /\ overlays' \in SUBSET OverlayRow
      BY <1>1, <1>4, <1>6, <1>7
    <2> QED
      BY <2>1, <2>2, <2>3 DEF TablesType
  <1>10. VersionsInv'
    <2>1. ASSUME NEW u \in TenantIds \ {t}
          PROVE  versions'[u] = versions[u] /\ truth'[<<"config", u>>] = truth[<<"config", u>>]
      BY <1>3, <1>4
    <2>2. versions'[t] = versions[t] \cup {row} /\ truth'[<<"config", t>>] = row.data
      BY <1>3, <1>4, <1>5
    <2>3. HasNewest(versions[t] \cup {row}) /\ Latest(versions[t] \cup {row}) = row
      BY <1>2, <1>4, NewRowIsLatest
    <2>4. \A r, s \in versions[t] \cup {row} : r.version = s.version => r = s
      <3>1. \A r \in versions[t] : r.version # row.version
        BY <1>2, <1>4 DEF VersionRow
      <3> QED
        BY <3>1 DEF TablesInv, VersionsInv
    <2>5. /\ \A r, s \in versions'[t] : r.version = s.version => r = s
          /\ HasNewest(versions'[t]) /\ truth'[<<"config", t>>] = Latest(versions'[t]).data
      BY <2>2, <2>3, <2>4
    <2>6. ASSUME NEW u \in TenantIds \ {t}
          PROVE  /\ \A r, s \in versions'[u] : r.version = s.version => r = s
                 /\ \/ versions'[u] = {} /\ truth'[<<"config", u>>] = None
                    \/ /\ HasNewest(versions'[u])
                       /\ truth'[<<"config", u>>] = Latest(versions'[u]).data
      BY <2>1 DEF TablesInv, VersionsInv
    <2> QED
      BY <2>5, <2>6 DEF VersionsInv, HasNewest, Latest
  <1>11. OverlaysInv'
    <2>1. \A s \in Scopes : truth'[<<"prompt", s>>] = truth[<<"prompt", s>>]
      BY <1>3, <1>4
    <2>2. \A r \in overlays : /\ r.by \in Ops /\ <<r.tenant, r.kb>> \in Scopes
                              /\ op'[r.by].pc \in { "committed", "done" }
      BY <1>1, <1>4, <1>8 DEF TablesInv, OverlaysInv, OverlayRow, Scopes
    <2> QED
      BY <1>1, <2>1, <2>2 DEF TablesInv, OverlaysInv
  <1>12. LocksInv'
    BY <1>7, <1>8 DEF TablesInv, LocksInv, Locking, ScopeOf
  <1>13. RequestsInv'
    <2>1. RequestOk(o)'
      <3>1. HasNewest({row})
        BY DEF HasNewest, VersionRow
      <3> QED
        BY <1>7, <1>8, <3>1 DEF RequestOk, Locking, Publishing
    <2>2. ASSUME NEW q \in Ops \ {o}
          PROVE  RequestOk(q)'
      <3>1. RequestOk(q) /\ op'[q] = op[q]
        BY <1>8 DEF TablesInv, RequestsInv
      <3>2. op[q].pc = "read" => op[q].rows = RowsFor(q)'
        <4>1. SUFFICES ASSUME op[q].pc = "read"
                       PROVE  RowsFor(q)' = RowsFor(q)
          BY <3>1 DEF RequestOk
        <4>2. CASE op[q].kind = "publish"
          <5>1. op[q].tenant \in TenantIds \ {t}
            BY <1>1, <1>2, <3>1, <4>1, <4>2, OthersReadElsewhere DEF RequestOk, Locking
          <5> QED
            BY <1>3, <1>4, <1>8, <4>2, <5>1 DEF RowsFor
        <4>3. CASE op[q].kind # "publish"
          BY <1>1, <1>8, <4>3 DEF RowsFor
        <4> QED
          BY <4>2, <4>3
      <3> QED
        BY <3>1, <3>2 DEF RequestOk
    <2> QED
      BY <2>1, <2>2 DEF RequestsInv
  <1> QED
    BY <1>9, <1>10, <1>11, <1>12, <1>13 DEF TablesInv

\* The overlay of a scope is inserted or replaced: nothing else of the table changes.
LEMMA CommitReplacesOverlay ==
  ASSUME TablesInv, NEW o \in Ops, CommitPrompt(o)
  PROVE  \E row \in OverlayRow :
           /\ row.tenant = op[o].tenant /\ row.kb = op[o].kb
           /\ row.data = [IF truth[ScopeOf(o)] = None THEN Defaults
                          ELSE truth[ScopeOf(o)] EXCEPT ![op[o].field] = o]
           /\ overlays' = (overlays \ RowsFor(o)) \cup {row}
           /\ op[row.by].pc \in { "committed", "done" } \/ row.by = o
           /\ \A r \in overlays \ RowsFor(o) : r.by # row.by
  <1>1. /\ op[o].pc = "read" /\ op[o].kind = "set_prompt" /\ op[o].rows = RowsFor(o)
        /\ op[o].tenant \in TenantIds /\ op[o].kb \in KbIds \cup {None} /\ op[o].field \in Fields
    BY DEF TablesInv, TablesType, RequestsInv, RequestOk, CommitPrompt, Request, Locking, Publishing
  <1>2. PICK t \in TenantIds, kbid \in KbIds \cup {None}, f \in Fields, rows \in SUBSET overlays :
          t = op[o].tenant /\ kbid = op[o].kb /\ f = op[o].field /\ rows = op[o].rows
    BY <1>1 DEF RowsFor
  <1>3. /\ rows = {r \in overlays : r.tenant = t /\ r.kb = kbid}
        /\ ScopeOf(o) = <<"prompt", <<t, kbid>>>>
    BY <1>1, <1>2 DEF RowsFor, ScopeOf
  <1>4. \A r \in overlays : r.by # o /\ r \in OverlayRow
    BY <1>1 DEF TablesInv, TablesType, OverlaysInv
  <1>5. \A r, s \in rows : r = s
    BY <1>3 DEF TablesInv, OverlaysInv
  <1>6. CASE rows = {}
    <2> DEFINE row == [tenant |-> t, kb |-> kbid, by |-> o, data |-> [Defaults EXCEPT ![f] = o]]
    <2>1. overlays' = (overlays \ {r \in overlays : r.by = row.by}) \cup {row}
      BY <1>2, <1>6 DEF CommitPrompt
    <2>2. [Defaults EXCEPT ![f] = o] \in Data
      BY DefaultsAreData DEF Data
    <2>3. row \in OverlayRow /\ row.tenant = t /\ row.kb = kbid /\ row.by = o
          /\ row.data = [Defaults EXCEPT ![f] = o]
      BY <2>2 DEF OverlayRow
    <2> HIDE DEF row
    <2>4. overlays' = (overlays \ rows) \cup {row} /\ \A r \in overlays \ rows : r.by # row.by
      BY <1>4, <1>6, <2>1, <2>3
    <2>5. truth[<<"prompt", <<t, kbid>>>>] = None
      <3>1. \A r \in overlays : <<r.tenant, r.kb>> # <<t, kbid>>
        BY <1>3, <1>6
      <3> QED
        BY <3>1 DEF TablesInv, OverlaysInv, Scopes
    <2> QED
      BY <1>1, <1>2, <1>3, <2>3, <2>4, <2>5
  <1>7. CASE rows # {}
    <2>1. PICK r : r = CHOOSE q \in rows : TRUE
      OBVIOUS
    <2>2. r \in rows /\ r \in overlays /\ r \in OverlayRow /\ rows = {r}
      BY <1>3, <1>4, <1>5, <1>7, <2>1
    <2> DEFINE row == [r EXCEPT !.data[f] = o]
    <2>3. overlays' = (overlays \ {s \in overlays : s.by = row.by}) \cup {row}
      BY <1>2, <1>7, <2>1 DEF CommitPrompt
    <2>4. [r.data EXCEPT ![f] = o] \in Data
      BY <2>2 DEF OverlayRow, Data
    <2>5. row \in OverlayRow /\ row.tenant = t /\ row.kb = kbid /\ row.by = r.by
          /\ row.data = [r.data EXCEPT ![f] = o]
      BY <1>3, <2>2, <2>4 DEF OverlayRow
    <2> HIDE DEF row
    <2>6. \A s \in overlays : s.by = r.by <=> s = r
      BY <2>2 DEF TablesInv, OverlaysInv
    <2>7. overlays' = (overlays \ rows) \cup {row} /\ \A s \in overlays \ rows : s.by # row.by
      BY <2>2, <2>3, <2>5, <2>6
    <2>8. truth[<<"prompt", <<t, kbid>>>>] = r.data /\ r.data # None
          /\ op[r.by].pc \in { "committed", "done" }
      BY <1>3, <2>2, DefaultsAreData DEF TablesInv, OverlaysInv, OverlayRow
    <2> QED
      BY <1>1, <1>2, <1>3, <2>5, <2>7, <2>8
  <1> QED
    BY <1>6, <1>7

LEMMA CommitPromptKeepsTables ==
  ASSUME TablesInv, NEW o \in Ops, CommitPrompt(o)
  PROVE  TablesInv'
  <1>1. /\ op[o].pc = "read" /\ op[o].kind = "set_prompt" /\ versions' = versions
        /\ op[o] \in Request /\ RequestOk(o)
        /\ op[o].tenant \in TenantIds /\ op[o].kb \in KbIds \cup {None} /\ op[o].field \in Fields
    BY DEF TablesInv, TablesType, RequestsInv, RequestOk, CommitPrompt, Request, Locking, Publishing
  <1>2. PICK t \in TenantIds, kbid \in KbIds \cup {None}, f \in Fields :
          t = op[o].tenant /\ kbid = op[o].kb /\ f = op[o].field
    BY <1>1
  <1>3. ScopeOf(o) = <<"prompt", <<t, kbid>>>>
        /\ RowsFor(o) = {r \in overlays : r.tenant = t /\ r.kb = kbid}
    BY <1>1, <1>2 DEF ScopeOf, RowsFor
  <1>4. PICK row \in OverlayRow :
          /\ row.tenant = t /\ row.kb = kbid
          /\ row.data = [IF truth[<<"prompt", <<t, kbid>>>>] = None THEN Defaults
                         ELSE truth[<<"prompt", <<t, kbid>>>>] EXCEPT ![f] = o]
          /\ overlays' = (overlays \ RowsFor(o)) \cup {row}
          /\ op[row.by].pc \in { "committed", "done" } \/ row.by = o
          /\ \A r \in overlays \ RowsFor(o) : r.by # row.by
    BY <1>2, <1>3, CommitReplacesOverlay
  <1>5. truth' = [truth EXCEPT ![<<"prompt", <<t, kbid>>>>] = row.data]
    BY <1>2, <1>3, <1>4 DEF CommitPrompt, Committed
  <1>6. /\ versions \in [TenantIds -> SUBSET VersionRow] /\ overlays \in SUBSET OverlayRow
        /\ op \in [Ops -> Request]
        /\ truth \in [{"config"} \X TenantIds \cup {"prompt"} \X Scopes -> Data \cup {None}]
        /\ row.data \in Data /\ <<"prompt", <<t, kbid>>>> \in {"prompt"} \X Scopes
    BY DEF TablesInv, TablesType, OverlayRow, Scopes
  <1> DEFINE x == [op[o] EXCEPT !.pc = "committed"]
  <1>7. op' = [op EXCEPT ![o] = x]
    BY DEF CommitPrompt
  <1>8. /\ x \in Request /\ x.pc = "committed" /\ x.kind = "set_prompt" /\ x.rows = op[o].rows
        /\ x.tenant = t /\ x.field = f
    BY <1>1, <1>2 DEF Request
  <1> HIDE DEF x
  <1>9. op'[o] = x /\ \A q \in Ops \ {o} : op'[q] = op[q]
    BY <1>6, <1>7
  <1>10. TablesType'
    <2>1. truth' \in [{"config"} \X TenantIds \cup {"prompt"} \X Scopes -> Data \cup {None}]
      BY <1>5, <1>6
    <2>2. op' \in [Ops -> Request] /\ overlays' \in SUBSET OverlayRow
      BY <1>4, <1>6, <1>7, <1>8
    <2> QED
      BY <1>1, <1>6, <2>1, <2>2 DEF TablesType
  <1>11. VersionsInv'
    <2>1. \A u \in TenantIds : truth'[<<"config", u>>] = truth[<<"config", u>>]
      BY <1>5, <1>6
    <2> QED
      BY <1>1, <2>1 DEF TablesInv, VersionsInv, HasNewest, Latest
  <1>12. OverlaysInv'
    <2>1. \A r \in overlays' : r = row \/ (r \in overlays /\ r \notin RowsFor(o))
      BY <1>4
    <2>2. \A r \in overlays \ RowsFor(o) : r \in OverlayRow /\ <<r.tenant, r.kb>> \in Scopes
                                             /\ ~(r.tenant = t /\ r.kb = kbid)
      BY <1>3, <1>6 DEF OverlayRow, Scopes
    <2>3. \A r, s \in overlays' : (r.tenant = s.tenant /\ r.kb = s.kb) \/ r.by = s.by => r = s
      BY <1>4, <2>1, <2>2 DEF TablesInv, OverlaysInv
    <2>4. \A s \in Scopes \ {<<t, kbid>>} : truth'[<<"prompt", s>>] = truth[<<"prompt", s>>]
      BY <1>5, <1>6
    <2>5. truth'[<<"prompt", <<t, kbid>>>>] = row.data
      BY <1>5, <1>6
    <2>6. \A r \in overlays' : truth'[<<"prompt", <<r.tenant, r.kb>>>>] = r.data
      <3>1. ASSUME NEW r \in overlays \ RowsFor(o)
            PROVE  truth'[<<"prompt", <<r.tenant, r.kb>>>>] = r.data
        BY <2>2, <2>4 DEF TablesInv, OverlaysInv
      <3> QED
        BY <1>4, <2>1, <2>5, <3>1
    <2>7. \A r \in overlays' : op'[r.by].pc \in { "committed", "done" }
      <3>1. \A r \in overlays' : r.by \in Ops
        BY <1>6, <2>1 DEF OverlayRow
      <3>2. \A r \in overlays' : r.by = o \/ op[r.by].pc \in { "committed", "done" }
        BY <1>4, <2>1 DEF TablesInv, OverlaysInv
      <3> QED
        BY <1>8, <1>9, <3>1, <3>2
    <2>8. ASSUME NEW s \in Scopes, \A r \in overlays' : <<r.tenant, r.kb>> # s
          PROVE  truth'[<<"prompt", s>>] = None
      <3>1. s # <<t, kbid>>
        BY <1>4, <2>8
      <3>2. \A r \in overlays : <<r.tenant, r.kb>> # s
        BY <1>3, <1>4, <2>8, <3>1
      <3> QED
        BY <2>4, <3>1, <3>2 DEF TablesInv, OverlaysInv
    <2> QED
      BY <2>3, <2>6, <2>7, <2>8 DEF OverlaysInv
  <1>13. LocksInv'
    BY <1>8, <1>9 DEF TablesInv, LocksInv, Locking, ScopeOf
  <1>14. RequestsInv'
    <2>1. RequestOk(o)'
      BY <1>1, <1>8, <1>9 DEF RequestOk, Locking, Publishing
    <2>2. ASSUME NEW q \in Ops \ {o}
          PROVE  RequestOk(q)'
      <3>1. RequestOk(q) /\ op'[q] = op[q]
        BY <1>9 DEF TablesInv, RequestsInv
      <3>2. op[q].pc = "read" => op[q].rows = RowsFor(q)'
        <4>1. SUFFICES ASSUME op[q].pc = "read"
                       PROVE  RowsFor(q)' = RowsFor(q)
          BY <3>1 DEF RequestOk
        <4>2. CASE op[q].kind = "publish"
          BY <1>1, <3>1, <4>2 DEF RowsFor
        <4>3. CASE op[q].kind # "publish"
          <5>1. <<op[q].tenant, op[q].kb>> # <<t, kbid>>
            BY <1>1, <1>2, <4>1, <4>3, OthersReadElsewhere
          <5>2. \A r : /\ r \in overlays /\ r.tenant = op[q].tenant /\ r.kb = op[q].kb
                       <=> /\ r \in overlays' /\ r.tenant = op[q].tenant /\ r.kb = op[q].kb
            BY <1>3, <1>4, <5>1
          <5> QED
            BY <3>1, <4>3, <5>2 DEF RowsFor
        <4> QED
          BY <4>2, <4>3
      <3> QED
        BY <3>1, <3>2 DEF RequestOk
    <2> QED
      BY <2>1, <2>2 DEF RequestsInv
  <1> QED
    BY <1>10, <1>11, <1>12, <1>13, <1>14 DEF TablesInv

(***************************************************************************)
(* TenantConfig: the caches of the processes                               *)
(***************************************************************************)

ConfigEntry == [key : TenantIds, data : VersionRow]
OverlayEntry == [key : Scopes, data : Data]
ArchiveRow == [tenant : TenantIds, version : Nat \ {0}, data : Data]

CachesType ==
  /\ configs \in [Procs -> Seq(ConfigEntry)] /\ prompts \in [Procs -> Seq(OverlayEntry)]
  /\ archive \in [Procs -> SUBSET ArchiveRow]

Archived(p, t) == { e \in archive[p] : e.tenant = t }

\* A version of a tenant is archived once: the newest MaxVersions are kept.
CacheOk(p) ==
  /\ OnceEach(configs[p]) /\ Len(configs[p]) <= MaxTenants
  /\ OnceEach(prompts[p]) /\ Len(prompts[p]) <= MaxOverlays
  /\ IsFiniteSet(archive[p])
  /\ \A e, d \in archive[p] : (e.tenant = d.tenant /\ e.version = d.version) => e = d
  /\ \A t \in TenantIds : Cardinality(Archived(p, t)) <= MaxVersions

CachesInv == CachesType /\ \A p \in Procs : CacheOk(p)

\* Those of a finite set that fewer than n others are newer than are n at most.
LEMMA NewestFew ==
  ASSUME NEW S, IsFiniteSet(S), NEW n \in Nat \ {0}, \A e \in S : e.version \in Nat,
         \A e, d \in S : e.version = d.version => e = d
  PROVE  Cardinality({e \in S : Cardinality({d \in S : d.version > e.version}) < n}) <= n
  <1>1. PICK K : K = {e \in S : Cardinality({d \in S : d.version > e.version}) < n}
    OBVIOUS
  <1>2. K \subseteq S /\ IsFiniteSet(K)
    BY <1>1, FS_Subset
  <1>3. Cardinality(K) <= n
    <2>1. CASE K = {}
      BY <2>1, FS_EmptySet
    <2>2. CASE K # {}
      <3>1. PICK V : V = {e.version : e \in K}
        OBVIOUS
      <3>2. V \in SUBSET Nat /\ V # {}
        BY <1>2, <2>2, <3>1
      <3>3. Min(V) \in V /\ \A v \in V : Min(V) <= v
        BY <3>2, MinOfNats
      <3>4. PICK m \in K : \A e \in K : m.version <= e.version
        BY <3>1, <3>3
      <3>5. PICK N : N = {d \in S : d.version > m.version}
        OBVIOUS
      <3>6. N \subseteq S /\ IsFiniteSet(N) /\ Cardinality(N) < n /\ m \notin N
        <4>1. Cardinality(N) < n
          BY <1>1, <3>4, <3>5
        <4>2. m \notin N
          BY <1>2, <3>4, <3>5
        <4> QED
          BY <3>5, <4>1, <4>2, FS_Subset
      <3>7. K \subseteq N \cup {m}
        <4> SUFFICES ASSUME NEW e \in K, e # m
                     PROVE  e \in N
          OBVIOUS
        <4>1. /\ e \in S /\ m \in S /\ e.version \in Nat /\ m.version \in Nat
              /\ e.version # m.version /\ m.version <= e.version
          BY <1>2, <3>4
        <4> QED
          BY <3>5, <4>1
      <3>8. IsFiniteSet(N \cup {m}) /\ Cardinality(N \cup {m}) = Cardinality(N) + 1
        BY <3>6, FS_AddElement
      <3>9. Cardinality(K) <= Cardinality(N \cup {m})
        BY <3>7, <3>8, FS_Subset
      <3>10. Cardinality(K) \in Nat /\ Cardinality(N) \in Nat
        BY <1>2, <3>6, FS_CardinalityType
      <3> QED
        BY <3>6, <3>8, <3>9, <3>10
    <2> QED
      BY <2>1, <2>2
  <1> QED
    BY <1>1, <1>3

LEMMA CacheConfigKeepsCaches ==
  ASSUME CachesInv, NEW p \in Procs, NEW t \in TenantIds, NEW c \in VersionRow,
         CacheConfig(p, t, c), prompts' = prompts
  PROVE  CachesInv'
  <1> DEFINE evicted == IF ~Has(configs[p], t) /\ Len(configs[p]) >= MaxTenants
                        THEN {configs[p][1].key} ELSE {}
             row == [tenant |-> t, version |-> c.version, data |-> c.data]
             rest == {e \in archive[p] : e.tenant \notin evicted
                        /\ ~(e.tenant = t /\ e.version = c.version)}
  <1>1. PICK kept : kept = rest \cup {row}
    OBVIOUS
  <1>2. /\ configs' = [configs EXCEPT ![p] = Put(@, t, c, MaxTenants)]
        /\ archive' = [archive EXCEPT ![p] = {e \in kept : e.tenant # t
             \/ Cardinality({d \in kept : d.tenant = t /\ d.version > e.version}) < MaxVersions}]
    BY <1>1 DEF CacheConfig
  <1>3. /\ configs \in [Procs -> Seq(ConfigEntry)] /\ archive \in [Procs -> SUBSET ArchiveRow]
        /\ CacheOk(p) /\ MaxTenants \in Nat \ {0} /\ MaxVersions \in Nat \ {0}
    BY SettingsAssumption DEF CachesInv, CachesType
  <1>4. row \in ArchiveRow /\ row.tenant = t /\ row.version = c.version
    BY DEF ArchiveRow, VersionRow
  <1>5. \A e \in rest : e \in archive[p] /\ ~(e.tenant = t /\ e.version = c.version)
    OBVIOUS
  <1>6. rest \subseteq archive[p]
    OBVIOUS
  <1> HIDE DEF rest, row
  <1>7. kept \in SUBSET ArchiveRow /\ IsFiniteSet(kept)
        /\ \A e, d \in kept : (e.tenant = d.tenant /\ e.version = d.version) => e = d
    <2>1. IsFiniteSet(rest)
      BY <1>3, <1>6, FS_Subset DEF CacheOk
    <2>2. IsFiniteSet(kept)
      BY <1>1, <2>1, FS_AddElement
    <2>3. kept \in SUBSET ArchiveRow
      BY <1>1, <1>3, <1>4, <1>6
    <2>4. \A e, d \in kept : (e.tenant = d.tenant /\ e.version = d.version) => e = d
      BY <1>1, <1>3, <1>4, <1>5 DEF CacheOk
    <2> QED
      BY <2>2, <2>3, <2>4
  <1>8. /\ Put(configs[p], t, c, MaxTenants) \in Seq(ConfigEntry)
        /\ OnceEach(Put(configs[p], t, c, MaxTenants))
        /\ Len(Put(configs[p], t, c, MaxTenants)) <= MaxTenants
    <2>1. [key |-> t, data |-> c] \in ConfigEntry
      BY DEF ConfigEntry
    <2> QED
      BY <1>3, <2>1, PutOne DEF CacheOk
  <1>9. PICK S : S = {e \in kept : e.tenant = t}
    OBVIOUS
  <1>10. PICK few : few = {e \in S : Cardinality({d \in S : d.version > e.version}) < MaxVersions}
    OBVIOUS
  <1>11. Cardinality(few) <= MaxVersions /\ few \subseteq S /\ S \subseteq kept
    <2>1. S \subseteq kept /\ IsFiniteSet(S) /\ \A e \in S : e.version \in Nat
      BY <1>7, <1>9, FS_Subset DEF ArchiveRow
    <2>2. \A e, d \in S : e.version = d.version => e = d
      BY <1>7, <1>9
    <2> QED
      BY <1>3, <1>10, <2>1, <2>2, NewestFew
  <1>12. archive'[p] = few \cup {e \in kept : e.tenant # t}
    <2>1. \A e : {d \in kept : d.tenant = t /\ d.version > e.version}
                  = {d \in S : d.version > e.version}
      BY <1>9
    <2>2. archive'[p] = {e \in kept : e.tenant # t
             \/ Cardinality({d \in kept : d.tenant = t /\ d.version > e.version}) < MaxVersions}
      BY <1>2, <1>3
    <2>3. archive'[p] = {e \in kept : e.tenant # t
             \/ Cardinality({d \in S : d.version > e.version}) < MaxVersions}
      BY <2>1, <2>2
    <2> QED
      BY <1>9, <1>10, <2>3
  <1>13. CachesType'
    <2>1. archive'[p] \subseteq ArchiveRow
      BY <1>7, <1>11, <1>12
    <2>2. archive' \in [Procs -> SUBSET ArchiveRow]
      BY <1>2, <1>3, <2>1
    <2>3. configs' \in [Procs -> Seq(ConfigEntry)]
      BY <1>2, <1>3, <1>8
    <2> QED
      BY <2>2, <2>3 DEF CachesInv, CachesType
  <1>14. CacheOk(p)'
    <2>1. /\ OnceEach(configs'[p]) /\ Len(configs'[p]) <= MaxTenants
          /\ OnceEach(prompts'[p]) /\ Len(prompts'[p]) <= MaxOverlays
      BY <1>2, <1>3, <1>8 DEF CacheOk
    <2>2. archive'[p] \subseteq kept
      BY <1>11, <1>12
    <2>3. IsFiniteSet(archive'[p])
          /\ \A e, d \in archive'[p] : (e.tenant = d.tenant /\ e.version = d.version) => e = d
      BY <1>7, <2>2, FS_Subset
    <2>4. ASSUME NEW u \in TenantIds
          PROVE  Cardinality({e \in archive'[p] : e.tenant = u}) <= MaxVersions
      <3>1. CASE u = t
        <4>1. {e \in archive'[p] : e.tenant = u} = few
          BY <1>9, <1>11, <1>12, <3>1
        <4> QED
          BY <1>11, <4>1
      <3>2. CASE u # t
        <4>1. {e \in archive'[p] : e.tenant = u} \subseteq Archived(p, u)
          BY <1>1, <1>4, <1>6, <1>9, <1>11, <1>12, <3>2 DEF Archived
        <4>2. IsFiniteSet(Archived(p, u)) /\ Cardinality(Archived(p, u)) <= MaxVersions
          BY <1>3, FS_Subset DEF CacheOk, Archived
        <4>3. IsFiniteSet({e \in archive'[p] : e.tenant = u})
              /\ Cardinality({e \in archive'[p] : e.tenant = u}) <= Cardinality(Archived(p, u))
          BY <4>1, <4>2, FS_Subset
        <4> QED
          BY <1>3, <4>2, <4>3, FS_CardinalityType
      <3> QED
        BY <3>1, <3>2
    <2> QED
      BY <2>1, <2>3, <2>4 DEF CacheOk, Archived
  <1>15. ASSUME NEW q \in Procs \ {p}
         PROVE  CacheOk(q)'
    <2>1. configs'[q] = configs[q] /\ prompts'[q] = prompts[q] /\ archive'[q] = archive[q]
      BY <1>2, <1>3
    <2> QED
      BY <2>1 DEF CachesInv, CacheOk, Archived
  <1> QED
    BY <1>13, <1>14, <1>15 DEF CachesInv

\* A process's cache of overlays with one entry more or less.
LEMMA PromptsKeepCaches ==
  ASSUME CachesInv, NEW p \in Procs, NEW cache \in Seq(OverlayEntry), OnceEach(cache),
         Len(cache) <= MaxOverlays, prompts' = [prompts EXCEPT ![p] = cache],
         UNCHANGED <<configs, archive>>
  PROVE  CachesInv'
  <1>1. prompts \in [Procs -> Seq(OverlayEntry)]
    BY DEF CachesInv, CachesType
  <1>2. prompts'[p] = cache /\ \A q \in Procs \ {p} : prompts'[q] = prompts[q]
    BY <1>1
  <1>3. prompts' \in [Procs -> Seq(OverlayEntry)]
    BY <1>1
  <1>4. CachesType'
    BY <1>3 DEF CachesInv, CachesType
  <1>5. \A q \in Procs : CacheOk(q)'
    BY <1>2 DEF CachesInv, CacheOk, Archived
  <1> QED
    BY <1>4, <1>5 DEF CachesInv

LEMMA GetOne ==
  ASSUME NEW E, NEW cache \in Seq(E), NEW k, Has(cache, k)
  PROVE  \E x \in E : x.key = k /\ x.data = Get(cache, k)
  <1>1. PICK i : i = CHOOSE j \in DOMAIN cache : cache[j].key = k
    OBVIOUS
  <1>2. i \in DOMAIN cache /\ cache[i].key = k
    BY <1>1 DEF Has
  <1>3. cache[i] \in E
    BY <1>2
  <1> QED
    BY <1>1, <1>2, <1>3 DEF Get

LEMMA CacheCommittedKeepsCaches ==
  ASSUME TablesInv, CachesInv, NEW o \in Ops, CacheCommitted(o)
  PROVE  CachesInv'
  <1>1. /\ op[o] \in Request /\ RequestOk(o) /\ op[o].pc = "committed"
        /\ op[o].proc \in Procs /\ op[o].tenant \in TenantIds /\ op[o].field \in Fields
        /\ op[o].kind \in Publishing /\ op[o].kb \in KbIds \cup {None}
    BY DEF CacheCommitted, TablesInv, TablesType, RequestsInv, RequestOk, Request, Locking
  <1>2. CASE op[o].kind = "publish"
    <2>1. Latest(op[o].rows) \in VersionRow
      BY <1>1, <1>2, LatestRow DEF RequestOk
    <2>2. CacheConfig(op[o].proc, op[o].tenant, Latest(op[o].rows)) /\ prompts' = prompts
      BY <1>2 DEF CacheCommitted
    <2> QED
      BY <1>1, <2>1, <2>2, CacheConfigKeepsCaches
  <1>3. CASE op[o].kind # "publish"
    <2>1. PICK p \in Procs, cache \in Seq(OverlayEntry), k \in Scopes :
            p = op[o].proc /\ cache = prompts[p] /\ k = <<op[o].tenant, op[o].kb>>
      BY <1>1 DEF CachesInv, CachesType, Scopes
    <2>2. PICK old : old = IF Has(cache, k) THEN Get(cache, k) ELSE Defaults
      OBVIOUS
    <2>3. PICK d : d = [old EXCEPT ![op[o].field] = o]
      OBVIOUS
    <2>4. /\ prompts' = [prompts EXCEPT ![p] = Put(cache, k, d, MaxOverlays)]
          /\ UNCHANGED <<configs, archive>>
      BY <1>3, <2>1, <2>2, <2>3 DEF CacheCommitted
    <2>5. old \in Data
      <3>1. ASSUME Has(cache, k)
            PROVE  Get(cache, k) \in Data
        <4>1. \E x \in OverlayEntry : x.key = k /\ x.data = Get(cache, k)
          BY <3>1, GetOne
        <4> QED
          BY <4>1 DEF OverlayEntry
      <3> QED
        BY <2>2, <3>1, DefaultsAreData
    <2>6. [key |-> k, data |-> d] \in OverlayEntry
      BY <2>3, <2>5 DEF Data, OverlayEntry
    <2>7. OnceEach(cache) /\ Len(cache) <= MaxOverlays /\ MaxOverlays \in Nat \ {0}
      BY <2>1, SettingsAssumption DEF CachesInv, CacheOk
    <2>8. /\ Put(cache, k, d, MaxOverlays) \in Seq(OverlayEntry)
          /\ OnceEach(Put(cache, k, d, MaxOverlays))
          /\ Len(Put(cache, k, d, MaxOverlays)) <= MaxOverlays
      BY <2>6, <2>7, PutOne
    <2> QED
      BY <2>4, <2>8, PromptsKeepCaches
  <1> QED
    BY <1>2, <1>3

LEMMA LoadConfigKeepsSettings ==
  ASSUME TablesInv, CachesInv, NEW o \in Ops, LoadConfig(o)
  PROVE  TablesInv' /\ CachesInv'
  <1> DEFINE c == IF op[o].rows = {} THEN [version |-> 1, data |-> Defaults] ELSE Latest(op[o].rows)
  <1>1. /\ op[o] \in Request /\ RequestOk(o) /\ op[o].pc = "selected" /\ op[o].kind = "load"
        /\ op[o].proc \in Procs /\ op[o].tenant \in TenantIds /\ op[o].rows \subseteq VersionRow
    BY DEF LoadConfig, TablesInv, TablesType, RequestsInv, RequestOk, Request, Locking
  <1>2. c \in VersionRow /\ c.data = op[o].expected
    <2>1. CASE op[o].rows = {} /\ op[o].expected = Defaults
      BY <2>1, DefaultsAreData DEF VersionRow
    <2>2. CASE HasNewest(op[o].rows) /\ op[o].expected = Latest(op[o].rows).data
      BY <1>1, <2>2, LatestRow
    <2> QED
      BY <1>1, <2>1, <2>2 DEF RequestOk
  <1>3. /\ CacheConfig(op[o].proc, op[o].tenant, c) /\ op' = Finished(o, "loaded", c.data)
        /\ UNCHANGED <<versions, overlays, prompts, truth>>
    BY DEF LoadConfig
  <1> HIDE DEF c
  <1>4. c.data \in Data
    BY <1>2 DEF VersionRow
  <1>5. TablesInv'
    BY <1>1, <1>2, <1>3, <1>4, RequestEnds
  <1>6. CachesInv'
    BY <1>1, <1>2, <1>3, CacheConfigKeepsCaches
  <1> QED
    BY <1>5, <1>6

\* The overlay of a scope is in the cache if there is one; no other scope comes.
LEMMA OverwriteOne ==
  ASSUME NEW cache \in Seq(OverlayEntry), OnceEach(cache), Len(cache) <= MaxOverlays,
         NEW t \in TenantIds, NEW kbid \in KbIds \cup {None}, NEW rows \in SUBSET OverlayRow,
         NEW c, c = Overwrite(cache, t, kbid, rows)
  PROVE  /\ c \in Seq(OverlayEntry) /\ OnceEach(c) /\ Len(c) <= MaxOverlays
         /\ (\A r \in rows : r.kb # kbid) => c = cache
         /\ (\E r \in rows : r.kb = kbid) =>
              Has(c, <<t, kbid>>) /\ \E r \in rows : r.kb = kbid /\ Get(c, <<t, kbid>>) = r.data
         /\ \A j : Has(c, j) => j = <<t, kbid>> \/ Has(cache, j)
  <1>1. CASE \A r \in rows : r.kb # kbid
    BY <1>1 DEF Overwrite
  <1>2. CASE \E r \in rows : r.kb = kbid
    <2>1. PICK r : r = CHOOSE q \in rows : q.kb = kbid
      OBVIOUS
    <2>2. r \in rows /\ r.kb = kbid /\ r \in OverlayRow
      BY <1>2, <2>1
    <2>3. Overwrite(cache, t, kbid, rows) = Put(cache, <<t, kbid>>, r.data, MaxOverlays)
      BY <1>2, <2>1 DEF Overwrite
    <2>4. [key |-> <<t, kbid>>, data |-> r.data] \in OverlayEntry /\ MaxOverlays \in Nat \ {0}
      BY <2>2, SettingsAssumption DEF OverlayEntry, OverlayRow, Scopes
    <2>5. c = Put(cache, <<t, kbid>>, r.data, MaxOverlays)
      BY <2>3
    <2>6. /\ c \in Seq(OverlayEntry) /\ OnceEach(c) /\ Len(c) <= MaxOverlays
          /\ Has(c, <<t, kbid>>) /\ Get(c, <<t, kbid>>) = r.data
          /\ \A j : Has(c, j) => j = <<t, kbid>> \/ Has(cache, j)
      BY <2>4, <2>5, PutOne
    <2> QED
      BY <2>2, <2>6
  <1> QED
    BY <1>1, <1>2

LEMMA LoadPromptKeepsSettings ==
  ASSUME TablesInv, CachesInv, NEW o \in Ops, LoadPrompt(o)
  PROVE  TablesInv' /\ CachesInv'
  <1>1. /\ op[o] \in Request /\ RequestOk(o) /\ op[o].pc = "selected" /\ op[o].kind = "load_prompt"
        /\ op[o].expected \in Data /\ op[o].rows \subseteq OverlayRow
        /\ op[o].proc \in Procs /\ op[o].tenant \in TenantIds /\ op[o].kb \in KbIds \cup {None}
    BY DEF LoadPrompt, TablesInv, TablesType, RequestsInv, RequestOk, Request, Locking
  <1>2. PICK p \in Procs, t \in TenantIds, kbid \in KbIds \cup {None}, rows \in SUBSET OverlayRow,
             start \in Seq(OverlayEntry) :
          /\ p = op[o].proc /\ t = op[o].tenant /\ kbid = op[o].kb /\ rows = op[o].rows
          /\ start = prompts[p]
    BY <1>1 DEF CachesInv, CachesType
  <1>3. OnceEach(start) /\ Len(start) <= MaxOverlays /\ MaxOverlays \in Nat
    BY <1>2, SettingsAssumption DEF CachesInv, CacheOk
  <1>4. PICK a : a = Pop(start, <<t, None>>)
    OBVIOUS
  <1>5. a \in Seq(OverlayEntry) /\ OnceEach(a) /\ Len(a) <= MaxOverlays /\ ~Has(a, <<t, None>>)
    BY <1>3, <1>4, PopOne, LenProperties
  <1>6. PICK b : b = Pop(a, <<t, kbid>>)
    OBVIOUS
  <1>7. /\ b \in Seq(OverlayEntry) /\ OnceEach(b) /\ Len(b) <= MaxOverlays
        /\ ~Has(b, <<t, kbid>>) /\ ~Has(b, <<t, None>>)
    BY <1>3, <1>5, <1>6, PopOne, LenProperties
  <1>8. PICK c : c = Overwrite(b, t, None, rows)
    OBVIOUS
  <1>9. /\ c \in Seq(OverlayEntry) /\ OnceEach(c) /\ Len(c) <= MaxOverlays
        /\ (\A r \in rows : r.kb # None) => c = b
        /\ (\E r \in rows : r.kb = None) =>
             Has(c, <<t, None>>) /\ \E r \in rows : r.kb = None /\ Get(c, <<t, None>>) = r.data
        /\ \A j : Has(c, j) => j = <<t, None>> \/ Has(b, j)
    BY <1>7, <1>8, OverwriteOne
  <1>10. PICK d : d = Overwrite(c, t, kbid, rows)
    OBVIOUS
  <1>11. /\ d \in Seq(OverlayEntry) /\ OnceEach(d) /\ Len(d) <= MaxOverlays
         /\ (\A r \in rows : r.kb # kbid) => d = c
         /\ (\E r \in rows : r.kb = kbid) =>
              Has(d, <<t, kbid>>) /\ \E r \in rows : r.kb = kbid /\ Get(d, <<t, kbid>>) = r.data
         /\ \A j : Has(d, j) => j = <<t, kbid>> \/ Has(c, j)
    <2>1. c \in Seq(OverlayEntry) /\ OnceEach(c) /\ Len(c) <= MaxOverlays
      BY <1>9
    <2> QED
      BY <1>10, <2>1, OverwriteOne
  <1>12. /\ \A r \in rows : r.kb \in {kbid, None} /\ (r.kb = kbid => op[o].expected = r.data)
         /\ (\A r \in rows : r.kb # kbid) => \A r \in rows : op[o].expected = r.data
         /\ rows = {} => op[o].expected = Defaults
    BY <1>1, <1>2 DEF RequestOk
  <1>13. Snapshot(d, t, kbid) = op[o].expected
    <2>1. CASE \E r \in rows : r.kb = kbid
      BY <1>11, <1>12, <2>1 DEF Snapshot
    <2>2. CASE \A r \in rows : r.kb # kbid
      <3>1. d = c /\ (kbid # None => ~Has(c, <<t, kbid>>))
        <4>1. kbid # None => <<t, kbid>> # <<t, None>>
          OBVIOUS
        <4> QED
          BY <1>7, <1>9, <1>11, <2>2, <4>1
      <3>2. CASE \E r \in rows : r.kb = None
        <4>1. kbid # None /\ Get(c, <<t, None>>) = op[o].expected /\ Has(c, <<t, None>>)
          BY <1>9, <1>12, <2>2, <3>2
        <4> QED
          BY <3>1, <4>1 DEF Snapshot
      <3>3. CASE \A r \in rows : r.kb # None
        <4>1. rows = {} /\ c = b
          BY <1>9, <1>12, <2>2, <3>3
        <4> QED
          BY <1>7, <1>12, <3>1, <4>1 DEF Snapshot
      <3> QED
        BY <3>2, <3>3
    <2> QED
      BY <2>1, <2>2
  <1>14. /\ prompts' = [prompts EXCEPT ![p] = d]
         /\ op' = Finished(o, "loaded", Snapshot(d, t, kbid))
         /\ UNCHANGED <<versions, overlays, configs, archive, truth>>
    BY <1>2, <1>4, <1>6, <1>8, <1>10 DEF LoadPrompt
  <1>15. TablesInv'
    BY <1>1, <1>13, <1>14, RequestEnds
  <1>16. CachesInv'
    BY <1>11, <1>14, PromptsKeepCaches
  <1> QED
    BY <1>15, <1>16

(***************************************************************************)
(* TenantConfig: the theorems                                              *)
(***************************************************************************)

SettingsInv == TablesInv /\ CachesInv

LEMMA SettingsInvInit == SettingsInit => SettingsInv
  <1> SUFFICES ASSUME SettingsInit
               PROVE  CachesInv
    BY TablesInvInit DEF SettingsInv
  <1>1. CachesType
    BY DEF SettingsInit, CachesType
  <1>2. ASSUME NEW p \in Procs
        PROVE  CacheOk(p)
    <2>1. configs[p] = <<>> /\ prompts[p] = <<>> /\ archive[p] = {}
      BY DEF SettingsInit
    <2>2. OnceEach(<<>>) /\ Len(<<>>) = 0
      BY DEF OnceEach
    <2>3. \A t : Archived(p, t) = {}
      BY <2>1 DEF Archived
    <2>4. IsFiniteSet({}) /\ Cardinality({}) = 0
      BY FS_EmptySet
    <2>5. \A n \in {MaxTenants, MaxVersions, MaxOverlays} : 0 <= n
      BY SettingsAssumption
    <2> QED
      BY <2>1, <2>2, <2>3, <2>4, <2>5 DEF CacheOk
  <1> QED
    BY <1>1, <1>2 DEF CachesInv

LEMMA SameCaches ==
  ASSUME CachesInv, UNCHANGED <<configs, prompts, archive>>
  PROVE  CachesInv'
  BY DEF CachesInv, CachesType, CacheOk, Archived

LEMMA SettingsStutter ==
  ASSUME TablesInv, UNCHANGED settingVars
  PROVE  TablesInv'
  <1>1. /\ versions' = versions /\ overlays' = overlays /\ op' = op /\ truth' = truth
        /\ \A o \in Ops : ScopeOf(o)' = ScopeOf(o) /\ RowsFor(o)' = RowsFor(o)
    BY DEF settingVars, ScopeOf, RowsFor
  <1>2. TablesType' /\ VersionsInv' /\ OverlaysInv' /\ LocksInv'
    BY <1>1 DEF TablesInv, TablesType, VersionsInv, OverlaysInv, LocksInv
  <1>3. \A o \in Ops : RequestOk(o)'
    BY <1>1 DEF TablesInv, RequestsInv, RequestOk
  <1> QED
    BY <1>2, <1>3 DEF TablesInv, RequestsInv

LEMMA SettingsInvStep == SettingsInv /\ [SettingsNext]_settingVars => SettingsInv'
  <1> SUFFICES ASSUME TablesInv, CachesInv, [SettingsNext]_settingVars
               PROVE  TablesInv' /\ CachesInv'
    BY DEF SettingsInv
  <1>1. ASSUME UNCHANGED settingVars
        PROVE  TablesInv' /\ CachesInv'
    BY <1>1, SettingsStutter, SameCaches DEF settingVars
  <1>2. ASSUME NEW o \in Ops, NEW kind \in Kinds, NEW p \in Procs, NEW t \in TenantIds,
               NEW f \in Fields \cup {None}, NEW kbid \in KbIds \cup {None},
               Start(o, kind, p, t, kbid, f)
        PROVE  TablesInv' /\ CachesInv'
    <2>1. UNCHANGED <<configs, prompts, archive>>
      BY <1>2 DEF Start
    <2> QED
      BY <1>2, <2>1, StartKeepsTables, SameCaches
  <1>3. ASSUME NEW o \in Ops, Lock(o)
        PROVE  TablesInv' /\ CachesInv'
    BY <1>3, LockKeepsTables, SameCaches DEF Lock
  <1>4. ASSUME NEW o \in Ops, ReadRow(o)
        PROVE  TablesInv' /\ CachesInv'
    BY <1>4, ReadKeepsTables, SameCaches DEF ReadRow
  <1>5. ASSUME NEW o \in Ops, CommitConfig(o)
        PROVE  TablesInv' /\ CachesInv'
    BY <1>5, CommitConfigKeepsTables, SameCaches DEF CommitConfig
  <1>6. ASSUME NEW o \in Ops, CommitPrompt(o)
        PROVE  TablesInv' /\ CachesInv'
    <2>1. UNCHANGED <<configs, prompts, archive>>
      BY <1>6 DEF CommitPrompt
    <2> QED
      BY <1>6, <2>1, CommitPromptKeepsTables, SameCaches
  <1>7. ASSUME NEW o \in Ops, PublishFails(o)
        PROVE  TablesInv' /\ CachesInv'
    <2>1. UNCHANGED <<configs, prompts, archive>>
      BY <1>7 DEF PublishFails
    <2> QED
      BY <1>7, <2>1, DefaultsAreData, RequestEnds, SameCaches DEF PublishFails
  <1>8. ASSUME NEW o \in Ops, CacheCommitted(o)
        PROVE  TablesInv' /\ CachesInv'
    <2>1. TablesInv'
      BY <1>8, DefaultsAreData, RequestEnds DEF CacheCommitted
    <2> QED
      BY <1>8, <2>1, CacheCommittedKeepsCaches
  <1>9. ASSUME NEW o \in Ops, Select(o)
        PROVE  TablesInv' /\ CachesInv'
    <2>1. UNCHANGED <<configs, prompts, archive>>
      BY <1>9 DEF Select
    <2> QED
      BY <1>9, <2>1, SelectKeepsTables, SameCaches
  <1>10. ASSUME NEW o \in Ops, LoadConfig(o) \/ LoadPrompt(o)
         PROVE  TablesInv' /\ CachesInv'
    BY <1>10, LoadConfigKeepsSettings, LoadPromptKeepsSettings
  <1> QED
    BY <1>1, <1>2, <1>3, <1>4, <1>5, <1>6, <1>7, <1>8, <1>9, <1>10 DEF SettingsNext

LEMMA SettingsInvHolds == SettingsSpec => []SettingsInv
  BY SettingsInvInit, SettingsInvStep, PTL DEF SettingsSpec

\* However many requests publish and load at once, in any number of processes,
\* and however small the caches are: what load_latest_config_db and
\* load_snapshot_db answer is what the committed publications come to at their
\* select; and what a publication has read under the advisory lock is still the
\* table's until it commits, so that it overwrites no update it has not seen
\* and finds its version number, or its scope without an overlay, free.
THEOREM LoadsAreUpToDate == SettingsSpec => []LoadsSeeEveryUpdate
  <1>1. SettingsInv => LoadsSeeEveryUpdate
    <2> SUFFICES ASSUME TablesInv
                 PROVE  LoadsSeeEveryUpdate
      BY DEF SettingsInv
    <2>1. \A o \in Ops : op[o].pc = "loaded" => op[o].result = op[o].expected
      BY DEF TablesInv, RequestsInv, RequestOk
    <2>2. \A o \in Ops : op[o].pc = "read" => RowsFor(o) = op[o].rows
      BY DEF TablesInv, RequestsInv, RequestOk
    <2> QED
      BY <2>1, <2>2 DEF LoadsSeeEveryUpdate
  <1> QED
    BY <1>1, SettingsInvHolds, PTL

\* Rows, caches and requests keep their types; the dictionaries of
\* _cache_config and of the overlays, and the version history of each tenant
\* in it, stay within their limits whatever the order of the requests.
THEOREM SettingsTypeCorrect == SettingsSpec => []SettingsTypeOK
  <1>1. SettingsInv => SettingsTypeOK
    <2> SUFFICES ASSUME TablesInv, CachesInv
                 PROVE  SettingsTypeOK
      BY DEF SettingsInv
    <2>1. \A t \in TenantIds : \A r \in versions[t] : r.version \in Nat \ {0} /\ r.data \in Data
      BY DEF TablesInv, TablesType, VersionRow
    <2>2. \A r \in overlays :
            r.tenant \in TenantIds /\ r.kb \in KbIds \cup {None} /\ r.data \in Data
      BY DEF TablesInv, TablesType, OverlayRow
    <2>3. \A p \in Procs : Len(configs[p]) <= MaxTenants /\ Len(prompts[p]) <= MaxOverlays
      BY DEF CachesInv, CacheOk
    <2>4. \A p \in Procs, t \in TenantIds :
            Cardinality({e \in archive[p] : e.tenant = t}) <= MaxVersions
      BY DEF CachesInv, CacheOk, Archived
    <2>5. \A o \in Ops : op[o].kind \in Kinds /\ op[o].result \in Data
      BY DEF TablesInv, TablesType, Request
    <2> QED
      BY <2>1, <2>2, <2>3, <2>4, <2>5 DEF SettingsTypeOK
  <1> QED
    BY <1>1, SettingsInvHolds, PTL

(***************************************************************************)
(* The five parts beside each other                                        *)
(***************************************************************************)

LEMMA PartsStart ==
  ASSUME MCInit
  PROVE  CacheInit /\ LimiterInit /\ FilterInit /\ SettingsInit /\ BackupInit
  BY DEF MCInit

LEMMA PartsStep ==
  ASSUME [MCNext]_<<part, cacheVars, limiterVars, thinkVars, settingVars, backupVars>>
  PROVE  /\ [CacheNext]_cacheVars /\ [LimiterNext]_limiterVars /\ [FilterNext]_thinkVars
         /\ [SettingsNext]_settingVars /\ [BackupNext]_backupVars
  BY DEF MCNext

\* The parts keep no state in common: a behaviour of the platform is, for each
\* of them, a behaviour of that part alone, so what is proved of a part holds
\* however the cache, the limiters, the filters, the settings and the backup
\* script take turns.
THEOREM PartsRunAlone ==
  MCSpec => CacheSpec /\ LimiterSpec /\ FilterSpec /\ SettingsSpec /\ BackupSpec
  <1> USE DEF MCSpec, CacheSpec, LimiterSpec, FilterSpec, SettingsSpec, BackupSpec
  <1> QED
    BY PartsStart, PartsStep, PTL

\* In every behaviour of the platform, every part keeps its types and bounds:
\* the LRU order and the capacity of the tenant cache, the events and scopes of
\* the limiters, the length of the filter's pending text, the sizes of the
\* settings' dictionaries and the constraints of the database under the backup.
THEOREM PlatformTypes == MCSpec => []TypeOK
  <1>1. /\ CacheTypeOK /\ LimiterTypeOK /\ FilterTypeOK /\ SettingsTypeOK /\ BackupTypeOK
        => TypeOK
    BY DEF TypeOK
  <1> QED
    BY <1>1, PartsRunAlone, CacheTypeCorrect, LimiterTypes, FilterTypes, SettingsTypeCorrect,
       BackupTypeCorrect, PTL
=============================================================================
