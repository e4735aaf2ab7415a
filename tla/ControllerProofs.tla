-------------------------- MODULE ControllerProofs --------------------------
(***************************************************************************)
(* Proofs about the parts of the controller that keep to themselves: the    *)
(* data directory, the mail settings, the tunnel addresses, the agent's     *)
(* installer, the health checks, the reports kept and their history.  Each  *)
(* part has its own specification, its types and the invariant its theorem  *)
(* rests on.                                                                *)
(***************************************************************************)
EXTENDS DataDir, MailSettings, Addresses, Install, Checks, Reporting, Telemetry,
        WellFoundedInduction, TLAPS

-----------------------------------------------------------------------------
(* The data directory: whatever fails, what was saved opens *)

Keys == Secrets \union {Missing}

\* What can be in the database: the first so many migrations, and values sealed
\* with one secret.
Database == [exists : BOOLEAN, version : 0..3, applied : SUBSET (1..3), sealed : SUBSET Secrets]
InOrder(d) == d.applied = 1..d.version /\ (~d.exists => d.sealed = {})

DataDirTypes ==
    /\ {given, keyFile, keySynced} \subseteq Secrets \union {Missing, Damaged}
    /\ db \in mayBe /\ \A d \in mayBe : d \in Database /\ InOrder(d)
    /\ proc \in {"down", "refused", "loading", "writing", "renamed", "opening",
                 "migrating", "running"}
    /\ release \in Releases
    /\ secret \in Keys /\ lastGood \in Keys /\ mislaid \in BOOLEAN
    /\ stage \in {"idle", "making", "sending"}

\* Only one secret ever seals: it is wherever a secret is, unless it was mislaid.
OneSecret ==
    /\ lastGood = Missing => given = Missing \/ keyFile = Missing
    /\ lastGood # Missing => {given, keyFile} \subseteq {Missing, Damaged, lastGood}
    /\ lastGood # Missing /\ ~mislaid => Found = lastGood
    /\ \A d \in mayBe : d.sealed \subseteq {lastGood} \ {Missing}

\* Without a secret there is no database, or the secret has been mislaid; a
\* database that may be lost altogether has none mislaid.
NoneWithout ==
    /\ mislaid => \A d \in mayBe : d.exists
    /\ ~mislaid => Found # Damaged /\ (Found = Missing => \A d \in mayBe : ~d.exists)
    /\ proc = "refused" => mislaid

\* How far a start has come, and what it knows by then.
StartsInOrder ==
    /\ proc \in {"down", "refused", "loading", "writing", "renamed"} => mayBe = {db}
    /\ proc # "renamed" => keySynced = keyFile
    /\ proc \in {"writing", "renamed"} =>
         /\ ~mislaid /\ ~db.exists /\ lastGood = Missing /\ given = Missing
         /\ secret \in Secrets /\ keySynced = Missing
         /\ keyFile = (IF proc = "writing" THEN Missing ELSE secret)
    /\ proc \in {"opening", "migrating", "running"} => secret = Found /\ secret \in Secrets
    /\ proc = "migrating" => db.exists
    /\ proc = "running" => secret = lastGood /\ db.exists /\ release <= db.version

CopiesGone == proc = "running" /\ copy => stage = "making"

BackupOpens ==
    saved # NoBackup =>
        /\ saved.db \in Database /\ InOrder(saved.db) /\ saved.db.exists
        /\ saved.secret = lastGood /\ lastGood \in Secrets
        /\ saved.db.sealed \subseteq {lastGood}

DataDirInv ==
    /\ DataDirTypes /\ OneSecret /\ NoneWithout
    /\ StartsInOrder /\ CopiesGone /\ BackupOpens

\* A new database, one with another migration, and one with another sealed value.
LEMMA DatabaseShapes ==
  /\ NoDatabase \in Database /\ InOrder(NoDatabase)
  /\ [NoDatabase EXCEPT !.exists = TRUE] \in Database /\
       InOrder([NoDatabase EXCEPT !.exists = TRUE])
  /\ \A d \in Database, r \in Releases : InOrder(d) /\ d.version < r =>
       LET e == [d EXCEPT !.version = d.version + 1, !.applied = @ \union {d.version + 1}]
       IN  e \in Database /\ InOrder(e) /\ d.version + 1 \notin d.applied
<1>1. ASSUME NEW d \in Database, NEW r \in Releases, InOrder(d), d.version < r
      PROVE  LET e == [d EXCEPT !.version = d.version + 1, !.applied = @ \union {d.version + 1}]
             IN  e \in Database /\ InOrder(e) /\ d.version + 1 \notin d.applied
  <2> DEFINE n == d.version + 1
             e == [d EXCEPT !.version = n, !.applied = @ \union {n}]
  <2>1. d.applied = 1..d.version /\ d.version \in 0..3 /\ n \in 1..3
    BY <1>1 DEF InOrder, Database, Releases
  <2>2. (1..d.version) \union {n} = 1..n /\ n \notin 1..d.version
    BY <2>1
  <2>3. e.exists = d.exists /\ e.version = n /\ e.applied = 1..n /\ e.sealed = d.sealed
    BY <2>1, <2>2 DEF Database
  <2>4. 1..n \subseteq 1..3 /\ n \in 0..3
    BY <2>1
  <2>5. e \in Database
    BY <2>1, <2>2, <2>4 DEF Database
  <2> QED
    BY <2>1, <2>2, <2>3, <2>5, <1>1 DEF InOrder
<1>2. NoDatabase \in Database /\ InOrder(NoDatabase)
  BY DEF NoDatabase, Database, InOrder
<1>3. /\ [NoDatabase EXCEPT !.exists = TRUE] \in Database
      /\ InOrder([NoDatabase EXCEPT !.exists = TRUE])
  <2>1. [NoDatabase EXCEPT !.exists = TRUE] \in Database
    BY <1>2 DEF Database
  <2> QED
    BY <1>2, <2>1 DEF NoDatabase, InOrder
<1> QED
  BY <1>1, <1>2, <1>3

LEMMA DataDirStep == DataDirInv /\ [DataDirNext]_dataDirVars => DataDirInv'
<1> SUFFICES ASSUME DataDirInv, [DataDirNext]_dataDirVars PROVE DataDirInv'
  OBVIOUS
<1> USE SecretsAssumption
<1>0. CASE UNCHANGED dataDirVars
  BY <1>0
  DEF DataDirInv, DataDirTypes, OneSecret, NoneWithout, StartsInOrder, CopiesGone, BackupOpens,
      Found, dataDirVars
<1>1. ASSUME NEW r \in Releases, StartRelease(r) PROVE DataDirInv'
  <2>1. DataDirTypes'
    BY <1>1 DEF DataDirInv, DataDirTypes, secretVars, backupVars, StartRelease
  <2>2. OneSecret'
    BY <1>1 DEF DataDirInv, OneSecret, Found, secretVars, StartRelease
  <2>3. NoneWithout'
    BY <1>1 DEF DataDirInv, NoneWithout, Found, secretVars, StartRelease
  <2>4. StartsInOrder'
    BY <1>1 DEF DataDirInv, StartsInOrder, secretVars, StartRelease, Down
  <2>5. CopiesGone'
    BY <1>1 DEF CopiesGone, StartRelease
  <2>6. BackupOpens'
    BY <1>1 DEF DataDirInv, BackupOpens, backupVars, StartRelease
  <2> QED
    BY <2>1, <2>2, <2>3, <2>4, <2>5, <2>6 DEF DataDirInv
<1>2. CASE LoadSecret
  <2>1. DataDirTypes'
    BY <1>2 DEF DataDirInv, DataDirTypes, Keys, backupVars, LoadSecret
  <2>2. OneSecret'
    BY <1>2 DEF DataDirInv, DataDirTypes, OneSecret, Found, LoadSecret
  <2>3. NoneWithout'
    BY <1>2 DEF DataDirInv, DataDirTypes, OneSecret, NoneWithout, Found, LoadSecret
  <2>4. StartsInOrder'
    BY <1>2
    DEF DataDirInv, DataDirTypes, OneSecret, NoneWithout, StartsInOrder, Found, LoadSecret
  <2>5. CopiesGone'
    BY <1>2 DEF CopiesGone, LoadSecret
  <2>6. BackupOpens'
    BY <1>2 DEF DataDirInv, BackupOpens, backupVars, LoadSecret
  <2> QED
    BY <2>1, <2>2, <2>3, <2>4, <2>5, <2>6 DEF DataDirInv
<1>3. CASE RenameKey
  <2>1. DataDirTypes'
    BY <1>3 DEF DataDirInv, DataDirTypes, StartsInOrder, backupVars, RenameKey
  <2>2. OneSecret'
    BY <1>3 DEF DataDirInv, DataDirTypes, OneSecret, StartsInOrder, RenameKey
  <2>3. NoneWithout'
    BY <1>3
    DEF DataDirInv, DataDirTypes, OneSecret, NoneWithout, StartsInOrder, Found, RenameKey
  <2>4. StartsInOrder'
    BY <1>3 DEF DataDirInv, StartsInOrder, RenameKey
  <2>5. CopiesGone'
    BY <1>3 DEF CopiesGone, RenameKey
  <2>6. BackupOpens'
    BY <1>3 DEF DataDirInv, BackupOpens, backupVars, RenameKey
  <2> QED
    BY <2>1, <2>2, <2>3, <2>4, <2>5, <2>6 DEF DataDirInv
<1>4. CASE FsyncDir
  <2>1. DataDirTypes'
    BY <1>4 DEF DataDirInv, DataDirTypes, backupVars, FsyncDir, Synced
  <2>2. OneSecret'
    BY <1>4 DEF DataDirInv, DataDirTypes, OneSecret, Found, FsyncDir
  <2>3. NoneWithout'
    BY <1>4 DEF DataDirInv, DataDirTypes, OneSecret, NoneWithout, Found, FsyncDir
  <2>4. StartsInOrder'
    BY <1>4 DEF DataDirInv, DataDirTypes, StartsInOrder, Found, FsyncDir, Synced
  <2>5. CopiesGone'
    BY <1>4 DEF CopiesGone, FsyncDir
  <2>6. BackupOpens'
    BY <1>4 DEF DataDirInv, BackupOpens, backupVars, FsyncDir
  <2> QED
    BY <2>1, <2>2, <2>3, <2>4, <2>5, <2>6 DEF DataDirInv
<1>5. CASE OpenDatabase
  <2>1. DataDirTypes'
    <3> DEFINE new == [NoDatabase EXCEPT !.exists = TRUE]
    <3>2. new \in Database /\ InOrder(new)
      BY DatabaseShapes
    <3>3. (db' = db /\ mayBe' = mayBe) \/ (db' = new /\ mayBe' = mayBe \union {new})
      BY <1>5 DEF OpenDatabase, Commit
    <3> HIDE DEF new
    <3>1. db' \in mayBe' /\ \A d \in mayBe' : d \in Database /\ InOrder(d)
      BY <3>2, <3>3 DEF DataDirInv, DataDirTypes
    <3> QED
      BY <1>5, <3>1 DEF DataDirInv, DataDirTypes, secretVars, backupVars, OpenDatabase
  <2>2. OneSecret'
    BY <1>5 DEF DataDirInv, OneSecret, Found, NoDatabase, secretVars, OpenDatabase, Commit
  <2>3. NoneWithout'
    BY <1>5
    DEF DataDirInv, DataDirTypes, NoneWithout, StartsInOrder, Found, secretVars, OpenDatabase
  <2>4. StartsInOrder'
    BY <1>5 DEF DataDirInv, StartsInOrder, Found, NoDatabase, secretVars, OpenDatabase, Commit
  <2>5. CopiesGone'
    BY <1>5 DEF CopiesGone, OpenDatabase
  <2>6. BackupOpens'
    BY <1>5 DEF DataDirInv, BackupOpens, backupVars, OpenDatabase
  <2> QED
    BY <2>1, <2>2, <2>3, <2>4, <2>5, <2>6 DEF DataDirInv
<1>6. CASE Migrate
  <2> DEFINE d == [db EXCEPT !.version = db.version + 1, !.applied = @ \union {db.version + 1}]
  <2>1. d \in Database /\ InOrder(d) /\ db.version + 1 \notin db.applied
    BY <1>6, DatabaseShapes DEF DataDirInv, DataDirTypes, Migrate
  <2>2. db' = d /\ mayBe' = mayBe \union {d} /\ proc = "migrating" /\ proc' = "migrating"
    BY <1>6, <2>1 DEF Migrate, Commit
  <2>3. d.exists = db.exists /\ d.sealed = db.sealed
    OBVIOUS
  <2>4. UNCHANGED <<secretVars, release, secret, lastGood, backupVars>>
    BY <1>6 DEF Migrate
  <2> HIDE DEF d
  <2>5. DataDirTypes'
    BY <2>1, <2>2, <2>4 DEF DataDirInv, DataDirTypes, secretVars, backupVars
  <2>6. OneSecret'
    BY <2>2, <2>3, <2>4 DEF DataDirInv, DataDirTypes, OneSecret, Found, secretVars
  <2>7. NoneWithout'
    BY <2>2, <2>3, <2>4 DEF DataDirInv, DataDirTypes, NoneWithout, Found, secretVars
  <2>8. StartsInOrder'
    BY <2>2, <2>3, <2>4 DEF DataDirInv, StartsInOrder, Found, secretVars
  <2>9. CopiesGone' /\ BackupOpens'
    BY <2>2, <2>4 DEF DataDirInv, CopiesGone, BackupOpens, backupVars
  <2> QED
    BY <2>5, <2>6, <2>7, <2>8, <2>9 DEF DataDirInv
<1>7. CASE Started
  <2>1. DataDirTypes'
    BY <1>7 DEF DataDirInv, DataDirTypes, secretVars, Started
  <2>2. OneSecret'
    BY <1>7 DEF DataDirInv, OneSecret, StartsInOrder, Found, secretVars, Started
  <2>3. NoneWithout'
    BY <1>7 DEF DataDirInv, NoneWithout, Found, secretVars, Started
  <2>4. StartsInOrder'
    BY <1>7 DEF DataDirInv, StartsInOrder, Found, secretVars, Started
  <2>5. CopiesGone'
    BY <1>7 DEF CopiesGone, Started
  <2>6. BackupOpens'
    BY <1>7 DEF DataDirInv, OneSecret, StartsInOrder, BackupOpens, Found, Started
  <2> QED
    BY <2>1, <2>2, <2>3, <2>4, <2>5, <2>6 DEF DataDirInv
<1>8. CASE SealValue
  <2>1. DataDirTypes'
    BY <1>8
    DEF DataDirInv, DataDirTypes, StartsInOrder, Database, InOrder, secretVars, backupVars,
        SealValue, Commit
  <2>2. OneSecret'
    BY <1>8
    DEF DataDirInv, DataDirTypes, OneSecret, StartsInOrder, Database, Found, secretVars,
        SealValue, Commit
  <2>3. NoneWithout'
    BY <1>8
    DEF DataDirInv, DataDirTypes, NoneWithout, Database, Found, secretVars, SealValue, Commit
  <2>4. StartsInOrder'
    BY <1>8 DEF DataDirInv, StartsInOrder, Found, secretVars, SealValue, Commit
  <2>5. CopiesGone'
    BY <1>8 DEF DataDirInv, DataDirTypes, CopiesGone, backupVars, SealValue
  <2>6. BackupOpens'
    BY <1>8 DEF DataDirInv, BackupOpens, backupVars, SealValue
  <2> QED
    BY <2>1, <2>2, <2>3, <2>4, <2>5, <2>6 DEF DataDirInv
<1>9. CASE Checkpoint
  <2>1. DataDirTypes'
    BY <1>9 DEF DataDirInv, DataDirTypes, secretVars, backupVars, Checkpoint
  <2>2. OneSecret'
    BY <1>9 DEF DataDirInv, DataDirTypes, OneSecret, Found, secretVars, Checkpoint
  <2>3. NoneWithout'
    BY <1>9 DEF DataDirInv, NoneWithout, StartsInOrder, Found, secretVars, Checkpoint
  <2>4. StartsInOrder'
    BY <1>9 DEF DataDirInv, StartsInOrder, Found, secretVars, Checkpoint
  <2>5. CopiesGone'
    BY <1>9 DEF DataDirInv, CopiesGone, backupVars, Checkpoint
  <2>6. BackupOpens'
    BY <1>9 DEF DataDirInv, BackupOpens, backupVars, Checkpoint
  <2> QED
    BY <2>1, <2>2, <2>3, <2>4, <2>5, <2>6 DEF DataDirInv
<1>10. CASE MakeBackup
  <2>1. DataDirTypes'
    BY <1>10 DEF DataDirInv, DataDirTypes, secretVars, MakeBackup
  <2>2. OneSecret'
    BY <1>10 DEF DataDirInv, OneSecret, Found, secretVars, MakeBackup
  <2>3. NoneWithout'
    BY <1>10 DEF DataDirInv, NoneWithout, Found, secretVars, MakeBackup
  <2>4. StartsInOrder'
    BY <1>10 DEF DataDirInv, StartsInOrder, Found, secretVars, MakeBackup
  <2>5. CopiesGone'
    BY <1>10 DEF CopiesGone, MakeBackup
  <2>6. BackupOpens'
    BY <1>10 DEF DataDirInv, DataDirTypes, OneSecret, StartsInOrder, BackupOpens, MakeBackup
  <2> QED
    BY <2>1, <2>2, <2>3, <2>4, <2>5, <2>6 DEF DataDirInv
<1>11. CASE BackupOpened
  <2>1. DataDirTypes'
    BY <1>11 DEF DataDirInv, DataDirTypes, secretVars, BackupOpened
  <2>2. OneSecret'
    BY <1>11 DEF DataDirInv, OneSecret, Found, secretVars, BackupOpened
  <2>3. NoneWithout'
    BY <1>11 DEF DataDirInv, NoneWithout, Found, secretVars, BackupOpened
  <2>4. StartsInOrder'
    BY <1>11 DEF DataDirInv, StartsInOrder, Found, secretVars, BackupOpened
  <2>5. CopiesGone'
    BY <1>11 DEF CopiesGone, BackupOpened
  <2>6. BackupOpens'
    BY <1>11 DEF DataDirInv, BackupOpens, BackupOpened
  <2> QED
    BY <2>1, <2>2, <2>3, <2>4, <2>5, <2>6 DEF DataDirInv
<1>12. CASE BackupClosed
  <2>1. DataDirTypes'
    BY <1>12 DEF DataDirInv, DataDirTypes, secretVars, BackupClosed
  <2>2. OneSecret'
    BY <1>12 DEF DataDirInv, OneSecret, Found, secretVars, BackupClosed
  <2>3. NoneWithout'
    BY <1>12 DEF DataDirInv, NoneWithout, Found, secretVars, BackupClosed
  <2>4. StartsInOrder'
    BY <1>12 DEF DataDirInv, StartsInOrder, Found, secretVars, BackupClosed
  <2>5. CopiesGone'
    BY <1>12 DEF DataDirInv, CopiesGone, BackupClosed
  <2>6. BackupOpens'
    BY <1>12 DEF DataDirInv, BackupOpens, BackupClosed
  <2> QED
    BY <2>1, <2>2, <2>3, <2>4, <2>5, <2>6 DEF DataDirInv
<1>13. CASE Stop
  <2>1. DataDirTypes'
    BY <1>13 DEF DataDirInv, DataDirTypes, Keys, secretVars, Stop, Ended
  <2>2. OneSecret'
    BY <1>13 DEF DataDirInv, DataDirTypes, OneSecret, Found, secretVars, Stop
  <2>3. NoneWithout'
    BY <1>13 DEF DataDirInv, NoneWithout, StartsInOrder, Found, secretVars, Stop, Ended
  <2>4. StartsInOrder'
    BY <1>13 DEF DataDirInv, StartsInOrder, secretVars, Stop, Ended
  <2>5. CopiesGone'
    BY <1>13 DEF CopiesGone, Stop, Ended
  <2>6. BackupOpens'
    BY <1>13 DEF DataDirInv, DataDirTypes, BackupOpens, Stop, Ended
  <2> QED
    BY <2>1, <2>2, <2>3, <2>4, <2>5, <2>6 DEF DataDirInv
<1>14. CASE Killed
  <2>1. DataDirTypes'
    BY <1>14 DEF DataDirInv, DataDirTypes, Keys, Killed, Ended
  <2>2. OneSecret'
    BY <1>14 DEF DataDirInv, DataDirTypes, OneSecret, Found, Killed
  <2>3. NoneWithout'
    BY <1>14 DEF DataDirInv, DataDirTypes, NoneWithout, Found, Killed, Ended
  <2>4. StartsInOrder'
    BY <1>14 DEF StartsInOrder, Killed, Ended
  <2>5. CopiesGone'
    BY <1>14 DEF CopiesGone, BackupOpens, Killed, Ended
  <2>6. BackupOpens'
    BY <1>14 DEF DataDirInv, DataDirTypes, BackupOpens, Killed, Ended
  <2> QED
    BY <2>1, <2>2, <2>3, <2>4, <2>5, <2>6 DEF DataDirInv
<1>15. CASE PowerFails
  <2>1. DataDirTypes'
    BY <1>15 DEF DataDirInv, DataDirTypes, Keys, PowerFails, Ended
  <2>2. OneSecret'
    BY <1>15 DEF DataDirInv, DataDirTypes, OneSecret, StartsInOrder, Found, PowerFails
  <2>3. NoneWithout'
    BY <1>15 DEF DataDirInv, NoneWithout, StartsInOrder, Found, PowerFails, Ended
  <2>4. StartsInOrder'
    BY <1>15 DEF StartsInOrder, PowerFails, Ended
  <2>5. CopiesGone'
    BY <1>15 DEF CopiesGone, BackupOpens, PowerFails, Ended
  <2>6. BackupOpens'
    BY <1>15 DEF DataDirInv, DataDirTypes, BackupOpens, PowerFails, Ended
  <2> QED
    BY <2>1, <2>2, <2>3, <2>4, <2>5, <2>6 DEF DataDirInv
<1>16. CASE Mislay
  <2>1. DataDirTypes'
    BY <1>16 DEF DataDirInv, DataDirTypes, backupVars, Mislay, PutSecret
  <2>2. OneSecret'
    BY <1>16 DEF DataDirInv, OneSecret, Mislay, PutSecret
  <2>3. NoneWithout'
    BY <1>16 DEF DataDirInv, NoneWithout, StartsInOrder, Mislay, Down
  <2>4. StartsInOrder'
    BY <1>16 DEF DataDirInv, DataDirTypes, StartsInOrder, Mislay, PutSecret, Down
  <2>5. CopiesGone'
    BY <1>16 DEF CopiesGone, Mislay, Down
  <2>6. BackupOpens'
    BY <1>16 DEF DataDirInv, BackupOpens, backupVars, Mislay
  <2> QED
    BY <2>1, <2>2, <2>3, <2>4, <2>5, <2>6 DEF DataDirInv
<1>17. CASE Recover
  <2>1. DataDirTypes'
    BY <1>17
    DEF DataDirInv, DataDirTypes, OneSecret, NoneWithout, StartsInOrder, CopiesGone,
        BackupOpens, Keys, Database, InOrder, Found, NoDatabase, NoBackup, Releases, secretVars,
        backupVars, Recover, PutBack, PutSecret, Down
  <2>2. OneSecret'
    BY <1>17 DEF DataDirInv, OneSecret, Found, Recover, PutBack, PutSecret
  <2>3. NoneWithout'
    BY <1>17 DEF DataDirInv, DataDirTypes, NoneWithout, Keys, Found, Recover, PutBack, PutSecret
  <2>4. StartsInOrder'
    BY <1>17 DEF DataDirInv, StartsInOrder, Recover, PutBack, PutSecret, Down
  <2>5. CopiesGone'
    BY <1>17 DEF CopiesGone, BackupOpens, Recover
  <2>6. BackupOpens'
    BY <1>17 DEF DataDirInv, BackupOpens, backupVars, Recover
  <2> QED
    BY <2>1, <2>2, <2>3, <2>4, <2>5, <2>6 DEF DataDirInv
<1>18. CASE Restore
  <2>1. DataDirTypes'
    BY <1>18
    DEF DataDirInv, DataDirTypes, OneSecret, NoneWithout, StartsInOrder, CopiesGone,
        BackupOpens, Keys, Database, InOrder, Found, NoDatabase, NoBackup, Releases, secretVars,
        backupVars, Restore, PutBack, PutSecret, Down
  <2>2. OneSecret'
    BY <1>18 DEF DataDirInv, OneSecret, BackupOpens, Found, Restore, PutBack, PutSecret
  <2>3. NoneWithout'
    BY <1>18
    DEF DataDirInv, DataDirTypes, NoneWithout, BackupOpens, Found, Restore, PutBack, PutSecret
  <2>4. StartsInOrder'
    BY <1>18 DEF StartsInOrder, Restore, PutBack, PutSecret
  <2>5. CopiesGone'
    BY <1>18 DEF CopiesGone, BackupOpens, Restore
  <2>6. BackupOpens'
    BY <1>18 DEF DataDirInv, BackupOpens, backupVars, Restore
  <2> QED
    BY <2>1, <2>2, <2>3, <2>4, <2>5, <2>6 DEF DataDirInv
<1> QED
  BY <1>0, <1>1, <1>2, <1>3, <1>4, <1>5, <1>6, <1>7, <1>8, <1>9, <1>10, <1>11, <1>12, <1>13,
     <1>14, <1>15, <1>16, <1>17, <1>18
  DEF DataDirNext

LEMMA DataDirStart == DataDirInit => DataDirInv
<1> SUFFICES ASSUME DataDirInit PROVE DataDirInv
  OBVIOUS
<1>1. DataDirTypes
  <2>1. db \in mayBe /\ \A d \in mayBe : d \in Database /\ InOrder(d)
    BY DatabaseShapes DEF DataDirInit
  <2>2. {given, keyFile, keySynced} \subseteq Secrets \union {Missing, Damaged}
    BY DEF DataDirInit
  <2>3. release \in Releases
    BY DEF DataDirInit, Releases
  <2>5. secret \in Keys /\ lastGood \in Keys /\ mislaid \in BOOLEAN
    BY Zenon DEF DataDirInit, Keys
  <2>4. proc = "down" /\ stage = "idle"
    BY DEF DataDirInit
  <2> QED
    BY <2>1, <2>2, <2>3, <2>4, <2>5 DEF DataDirTypes
<1>2. OneSecret /\ NoneWithout
  BY SecretsAssumption DEF DataDirInit, OneSecret, NoneWithout, Found, NoDatabase
<1>3. StartsInOrder /\ CopiesGone /\ BackupOpens
  BY DEF DataDirInit, StartsInOrder, CopiesGone, BackupOpens
<1> QED
  BY <1>1, <1>2, <1>3 DEF DataDirInv

\* A release finds the columns it names, and may leave out what it does not know.
LEMMA ColumnsOf ==
  ASSUME NEW d \in Database, InOrder(d), NEW r \in Releases, r <= d.version
  PROVE  Named(r) \subseteq Columns(d) /\ Columns(d) \ Named(r) \subseteq LeftOut
<1>1. r \in 1..3 /\ d.version \in 1..3 /\ d.applied = 1..d.version
  BY DEF Releases, Database, InOrder
<1>2. ASSUME NEW c \in Named(r) PROVE c \in Columns(d)
  <2>1. Shipped(c) \in 1..r /\ c \in Migrations[Shipped(c)]
    BY <1>1, <1>2
    DEF Named, Shipped, Migrations, StoredSchema, HistorySchema, MeshTables, HistoryTables,
        AlertColumns, CheckColumns
  <2>2. Shipped(c) \in d.applied
    BY <1>1, <2>1
  <2> QED
    BY <2>1, <2>2 DEF Columns
<1>3. ASSUME NEW c \in Columns(d), c \notin Named(r) PROVE c \in LeftOut
  <2>1. PICK i \in 1..3 : c \in Migrations[i]
    BY <1>1, <1>3 DEF Columns
  <2>2. i # 1
    <3>1. SUFFICES ASSUME i = 1 PROVE FALSE
      OBVIOUS
    <3>2. c[2] = "initial" /\ c \in StoredSchema \union HistorySchema
      BY <2>1, <3>1 DEF Migrations, StoredSchema, HistorySchema, MeshTables, HistoryTables
    <3> QED
      BY <1>1, <1>3, <3>2 DEF Named, Shipped
  <2> QED
    BY <2>1, <2>2 DEF Migrations, LeftOut
<1> QED
  BY <1>2, <1>3

\* However the process is killed or the power fails, and whichever release starts
\* on whatever was restored, for any secrets and releases: a controller that runs
\* opens every sealed value and finds every column it names, it refuses to start
\* only without its secret, and of a backup no copy is left.
THEOREM AlwaysDataSurvives == DataDirSpec => []DataSurvives
<1>1. DataDirInv => DataSurvives
  <2> SUFFICES ASSUME DataDirInv PROVE DataSurvives
    OBVIOUS
  <2>1. proc = "running" => Named(release) \subseteq Columns(db) /\
          Columns(db) \ Named(release) \subseteq LeftOut
    BY ColumnsOf DEF DataDirInv, DataDirTypes, StartsInOrder
  <2> QED
    BY <2>1
    DEF DataDirInv, DataDirTypes, OneSecret, NoneWithout, StartsInOrder, CopiesGone,
        DataSurvives
<1> QED
  BY <1>1, DataDirStart, DataDirStep, PTL DEF DataDirSpec

-----------------------------------------------------------------------------
(* The mail password goes to no server but its own *)

Known == Accounts \union {NoServer}

MailTypes ==
    /\ smtp \in [acct : Known, password : Known \union {NoPassword}]
    /\ forms \in [MailTabs -> [open : BOOLEAN, acct : Known, testing : BOOLEAN]]
    /\ puts \in [MailTabs -> [at : {"idle", "sent", "answered"}, acct : Known,
                              typed : BOOLEAN, valid : BOOLEAN]]

\* The password beside an account is its own, in the settings and in an email.
MailInv ==
    /\ MailTypes
    /\ smtp.password # NoPassword => smtp.password = smtp.acct
    /\ PasswordStaysHome

\* An account is its server, port and username.
LEMMA MovedIsOther == \A a, b \in Known : ~Moved(a, b) => a = b
<1>1. \A a \in Known : a = [host |-> a.host, port |-> a.port, user |-> a.user]
  <2>1. NoServer = [host |-> NoServer.host, port |-> NoServer.port, user |-> NoServer.user]
    BY DEF NoServer
  <2> QED
    BY <2>1, AccountsAssumption DEF Known
<1> QED
  BY <1>1 DEF Moved

LEMMA MailStart == MailInit => MailInv
<1> SUFFICES ASSUME MailInit PROVE MailInv
  OBVIOUS
<1>1. NoServer \in Known
  BY DEF Known
<1>2. NotOpen \in [open : BOOLEAN, acct : Known, testing : BOOLEAN]
  BY <1>1 DEF NotOpen
<1>3. NoPut \in [at : {"idle", "sent", "answered"}, acct : Known, typed : BOOLEAN,
                 valid : BOOLEAN]
  BY <1>1 DEF NoPut
<1>4. smtp \in [acct : Known, password : Known \union {NoPassword}]
  BY <1>1 DEF MailInit
<1>5. MailTypes
  BY <1>2, <1>3, <1>4 DEF MailInit, MailTypes
<1> QED
  BY <1>5 DEF MailInit, MailInv, NoMail, PasswordStaysHome

LEMMA MailStep == MailInv /\ [MailNext]_mailVars => MailInv'
<1> SUFFICES ASSUME MailInv, [MailNext]_mailVars PROVE MailInv'
  OBVIOUS
<1>0. CASE UNCHANGED mailVars
  BY <1>0 DEF MailInv, MailTypes, PasswordStaysHome, mailVars
<1>t. /\ NoServer \in Known /\ NotOpen \in [open : BOOLEAN, acct : Known, testing : BOOLEAN]
      /\ NoPut \in [at : {"idle", "sent", "answered"}, acct : Known, typed : BOOLEAN,
                    valid : BOOLEAN]
  BY DEF Known, NotOpen, NoPut
<1>1. ASSUME NEW t \in MailTabs, OpenPage(t) PROVE MailInv'
  BY <1>1, <1>t DEF MailInv, MailTypes, PasswordStaysHome, OpenPage
<1>2. ASSUME NEW t \in MailTabs, ClosePage(t) PROVE MailInv'
  BY <1>2, <1>t DEF MailInv, MailTypes, PasswordStaysHome, ClosePage
<1>3. ASSUME NEW t \in MailTabs, NEW a \in Accounts \union {forms[t].acct}, NEW typed \in BOOLEAN,
             Save(t, a, typed) PROVE MailInv'
  <2>1. a \in Known
    BY DEF MailInv, MailTypes, Known
  <2>2. PICK test \in BOOLEAN, ok \in BOOLEAN :
          /\ forms' = [forms EXCEPT ![t].acct = a, ![t].testing = test]
          /\ puts' = [puts EXCEPT ![t] = [at |-> "sent", acct |-> a, typed |-> typed,
                                          valid |-> ok]]
    BY <1>3 DEF Save
  <2>3. [at |-> "sent", acct |-> a, typed |-> typed, valid |-> ok]
          \in [at : {"idle", "sent", "answered"}, acct : Known, typed : BOOLEAN, valid : BOOLEAN]
    BY <2>1
  <2>5. forms[t] \in [open : BOOLEAN, acct : Known, testing : BOOLEAN]
    BY DEF MailInv, MailTypes
  <2>6. [forms[t] EXCEPT !.acct = a, !.testing = test] \in [open : BOOLEAN, acct : Known,
                                                            testing : BOOLEAN]
    BY <2>1, <2>5
  <2>7. forms' = [forms EXCEPT ![t] = [forms[t] EXCEPT !.acct = a, !.testing = test]]
    BY <2>2 DEF MailInv, MailTypes
  <2>8. forms' \in [MailTabs -> [open : BOOLEAN, acct : Known, testing : BOOLEAN]]
    BY <2>6, <2>7 DEF MailInv, MailTypes
  <2>4. MailTypes'
    BY <1>3, <2>2, <2>3, <2>8 DEF MailInv, MailTypes, Save
  <2> QED
    BY <1>3, <2>4 DEF MailInv, PasswordStaysHome, Save
<1>4. ASSUME NEW t \in MailTabs, Saved(t) PROVE MailInv'
  BY <1>4, <1>t DEF MailInv, MailTypes, PasswordStaysHome, Saved
<1>9. ASSUME NEW t \in MailTabs, TestDone(t) PROVE MailInv'
  BY <1>9 DEF MailInv, MailTypes, PasswordStaysHome, TestDone
<1>5. ASSUME NEW t \in MailTabs, Lost(t) PROVE MailInv'
  BY <1>5, <1>t DEF MailInv, MailTypes, PasswordStaysHome, Lost
<1>6. ASSUME NEW t \in MailTabs, UpdateSmtp(t) PROVE MailInv'
  <2>1. CASE ~puts[t].valid
    BY <1>6, <2>1, <1>t DEF MailInv, MailTypes, PasswordStaysHome, UpdateSmtp
  <2>2. CASE puts[t].valid
    <3>1. puts[t].acct \in Known
      BY DEF MailInv, MailTypes
    <3>2. NextPassword(puts[t]) \in {NoPassword, puts[t].acct}
      BY <3>1, MovedIsOther DEF MailInv, MailTypes, NextPassword
    <3>3. smtp' = [acct |-> puts[t].acct, password |-> NextPassword(puts[t])]
      BY <1>6, <2>2 DEF UpdateSmtp
    <3> QED
      BY <1>6, <1>t, <3>1, <3>2, <3>3 DEF MailInv, MailTypes, PasswordStaysHome, UpdateSmtp
  <2> QED
    BY <2>1, <2>2 DEF MailInv, MailTypes
<1>7. ASSUME NEW t \in MailTabs, SendTestEmail(t) PROVE MailInv'
  <2>1. MailTypes'
    BY <1>7 DEF MailInv, MailTypes, SendTestEmail
  <2>2. PasswordStaysHome'
    <3>1. CASE UNCHANGED sent
      BY <3>1 DEF MailInv, PasswordStaysHome
    <3>2. CASE Mail
      BY <3>2 DEF MailInv, PasswordStaysHome, Mail
    <3> QED
      BY <1>7, <3>1, <3>2 DEF SendTestEmail
  <2> QED
    BY <1>7, <2>1, <2>2 DEF MailInv, SendTestEmail
<1>8. CASE SendAlert
  BY <1>8 DEF MailInv, MailTypes, PasswordStaysHome, SendAlert, Mail
<1> QED
  BY <1>0, <1>1, <1>2, <1>3, <1>4, <1>5, <1>6, <1>7, <1>8, <1>9 DEF MailNext

\* A mail password only ever reaches the account it was typed for, for any number of
\* tabs and accounts.
THEOREM PasswordAlwaysHome == MailSpec => []PasswordStaysHome
<1>1. MailInv => PasswordStaysHome
  BY DEF MailInv
<1> QED
  BY <1>1, MailStart, MailStep, PTL DEF MailSpec

-----------------------------------------------------------------------------
(* Tunnel addresses *)

AddressTypes ==
    /\ gatewayRange \in Ranges /\ clientRange \in Ranges
    /\ gatewayIp \in [Homes -> Nat \union {NoIp}]
    /\ clientIp \in [Devices -> Nat \union {NoIp}]

\* No client has an address in the gateways' range, unless that was moved there.
Apart ==
    /\ ~CidrOverlaps(gatewayRange, clientRange)
    /\ \A c \in Devices \ overlaid : ~CidrContainsIp(gatewayRange, clientIp[c])

AddressesInv == AddressTypes /\ Apart /\ OneAddressEach

\* Of some numbers there is a least.
LEMMA LeastNumber ==
  ASSUME NEW T \in SUBSET Nat, T # {}
  PROVE  \E n \in T : \A m \in T : n <= m
<1>1. \E n \in T : \A m \in T : <<m, n>> \notin OpToRel(<, Nat)
  BY NatLessThanWellFounded, WFMin
<1>2. PICK n \in T : \A m \in T : <<m, n>> \notin OpToRel(<, Nat)
  BY <1>1
<1>3. \A m \in T : ~(m < n)
  BY <1>2 DEF OpToRel
<1> QED
  BY <1>3

\* An address given is a host's of the range that nobody uses.
LEMMA NextFree ==
  ASSUME NEW r \in Ranges, NEW inUse, NextFreeIp(r, inUse) # NoIp
  PROVE  NextFreeIp(r, inUse) \in Nat \ inUse /\ CidrContainsIp(r, NextFreeIp(r, inUse))
<1> DEFINE free == (r.first + 1 .. r.last - 1) \ inUse
<1>1. r.first \in Nat /\ r.last \in Nat
  BY RangesAssumption
<1>2. free \in SUBSET Nat
  BY <1>1
<1>3. free # {}
  BY DEF NextFreeIp
<1>4. \E ip \in free : \A other \in free : ip <= other
  BY <1>2, <1>3, LeastNumber
<1>5. NextFreeIp(r, inUse) \in free
  BY <1>3, <1>4 DEF NextFreeIp
<1> QED
  BY <1>1, <1>5 DEF CidrContainsIp

LEMMA AddressesStart == AddressesInit => AddressesInv
  BY RangesAssumption
  DEF AddressesInit, AddressesInv, AddressTypes, Apart, OneAddressEach, CidrContainsIp

LEMMA AddressesStep == AddressesInv /\ [AddressesNext]_addressVars => AddressesInv'
<1> SUFFICES ASSUME AddressesInv, [AddressesNext]_addressVars PROVE AddressesInv'
  OBVIOUS
<1> USE DEF AddressesInv, AddressTypes
<1>0. CASE UNCHANGED addressVars
  BY <1>0 DEF Apart, OneAddressEach, addressVars
<1>1. ASSUME NEW c \in Devices, ClientJoins(c) PROVE AddressesInv'
  <2> DEFINE ip == NextFreeIp(clientRange, UsedByAny)
  <2>1. ip \in Nat \ UsedByAny /\ CidrContainsIp(clientRange, ip)
    BY <1>1, NextFree DEF ClientJoins
  <2>2. /\ clientIp' = [clientIp EXCEPT ![c] = ip]
        /\ UNCHANGED <<gatewayRange, clientRange, gatewayIp, overlaid>>
    BY <1>1 DEF ClientJoins
  <2> HIDE DEF ip
  <2>3. ~CidrContainsIp(gatewayRange, ip)
    BY <2>1, RangesAssumption DEF Apart, CidrContainsIp, CidrOverlaps
  <2>4. Apart'
    BY <2>2, <2>3 DEF Apart
  <2>5. \A d \in Devices : clientIp[d] # ip
    BY <2>1, RangesAssumption DEF UsedByAny, OfClients
  <2>6. \A s \in Homes : gatewayIp[s] # ip
    BY <2>1, RangesAssumption DEF UsedByAny, OfGateways
  <2>7. OneAddressEach'
    BY <2>2, <2>5, <2>6 DEF OneAddressEach
  <2> QED
    BY <2>1, <2>2, <2>4, <2>7
<1>2. ASSUME NEW c \in Devices, ClientLeaves(c) PROVE AddressesInv'
  BY <1>2 DEF ClientLeaves, Apart, OneAddressEach, CidrContainsIp
<1>3. ASSUME NEW s \in Homes, GatewayJoins(s) PROVE AddressesInv'
  <2>1. CASE gatewayIp[s] # NoIp
    <3>1. UNCHANGED addressVars
      BY <1>3, <2>1 DEF GatewayJoins, IpFor, addressVars
    <3> QED
      BY <1>0, <3>1
  <2>2. CASE gatewayIp[s] = NoIp
    <3> DEFINE ip == NextFreeIp(gatewayRange, OfGateways)
    <3>1. ip # NoIp /\ gatewayIp' = [gatewayIp EXCEPT ![s] = ip]
          /\ UNCHANGED <<gatewayRange, clientRange, clientIp, overlaid>>
      BY <1>3, <2>2 DEF GatewayJoins, IpFor
    <3>2. ip \in Nat \ OfGateways /\ CidrContainsIp(gatewayRange, ip)
      BY <3>1, NextFree
    <3> HIDE DEF ip
    <3>3. \A c \in Devices \ overlaid : clientIp[c] # ip
      BY <3>2 DEF Apart
    <3>4. \A t \in Homes : gatewayIp[t] # ip
      BY <3>2, RangesAssumption DEF OfGateways
    <3>5. OneAddressEach'
      BY <3>1, <3>3, <3>4 DEF OneAddressEach
    <3> QED
      BY <3>1, <3>2, <3>5 DEF Apart
  <2> QED
    BY <2>1, <2>2
<1>4. ASSUME NEW s \in Homes, GatewayLeaves(s) PROVE AddressesInv'
  BY <1>4 DEF GatewayLeaves, Apart, OneAddressEach
<1>5. ASSUME NEW g \in Ranges, NEW c \in Ranges, MoveRanges(g, c) PROVE AddressesInv'
  BY <1>5 DEF MoveRanges, Apart, OneAddressEach
<1> QED
  BY <1>0, <1>1, <1>2, <1>3, <1>4, <1>5 DEF AddressesNext

LEMMA KeepsIp ==
  AddressesInv /\ [AddressesNext]_addressVars =>
    [\A s \in Homes : gatewayIp[s] # NoIp => gatewayIp'[s] \in {gatewayIp[s], NoIp}]_addressVars
<1> SUFFICES ASSUME AddressesInv, AddressesNext, NEW s \in Homes, gatewayIp[s] # NoIp
             PROVE  gatewayIp'[s] \in {gatewayIp[s], NoIp}
  OBVIOUS
<1>1. gatewayIp \in [Homes -> Nat \union {NoIp}]
  BY DEF AddressesInv, AddressTypes
<1>2. ASSUME NEW t \in Homes, GatewayJoins(t) PROVE gatewayIp'[s] = gatewayIp[s]
  BY <1>1, <1>2 DEF GatewayJoins, IpFor
<1>3. ASSUME NEW t \in Homes, GatewayLeaves(t) PROVE gatewayIp'[s] \in {gatewayIp[s], NoIp}
  BY <1>1, <1>3 DEF GatewayLeaves
<1> QED
  BY <1>2, <1>3 DEF AddressesNext, ClientJoins, ClientLeaves, MoveRanges

\* No two gateways and no two clients have the same tunnel address, no gateway has
\* a client's unless the gateways' range was moved over it, and a replaced gateway's
\* site keeps its address, for any ranges and however they move.
THEOREM AddressesAlwaysHold == AddressesSpec => AddressesHold
<1>1. AddressesInv => OneAddressEach
  BY DEF AddressesInv
<1> QED
  BY <1>1, AddressesStart, AddressesStep, KeepsIp, PTL
  DEF AddressesSpec, AddressesHold, ReplacementKeepsIp

-----------------------------------------------------------------------------
(* An installation is all there or not there *)

Disks == [key : Nat \union {Absent}, cred : Nat \union {Absent}, conf : BOOLEAN,
          bin : Versions \union {Absent}, staged : Versions \union {Absent}, enabled : BOOLEAN]
Steps == {"none", "checked", "staged", "keyed", "answered", "stored", "saved", "swapped",
          "refused", "done"}

Runs == [step : Steps, upgrade : BOOLEAN, token : InstallTokens \union {Absent},
         spent : BOOLEAN, cred : Nat,
         was : [disk : Disks, agent : Versions \union {Absent}]]

InstallTypes ==
    /\ disk \in Disks
    /\ inst \in Runs /\ agent \in Versions \union {Absent} /\ issued \in Nat

\* Until its token is spent a run has changed nothing but what is staged, and the
\* agent in an upgrade, which never spends one and keeps key and credential.
NothingYet ==
    /\ inst.step # "none" /\ ~At("done") /\ ~inst.spent =>
         SameGateway(disk, inst.was.disk) /\ (disk.bin = inst.was.disk.bin \/ inst.upgrade)
    /\ inst.upgrade =>
         /\ inst.step \in {"checked", "staged", "swapped", "refused", "done"} /\ ~inst.spent
         /\ ~At("refused") =>
              disk.conf /\ disk.key = inst.was.disk.key /\ disk.cred = inst.was.disk.cred

\* How far an enrolment has come, and what the controller has for the site by then.
InstallInOrder ==
    /\ inst.step \in {"answered", "stored", "saved"} => inst.spent
    /\ At("swapped") \/ At("done") => inst.spent \/ inst.upgrade
    /\ inst.step \in {"staged", "keyed", "answered", "stored", "saved"} => disk.staged = "new"
    /\ At("swapped") \/ At("done") => disk.bin = "new" /\ disk.conf
    /\ At("saved") => disk.conf
    /\ At("answered") => registered = [cred |-> inst.cred, key |-> disk.key]
    /\ ~inst.upgrade /\ inst.step \in {"stored", "saved", "swapped", "done"} =>
         registered = [cred |-> disk.cred, key |-> disk.key]
    /\ At("done") => agent = "new" /\ disk.enabled

InstallInv == InstallTypes /\ NothingYet /\ InstallInOrder

LEMMA NoneTypes == NewMachine \in Disks /\ NoRun \in Runs
<1>1. NewMachine \in Disks
  BY DEF NewMachine, Disks
<1> QED
  BY <1>1 DEF NoRun, Runs, Steps

LEMMA InstallStart == InstallInit => InstallInv
<1> SUFFICES ASSUME InstallInit PROVE InstallInv
  OBVIOUS
<1>1. [key |-> 1, cred |-> 1, conf |-> TRUE, bin |-> "old", staged |-> Absent,
       enabled |-> TRUE] \in Disks
  BY DEF Disks, Versions
<1>2. NoRun \in Runs
  BY NoneTypes
<1>3. disk \in Disks
  BY <1>1, NoneTypes DEF InstallInit
<1>4. InstallTypes
  BY <1>2, <1>3 DEF InstallInit, InstallTypes, Versions
<1>5. inst.step = "none" /\ ~inst.upgrade
  BY DEF InstallInit, NoRun
<1> QED
  BY <1>4, <1>5 DEF InstallInv, NothingYet, InstallInOrder, At

LEMMA InstallStep == InstallInv /\ [InstallNext]_installVars => InstallInv'
<1> SUFFICES ASSUME InstallInv, [InstallNext]_installVars PROVE InstallInv'
  OBVIOUS
<1> USE DEF InstallInv
<1>0. CASE UNCHANGED installVars
  BY <1>0 DEF InstallTypes, NothingYet, InstallInOrder, At, installVars
<1>1. ASSUME NEW upgrade \in BOOLEAN, NEW t \in InstallTokens \union {Absent},
               StartInstall(upgrade, t)
      PROVE  InstallInv'
  <2>1. InstallTypes'
    <3>1. [disk |-> disk, agent |-> agent] \in [disk : Disks, agent : Versions \union {Absent}]
      BY DEF InstallTypes
    <3> DEFINE was == [disk |-> disk, agent |-> agent]
               step == IF upgrade /\ ~(disk.conf /\ disk.key # Absent) THEN "refused"
                 ELSE "checked"
    <3>2. step \in Steps
      BY DEF Steps
    <3>3. inst' = [NoRun EXCEPT !.step = step, !.upgrade = upgrade, !.token = t, !.was = was]
      BY <1>1 DEF StartInstall
    <3> HIDE DEF was, step
    <3>4. was \in [disk : Disks, agent : Versions \union {Absent}]
      BY <3>1 DEF was
    <3>5. inst' \in Runs
      BY <3>2, <3>3, <3>4, NoneTypes DEF Runs
    <3> QED
      BY <1>1, <3>5 DEF StartInstall, InstallTypes
  <2>2. NothingYet'
    BY <1>1, InstallAssumption DEF StartInstall, At, SameGateway, NothingYet, NoRun, NewMachine
  <2>3. InstallInOrder'
    BY <1>1, InstallAssumption DEF StartInstall, At, InstallInOrder, NewMachine
  <2> QED
    BY <2>1, <2>2, <2>3
<1>2. CASE StepFails
  <2>1. InstallTypes'
    BY <1>2, InstallAssumption DEF StepFails, Goes, Runs, Steps, InstallTypes
  <2>2. NothingYet'
    BY <1>2, InstallAssumption DEF StepFails, At, Going, Goes, NothingYet
  <2>3. InstallInOrder'
    BY <1>2, InstallAssumption DEF StepFails, At, Goes, InstallInOrder
  <2> QED
    BY <2>1, <2>2, <2>3
<1>3. CASE StageBinary
  <2>1. InstallTypes'
    BY <1>3, InstallAssumption DEF StageBinary, Goes, Disks, Runs, Steps, Versions, InstallTypes
  <2>2. NothingYet'
    BY <1>3, InstallAssumption
    DEF StageBinary, At, Goes, SameGateway, Disks, Runs, InstallTypes, NothingYet
  <2>3. InstallInOrder'
    BY <1>3, InstallAssumption
    DEF StageBinary, At, Goes, Disks, Runs, InstallTypes, InstallInOrder
  <2> QED
    BY <2>1, <2>2, <2>3
<1>4. CASE MakeKey
  <2>1. InstallTypes'
    BY <1>4, InstallAssumption DEF MakeKey, Goes, Disks, Runs, Steps, InstallTypes
  <2>2. NothingYet'
    BY <1>4, InstallAssumption
    DEF MakeKey, At, Goes, SameGateway, Disks, Runs, InstallTypes, NothingYet
  <2>3. InstallInOrder'
    BY <1>4, InstallAssumption DEF MakeKey, At, Goes, Disks, Runs, InstallTypes, InstallInOrder
  <2> QED
    BY <2>1, <2>2, <2>3
<1>5. CASE EnrolRefused
  <2>1. InstallTypes'
    BY <1>5, InstallAssumption DEF EnrolRefused, Goes, Disks, Runs, Steps, InstallTypes
  <2>2. NothingYet'
    BY <1>5, InstallAssumption DEF EnrolRefused, At, Goes, SameGateway, NothingYet
  <2>3. InstallInOrder'
    BY <1>5, InstallAssumption DEF EnrolRefused, At, Goes, InstallInOrder
  <2> QED
    BY <2>1, <2>2, <2>3
<1>6. CASE EnrolAnswered
  <2>1. /\ issued' \in Nat /\ issued' = issued + 1
        /\ registered' = [cred |-> issued', key |-> disk.key] /\ UNCHANGED agent
    BY <1>6 DEF EnrolAnswered, InstallTypes
  <2>2. CASE /\ inst' = [inst EXCEPT !.step = "answered", !.spent = TRUE, !.cred = issued + 1]
             /\ UNCHANGED disk
    <3>1. /\ inst' \in Runs /\ inst'.step = "answered" /\ inst'.spent /\ inst'.cred = issued'
          /\ inst'.upgrade = inst.upgrade
      BY <2>1, <2>2 DEF InstallTypes, Runs, Steps
    <3>2. InstallTypes'
      BY <2>1, <2>2, <3>1 DEF InstallTypes
    <3> QED
      BY <1>6, <2>1, <2>2, <3>1, <3>2 DEF EnrolAnswered, At, NothingYet, InstallInOrder
  <2>3. CASE /\ inst' = [inst EXCEPT !.step = "refused", !.spent = TRUE]
             /\ disk' = [disk EXCEPT !.staged = Absent]
    <3>1. inst' \in Runs /\ inst'.step = "refused" /\ inst'.spent /\ inst'.upgrade = inst.upgrade
      BY <2>3 DEF InstallTypes, Runs, Steps
    <3>2. InstallTypes'
      BY <2>1, <2>3, <3>1 DEF InstallTypes, Disks
    <3> QED
      BY <1>6, <2>1, <2>3, <3>1, <3>2 DEF EnrolAnswered, At, NothingYet, InstallInOrder
  <2> QED
    BY <1>6, <2>2, <2>3 DEF EnrolAnswered
<1>7. CASE StoreCredential
  <2>1. InstallTypes'
    BY <1>7, InstallAssumption DEF StoreCredential, Goes, Disks, Runs, Steps, InstallTypes
  <2>2. NothingYet'
    BY <1>7, InstallAssumption DEF StoreCredential, At, Goes, NothingYet, InstallInOrder
  <2>3. InstallInOrder'
    BY <1>7, InstallAssumption DEF StoreCredential, At, Goes, InstallInOrder
  <2> QED
    BY <2>1, <2>2, <2>3
<1>8. CASE SaveConfig
  <2>1. InstallTypes'
    BY <1>8, InstallAssumption
    DEF SaveConfig, At, Going, Goes, SameGateway, Disks, Runs, Steps, Versions, InstallTypes
  <2>2. NothingYet'
    BY <1>8, InstallAssumption DEF SaveConfig, At, Going, Goes, NothingYet, InstallInOrder
  <2>3. InstallInOrder'
    BY <1>8, InstallAssumption DEF SaveConfig, At, Goes, InstallInOrder
  <2> QED
    BY <2>1, <2>2, <2>3
<1>9. CASE SwapBinary
  <2>1. InstallTypes'
    BY <1>9, InstallAssumption
    DEF SwapBinary, At, Going, Goes, SameGateway, Disks, Runs, Steps, Versions, InstallTypes
  <2>2. NothingYet'
    BY <1>9, InstallAssumption DEF SwapBinary, At, Goes, SameGateway, NothingYet, InstallInOrder
  <2>3. InstallInOrder'
    BY <1>9, InstallAssumption DEF SwapBinary, At, Goes, NothingYet, InstallInOrder
  <2> QED
    BY <2>1, <2>2, <2>3
<1>10. CASE StartServices
  <2>1. InstallTypes'
    BY <1>10, InstallAssumption
    DEF StartServices, At, Going, Goes, SameGateway, Disks, Runs, Steps, Versions, InstallTypes
  <2>2. NothingYet'
    BY <1>10, InstallAssumption DEF StartServices, At, Goes, NothingYet
  <2>3. InstallInOrder'
    BY <1>10, InstallAssumption DEF StartServices, At, Goes, InstallInOrder
  <2> QED
    BY <2>1, <2>2, <2>3
<1>11. CASE PowerLost
  <2>1. InstallTypes'
    BY <1>11, InstallAssumption DEF PowerLost, Disks, Runs, Steps, InstallTypes
  <2>2. NothingYet'
    BY <1>11, InstallAssumption DEF PowerLost, At, Going, NothingYet
  <2>3. InstallInOrder'
    BY <1>11, InstallAssumption DEF PowerLost, At, InstallInOrder
  <2> QED
    BY <2>1, <2>2, <2>3
<1> QED
  BY <1>0, <1>1, <1>2, <1>3, <1>4, <1>5, <1>6, <1>7, <1>8, <1>9, <1>10, <1>11 DEF InstallNext

\* A run of the installer that ends well leaves a working agent, and one that gives
\* up has left the gateway as it was, whatever earlier runs left half done and
\* whichever step fails.
THEOREM AlwaysAllOrNothing == InstallSpec => []AllOrNothing
<1>1. InstallInv => AllOrNothing
  BY DEF InstallInv, NothingYet, InstallInOrder, At, AllOrNothing, RefusedLeavesAlone,
         DoneMeansWorking
<1> QED
  BY <1>1, InstallStart, InstallStep, PTL DEF InstallSpec

-----------------------------------------------------------------------------
(* Health checks: what is shown was found *)

Slots == {1, 2}
Moments == Nat \union {Unset}
GatewayRow == [active : BOOLEAN, requested : Moments, answered : Moments,
               kept : [id : Nat, began : Nat] \union {Unset}]
CheckRun == [id : Nat, began : Nat, todo : SUBSET Remote, probing : Remote \union {Unset},
             posted : BOOLEAN,
             found : [Remote -> {"untested", "pass", "fail", "warn"}]]
Answers == [id : Nat, began : Nat, row : GatewayRow \union {Unset}]

ChecksTypes ==
    /\ now \in Nat /\ row \in GatewayRow /\ posts \subseteq Answers
    /\ report # Unset => report \in [row : GatewayRow, at : Nat]
    /\ run \in [Slots -> CheckRun \union {Unset}] /\ busy \in BOOLEAN

\* No time read or kept lies ahead of the clock, and a run, and with it what it
\* posts, began no sooner than its request was made.
InTime ==
    /\ row.requested # Unset => row.requested <= now
    /\ row.answered # Unset => row.answered <= now
    /\ report # Unset => (report.row.requested # Unset => report.row.requested <= now)
    /\ \A r \in Slots : run[r] # Unset => run[r].id <= run[r].began /\ run[r].began <= now
    /\ \A p \in posts : p.id <= p.began

\* One run at a time, and the network it probes is steered to the router.
OneRun ==
    /\ \A r \in Slots : run[r] # Unset => busy
    /\ \A r, s \in Slots : run[r] # Unset /\ run[s] # Unset => r = s
    /\ \A r \in Slots : run[r] # Unset /\ run[r].probing # Unset => run[r].probing \in steered

ChecksInv == ChecksTypes /\ InTime /\ OneRun /\ KeptIsAnswer

LEMMA UnsetIsOther == Unset \notin Nat /\ Unset \notin Remote
  BY ChecksAssumption

LEMMA ChecksStart == ChecksInit => ChecksInv
<1> SUFFICES ASSUME ChecksInit PROVE ChecksInv
  OBVIOUS
<1>1. row \in GatewayRow
  BY DEF ChecksInit, GatewayRow, Moments
<1> QED
  BY <1>1 DEF ChecksInit, ChecksInv, ChecksTypes, InTime, OneRun, KeptIsAnswer, Answered, Slots

LEMMA NewRunTypes ==
    ASSUME NEW id \in Nat, NEW nets \in Confined, now \in Nat
    PROVE  NewRun(id, nets) \in CheckRun /\ NewRun(id, nets).probing = Unset
             /\ NewRun(id, nets).id = id /\ NewRun(id, nets).began = now
<1>1. Untested \in [Remote -> {"untested", "pass", "fail", "warn"}]
  BY DEF Untested
<1> QED
  BY <1>1 DEF NewRun, CheckRun, Confined

LEMMA ChecksStep == ChecksInv /\ [ChecksNext]_checksVars => ChecksInv'
<1> SUFFICES ASSUME ChecksInv, [ChecksNext]_checksVars PROVE ChecksInv'
  OBVIOUS
<1> USE DEF ChecksInv
<1>0. CASE UNCHANGED checksVars
  BY <1>0
  DEF ChecksTypes, InTime, OneRun, KeptIsAnswer, Answered, checksVars, controllerSide, agentSide
<1>1. CASE RequestDiagnostics
  <2>1. /\ row' = [row EXCEPT !.requested = now] /\ now' = now
        /\ UNCHANGED <<report, run, busy, posts, steered>>
    BY <1>1 DEF RequestDiagnostics, agentSide
  <2>2. row' \in GatewayRow /\ row'.requested = now /\ row'.answered = row.answered
    BY <2>1 DEF ChecksTypes, GatewayRow, Moments
  <2>3. KeptIsAnswer'
    <3>1. row.answered # Unset => row.answered \in Nat /\ row.answered <= now
      BY DEF ChecksTypes, GatewayRow, Moments, InTime
    <3> QED
      BY <2>1, <2>2, <3>1 DEF ChecksTypes, KeptIsAnswer, Answered
  <2>4. InTime'
    BY <2>1, <2>2 DEF InTime, ChecksTypes
  <2> QED
    BY <2>1, <2>2, <2>3, <2>4 DEF ChecksTypes, OneRun
<1>2. CASE SwitchGateway
  <2>1. UNCHANGED <<now, report, run, busy, posts, steered>> /\ row' = [row EXCEPT !.active = ~@]
    BY <1>2 DEF SwitchGateway, agentSide
  <2>2. /\ row' \in GatewayRow /\ row'.requested = row.requested /\ row'.answered = row.answered
        /\ row'.kept = row.kept
    BY <2>1 DEF ChecksTypes, GatewayRow
  <2> QED
    BY <2>1, <2>2 DEF ChecksTypes, InTime, OneRun, KeptIsAnswer, Answered
<1>3. CASE TimePasses
  <2>1. now' = now + 1 /\ UNCHANGED <<row, report, run, busy, posts, steered>>
    BY <1>3 DEF TimePasses, agentSide
  <2>2. InTime'
    BY <2>1 DEF InTime, ChecksTypes, GatewayRow, Moments, CheckRun
  <2> QED
    BY <2>1, <2>2 DEF ChecksTypes, OneRun, KeptIsAnswer, Answered
<1>4. CASE ReportArrives
  <2>1. report' = [row |-> row, at |-> now] /\ UNCHANGED <<now, row, run, busy, posts, steered>>
    BY <1>4 DEF ReportArrives, controllerSide, agentSide
  <2> QED
    BY <2>1 DEF ChecksTypes, InTime, OneRun, KeptIsAnswer, Answered
<1>5. CASE ReportAnswered
  <2>1. report # Unset /\ report' = Unset /\ UNCHANGED <<now, row, posts, steered>>
    BY <1>5 DEF ReportAnswered, controllerSide
  <2>2. CASE UNCHANGED agentSide
    BY <2>1, <2>2 DEF ChecksTypes, InTime, OneRun, KeptIsAnswer, Answered, agentSide
  <2>3. CASE report.row.requested # Unset /\ ~busy /\ busy' = TRUE /\
             \E nets \in Confined :
               run' = [run EXCEPT ![CHOOSE r \in Slots : run[r] = Unset] =
                                    NewRun(report.row.requested, nets)]
    <3> DEFINE id == report.row.requested
               slot == CHOOSE r \in Slots : run[r] = Unset
    <3>1. id \in Nat /\ id <= now
      BY <2>1, <2>3 DEF ChecksTypes, GatewayRow, Moments, InTime
    <3>2. PICK nets \in Confined : run' = [run EXCEPT ![slot] = NewRun(id, nets)]
      BY <2>3
    <3>3. \A r \in Slots : run[r] = Unset
      BY <2>3 DEF OneRun
    <3>4. slot \in Slots
      BY <3>3 DEF Slots
    <3> HIDE DEF id, slot
    <3>5. /\ NewRun(id, nets) \in CheckRun /\ NewRun(id, nets).probing = Unset
          /\ NewRun(id, nets).id = id /\ NewRun(id, nets).began = now
      BY <3>1, NewRunTypes DEF ChecksTypes
    <3>6. \A r \in Slots : run'[r] # Unset => r = slot /\ run'[r] = NewRun(id, nets)
      BY <3>2, <3>3, <3>4 DEF ChecksTypes
    <3>7. run' \in [Slots -> CheckRun \union {Unset}]
      BY <3>2, <3>4, <3>5 DEF ChecksTypes
    <3>8. OneRun'
      BY <2>1, <2>3, <3>5, <3>6 DEF OneRun
    <3>9. InTime'
      BY <2>1, <3>1, <3>5, <3>6 DEF InTime, ChecksTypes
    <3> QED
      BY <2>1, <2>3, <3>7, <3>8, <3>9 DEF ChecksTypes, KeptIsAnswer, Answered
  <2> QED
    BY <1>5, <2>2, <2>3 DEF ReportAnswered, DispatchDiagnostics, IsPending, Slots
<1>6. CASE ReportLost
  BY <1>6
  DEF ReportLost, ChecksTypes, InTime, OneRun, KeptIsAnswer, Answered, controllerSide, agentSide
<1>7. CASE KillAgent
  <2>1. /\ run' = [r \in Slots |-> Unset] /\ busy' = FALSE /\ report' = Unset
        /\ UNCHANGED <<now, row, posts, steered>>
    BY <1>7 DEF KillAgent, controllerSide, Slots
  <2> QED
    BY <2>1 DEF ChecksTypes, InTime, OneRun, KeptIsAnswer, Answered
<1>8. ASSUME NEW n \in Remote, RouterChanges(n) PROVE ChecksInv'
  BY <1>8
  DEF RouterChanges, ChecksTypes, InTime, OneRun, KeptIsAnswer, Answered, controllerSide,
      agentSide
\* A run goes on: what it was asked, and when it began, stay.
<1>g. ASSUME NEW r \in Slots, run[r] # Unset, NEW new \in CheckRun,
               run' = [run EXCEPT ![r] = new],
             new.id = run[r].id, new.began = run[r].began, UNCHANGED <<now, row, report, busy>>,
             new.probing # Unset => new.probing \in steered', posts' \subseteq Answers,
             \A p \in posts' : p.id <= p.began
      PROVE  ChecksInv'
  <2>1. run[r] \in CheckRun
    BY <1>g DEF ChecksTypes
  <2>2. \A s \in Slots : s # r => run[s] = Unset
    BY <1>g DEF OneRun
  <2>3. run'[r] = new /\ \A s \in Slots : s # r => run'[s] = Unset
    BY <1>g, <2>2 DEF ChecksTypes
  <2>4. run' \in [Slots -> CheckRun \union {Unset}]
    BY <1>g DEF ChecksTypes
  <2>5. InTime'
    BY <1>g, <2>3 DEF InTime
  <2>6. OneRun'
    BY <1>g, <2>3 DEF OneRun
  <2> QED
    BY <1>g, <2>4, <2>5, <2>6 DEF ChecksTypes, KeptIsAnswer, Answered
<1>9. ASSUME NEW r \in Slots, NEW n \in Remote, ProbeBegins(r, n) PROVE ChecksInv'
  <2>1. run[r] \in CheckRun /\ run[r] # Unset
    BY <1>9 DEF ProbeBegins, ChecksTypes
  <2>2. UNCHANGED <<now, row, report, busy, posts>>
    BY <1>9 DEF ProbeBegins, controllerSide
  <2>3. CASE run' = [run EXCEPT ![r].probing = n] /\ steered' = steered \union {n}
    <3> DEFINE new == [run[r] EXCEPT !.probing = n]
    <3>1. new \in CheckRun /\ new.id = run[r].id /\ new.began = run[r].began /\ new.probing = n
      BY <2>1 DEF CheckRun
    <3>2. run' = [run EXCEPT ![r] = new]
      BY <2>3
    <3> HIDE DEF new
    <3>3. new.probing # Unset => new.probing \in steered'
      BY <2>3, <3>1
    <3> QED
      BY <1>g, <2>1, <2>2, <3>1, <3>2, <3>3 DEF ChecksTypes, InTime
  <2>4. CASE /\ run' = [run EXCEPT ![r].todo = @ \ {n}, ![r].found[n] = "warn"]
             /\ run[r].probing = Unset
    <3> DEFINE new == [run[r] EXCEPT !.todo = @ \ {n}, !.found[n] = "warn"]
    <3>1. new \in CheckRun /\ new.id = run[r].id /\ new.began = run[r].began /\
            new.probing = Unset
      BY <2>1, <2>4 DEF CheckRun
    <3>2. run' = [run EXCEPT ![r] = new]
      BY <2>4 DEF ChecksTypes
    <3> QED
      BY <1>g, <2>1, <2>2, <3>1, <3>2 DEF ChecksTypes, InTime
  <2> QED
    BY <1>9, <2>3, <2>4 DEF ProbeBegins
<1>10. ASSUME NEW r \in Slots, ProbeEnds(r) PROVE ChecksInv'
  <2>1. run[r] \in CheckRun /\ run[r] # Unset /\ run[r].probing \in Remote
    BY <1>10 DEF ProbeEnds, ChecksTypes, CheckRun
  <2>2. UNCHANGED <<now, row, report, busy, posts>>
    BY <1>10 DEF ProbeEnds, controllerSide
  <2> DEFINE n == run[r].probing
             verdict == IF ComesBack(n) THEN "pass" ELSE "fail"
             new == [run[r] EXCEPT !.probing = Unset, !.todo = @ \ {n}, !.found[n] = verdict]
  <2>3. verdict \in {"pass", "fail"}
    OBVIOUS
  <2>4. run' = [run EXCEPT ![r].probing = Unset, ![r].todo = @ \ {n}, ![r].found[n] = verdict]
    BY <1>10 DEF ProbeEnds
  <2> HIDE DEF verdict
  <2>5. new \in CheckRun /\ new.id = run[r].id /\ new.began = run[r].began /\ new.probing = Unset
    BY <2>1, <2>3 DEF CheckRun
  <2>6. run' = [run EXCEPT ![r] = new]
    BY <2>4 DEF ChecksTypes
  <2> QED
    BY <1>g, <2>1, <2>2, <2>5, <2>6 DEF ChecksTypes, InTime
<1>11. ASSUME NEW r \in Slots, SendAnswer(r) PROVE ChecksInv'
  <2>1. run[r] \in CheckRun /\ run[r] # Unset
    BY <1>11 DEF SendAnswer, ChecksTypes
  <2>2. UNCHANGED <<now, row, report, busy, steered>>
    BY <1>11 DEF SendAnswer, controllerSide
  <2> DEFINE new == [run[r] EXCEPT !.posted = TRUE, !.found = Untested]
             post == [id |-> run[r].id, began |-> run[r].began, row |-> Unset]
  <2>3. /\ new \in CheckRun /\ new.id = run[r].id /\ new.began = run[r].began
        /\ new.probing = run[r].probing
    BY <2>1 DEF CheckRun, Untested
  <2>4. run' = [run EXCEPT ![r] = new] /\ posts' = posts \union {post}
    BY <1>11 DEF SendAnswer
  <2>5. post \in Answers /\ post.id <= post.began
    BY <2>1 DEF Answers, CheckRun, InTime
  <2>6. new.probing # Unset => new.probing \in steered'
    BY <2>1, <2>2, <2>3 DEF OneRun
  <2> QED
    BY <1>g, <2>1, <2>2, <2>3, <2>4, <2>5, <2>6 DEF ChecksTypes, InTime
<1>12. ASSUME NEW r \in Slots, RunEnds(r) PROVE ChecksInv'
  <2>1. /\ run[r] # Unset /\ run' = [run EXCEPT ![r] = Unset] /\ busy' = FALSE
        /\ UNCHANGED <<now, row, report, posts>>
    BY <1>12 DEF RunEnds, controllerSide
  <2>2. \A s \in Slots : run'[s] = Unset
    BY <2>1 DEF OneRun, ChecksTypes
  <2>3. run' \in [Slots -> CheckRun \union {Unset}]
    BY <2>1 DEF ChecksTypes
  <2> QED
    BY <2>1, <2>2, <2>3 DEF ChecksTypes, InTime, OneRun, KeptIsAnswer, Answered
<1>13. ASSUME NEW p \in posts, PostArrives(p) PROVE ChecksInv'
  <2>1. UNCHANGED <<now, row, report, run, busy, steered>>
    BY <1>13 DEF PostArrives, controllerSide, agentSide
  <2>2. /\ [p EXCEPT !.row = row] \in Answers /\ [p EXCEPT !.row = row].id = p.id
        /\ [p EXCEPT !.row = row].began = p.began
    BY DEF ChecksTypes, Answers
  <2>3. posts' \subseteq posts \union {[p EXCEPT !.row = row]}
    BY <1>13 DEF PostArrives
  <2>4. posts' \subseteq Answers /\ \A q \in posts' : q.id <= q.began
    BY <2>2, <2>3 DEF ChecksTypes, InTime
  <2> QED
    BY <2>1, <2>4 DEF ChecksTypes, InTime, OneRun, KeptIsAnswer, Answered
<1>14. ASSUME NEW p \in posts, StoreAgentReport(p) PROVE ChecksInv'
  <2>1. posts' = posts \ {p} /\ UNCHANGED <<now, report, run, busy, steered>>
    BY <1>14 DEF StoreAgentReport, agentSide
  <2>2. CASE row' = row
    BY <2>1, <2>2 DEF ChecksTypes, InTime, OneRun, KeptIsAnswer, Answered
  <2>3. CASE /\ AwaitingAgentReport(p.row, now) /\ p.id = p.row.requested
             /\ row.requested = p.row.requested
             /\ row' = [row EXCEPT !.kept = [id |-> p.id, began |-> p.began], !.answered = now]
    <3>1. p.id \in Nat /\ p.began \in Nat /\ p.id <= p.began /\ now \in Nat
      BY DEF ChecksTypes, Answers, InTime
    <3>2. [id |-> p.id, began |-> p.began] \in [id : Nat, began : Nat]
      BY <3>1
    <3>3. /\ row' \in GatewayRow /\ row'.requested = row.requested /\ row'.answered = now
          /\ row'.kept = [id |-> p.id, began |-> p.began]
      BY <2>3, <3>1, <3>2 DEF ChecksTypes, GatewayRow, Moments
    <3>4. InTime'
      BY <2>1, <3>1, <3>3 DEF InTime
    <3>5. KeptIsAnswer'
      BY <2>3, <3>1, <3>3 DEF KeptIsAnswer
    <3> QED
      BY <2>1, <3>3, <3>4, <3>5 DEF ChecksTypes, OneRun
  <2> QED
    BY <1>14, <2>2, <2>3 DEF StoreAgentReport
<1>15. ASSUME NEW p \in posts, PostLost(p) PROVE ChecksInv'
  BY <1>15
  DEF PostLost, ChecksTypes, InTime, OneRun, KeptIsAnswer, Answered, controllerSide, agentSide
<1> QED
  BY <1>0, <1>1, <1>2, <1>3, <1>4, <1>5, <1>6, <1>7, <1>8, <1>9, <1>10, <1>11, <1>12, <1>13,
     <1>14, <1>15
     DEF ChecksNext, Slots

VerdictsStayTrue ==
    \A r \in {1, 2}, n \in Remote :
      run[r] # Unset /\ run'[r] # Unset /\ run[r].found[n] = "untested" =>
          /\ run'[r].found[n] = "pass" => n \in routed
          /\ run'[r].found[n] = "fail" => n \notin routed

\* The probe that ends was steered, and is never addressed to the gateway itself.
LEMMA VerdictStep == ChecksInv /\ [ChecksNext]_checksVars => VerdictsStayTrue
<1> SUFFICES ASSUME ChecksInv, [ChecksNext]_checksVars, NEW r \in Slots, NEW n \in Remote,
                    run[r] # Unset, run'[r] # Unset, run[r].found[n] = "untested"
             PROVE  /\ run'[r].found[n] = "pass" => n \in routed
                    /\ run'[r].found[n] = "fail" => n \notin routed
  BY DEF VerdictsStayTrue, Slots
<1>r. run \in [Slots -> CheckRun \union {Unset}] /\ run[r] \in CheckRun
  BY DEF ChecksInv, ChecksTypes
<1>1. CASE run' = run
  BY <1>1
<1>2. CASE ReportAnswered
  <2>1. CASE UNCHANGED run
    BY <2>1
  <2>2. CASE ~busy
    BY <2>2 DEF ChecksInv, OneRun
  <2> QED
    BY <1>2, <2>1, <2>2 DEF ReportAnswered, DispatchDiagnostics, agentSide
<1>3. CASE KillAgent
  BY <1>3 DEF KillAgent, Slots
<1>4. ASSUME NEW s \in Slots, NEW m \in Remote, ProbeBegins(s, m)
      PROVE  run'[r].found[n] \in {"untested", "warn"}
  <2>1. CASE run' = [run EXCEPT ![s].probing = m]
    BY <1>r, <2>1 DEF CheckRun
  <2>2. CASE run' = [run EXCEPT ![s].todo = @ \ {m}, ![s].found[m] = "warn"]
    BY <1>r, <2>2 DEF CheckRun
  <2> QED
    BY <1>4, <2>1, <2>2 DEF ProbeBegins
<1>5. ASSUME NEW s \in Slots, ProbeEnds(s)
      PROVE  /\ run'[r].found[n] = "pass" => n \in routed
             /\ run'[r].found[n] = "fail" => n \notin routed
  <2> DEFINE m == run[s].probing
             verdict == IF ComesBack(m) THEN "pass" ELSE "fail"
  <2>1. run[s] # Unset /\ m # Unset /\ run[s] \in CheckRun
    BY <1>5, <1>r DEF ProbeEnds
  <2>2. run' = [run EXCEPT ![s].probing = Unset, ![s].todo = @ \ {m}, ![s].found[m] = verdict]
    BY <1>5 DEF ProbeEnds
  <2>3. m \in steered /\ m \in Remote
    BY <2>1 DEF ChecksInv, OneRun, CheckRun
  <2>4. ComesBack(m) <=> m \in routed
    BY <2>3 DEF ComesBack, ProbeIpFor
  <2>5. (verdict = "pass" => m \in routed) /\ (verdict = "fail" => m \notin routed)
    BY <2>4
  <2> HIDE DEF m, verdict
  <2>6. CASE s = r /\ m = n
    <3>1. run'[r].found[n] = verdict
      BY <1>r, <2>2, <2>6 DEF CheckRun
    <3> QED
      BY <2>5, <2>6, <3>1
  <2>7. CASE ~(s = r /\ m = n)
    <3>1. run'[r].found[n] = run[r].found[n]
      BY <1>r, <2>2, <2>7 DEF CheckRun
    <3> QED
      BY <3>1
  <2> QED
    BY <2>6, <2>7
<1>6. ASSUME NEW s \in Slots, SendAnswer(s) PROVE run'[r].found[n] = "untested"
  BY <1>6, <1>r DEF SendAnswer, CheckRun, Untested
<1>7. ASSUME NEW s \in Slots, RunEnds(s) PROVE run'[r].found[n] = "untested"
  BY <1>7, <1>r DEF RunEnds
<1> QED
  BY <1>1, <1>2, <1>3, <1>4, <1>5, <1>6, <1>7
     DEF ChecksNext, Slots, checksVars, agentSide, RequestDiagnostics, SwitchGateway,
           TimePasses, ReportArrives,
         ReportLost, RouterChanges, PostArrives, StoreAgentReport, PostLost

\* What the page shows of a health check is what a run found that began after it
\* was asked for, and a verdict on the site's router was true when reached, for any
\* number of networks, requests and kills and any waits.
THEOREM AlwaysShownIsFound == ChecksSpec => ShownIsFound
<1>1. ChecksInv => KeptIsAnswer
  BY DEF ChecksInv
<1>2. ChecksInv /\ [ChecksNext]_checksVars => [VerdictsStayTrue]_checksVars
  BY VerdictStep
<1>3. ChecksSpec => []ChecksInv
  BY ChecksStart, ChecksStep, PTL DEF ChecksSpec
<1>4. ChecksSpec => [][VerdictsStayTrue]_checksVars
  BY <1>2, <1>3, PTL DEF ChecksSpec
<1>5. ChecksSpec => RouterVerdictIsTrue
  BY <1>4 DEF RouterVerdictIsTrue, VerdictsStayTrue
<1> QED
  BY <1>1, <1>3, <1>5, PTL DEF ShownIsFound

-----------------------------------------------------------------------------
(* Reports kept *)

Full == ReportBurst * Part

\* Once the agent was told how long to wait, the controller's clock has seen all
\* of its wait, or there is nothing left to earn.
WaitIsSeen == told >= 1 => inHand = Full \/ sinceReport >= Least(slept, Long)

\* After the second wait in a row a report is in hand, or the wait that has begun
\* is no shorter than what it will be measured by.
NextIsEarned == told = 2 => inHand >= Part \/ pause >= every

ReportingInv ==
    /\ every \in Intervals /\ configured \in Intervals
    /\ inHand \in Nat /\ inHand <= Full
    /\ sinceReport \in Int /\ slept \in Nat /\ told \in 0..2
    /\ told >= 1 => pause \in Nat /\ pause >= FastInterval
    /\ WaitIsSeen
    /\ NextIsEarned
    /\ ObedientIsKept

\* A report earned per half interval makes two in a whole one.
LEMMA TwoPerInterval ==
    ASSUME NEW n \in Intervals \union {FastInterval}
    PROVE  /\ n \in Nat /\ n >= FastInterval
           /\ Part \div (n \div 2) \in Nat /\ (Part \div (n \div 2)) * n = 2 * Part
<1>1. CASE n \in Intervals
  <2>1. n \in Nat /\ n >= 2 /\ n % 2 = 0 /\ Part \in Nat /\ Part % (n \div 2) = 0
    BY <1>1, ReportingAssumption DEF FastInterval
  <2> DEFINE k == n \div 2
  <2>2. k \in Nat /\ k > 0 /\ n = 2 * k
    BY <2>1
  <2> HIDE DEF k
  <2> DEFINE m == Part \div k
  <2>3. m \in Nat /\ Part = k * m
    BY <2>1, <2>2 DEF k
  <2> HIDE DEF m
  <2>4. m * n = 2 * Part
    BY <2>2, <2>3
  <2> QED
    BY <2>1, <2>3, <2>4 DEF k, m, FastInterval
<1>2. CASE n = FastInterval
  <2>1. n = 2 /\ n \div 2 = 1
    BY <1>2 DEF FastInterval
  <2>2. Part \in Nat /\ Part \div 1 = Part
    BY ReportingAssumption
  <2> QED
    BY <2>1, <2>2 DEF FastInterval
<1> QED
  BY <1>1, <1>2

\* What is in hand when a report comes: never less than there was, and two reports
\* at least once the clock has seen a whole interval, or as long as earns them all.
LEMMA Earned ==
    ASSUME ReportingInv
    PROVE  /\ Have \in Nat /\ Have <= Full /\ Have >= inHand
           /\ sinceReport >= IntervalNow \/ sinceReport >= Long => Have >= 2 * Part
           /\ IntervalNow \in Intervals \union {FastInterval}
<1>1. IntervalNow \in Intervals \union {FastInterval}
  BY DEF IntervalNow, ReportingInv
<1> DEFINE n == IntervalNow
           q == Part \div (n \div 2)
           s == Most(0, sinceReport)
<1>2. n \in Nat /\ n >= 2 /\ q \in Nat /\ q * n = 2 * Part
  BY <1>1, TwoPerInterval DEF FastInterval
<1>3. /\ Part \in Nat /\ inHand \in Nat /\ inHand <= 3 * Part /\ s \in Nat
      /\ (sinceReport >= 0 => s = sinceReport)
  BY ReportingAssumption DEF ReportingInv, Full, ReportBurst, Most
<1>4. Have = Least(3 * Part, inHand + s * q)
  BY DEF Have, ReportBurst
<1>5. Long = 3 * Part
  BY DEF Long, ReportBurst
<1>6. sinceReport \in Int
  BY DEF ReportingInv
<1> HIDE DEF n, q, s
<1>7. s * q \in Nat
  BY <1>2, <1>3
<1>8. Have \in Nat /\ Have <= Full /\ Have >= inHand
  BY <1>3, <1>4, <1>7 DEF Least, Full, ReportBurst
<1>9. ASSUME sinceReport >= n \/ sinceReport >= Long PROVE s * q >= 2 * Part
  <2>1. CASE sinceReport >= n
    <3>1. s >= n
      BY <1>2, <1>3, <1>6, <2>1
    <3>2. s * q >= n * q
      BY <1>2, <1>3, <3>1
    <3> QED
      BY <1>2, <1>3, <3>2
  <2>2. CASE sinceReport >= Long
    <3>1. s >= 3 * Part
      BY <1>3, <1>5, <1>6, <2>2
    <3>2. CASE Part = 0
      BY <1>3, <1>7, <3>2
    <3>3. CASE Part > 0
      <4>1. q >= 1
        BY <1>2, <1>3, <3>3
      <4>2. s * q >= s
        BY <1>2, <1>3, <4>1
      <4> QED
        BY <1>3, <1>7, <3>1, <4>2
    <3> QED
      BY <1>3, <3>2, <3>3
  <2> QED
    BY <1>9, <2>1, <2>2
<1>10. s * q >= 2 * Part => Have >= 2 * Part
  BY <1>3, <1>4, <1>7 DEF Least
<1> QED
  BY <1>1, <1>8, <1>9, <1>10 DEF n

\* A report after a wait as told is kept if it is the third, and leaves one in hand
\* if it is the second and the overview is open.
LEMMA MeterStep ==
    ASSUME ReportingInv, slept = pause, MeterReport
    PROVE  /\ inHand' \in Nat /\ inHand' <= Full /\ sinceReport' = 0 /\ ObedientIsKept'
           /\ told >= 1 /\ FastMode => inHand' >= Part
<1>1. /\ Part \in Nat /\ inHand \in Nat /\ told \in 0..2 /\ sinceReport \in Int /\ slept \in Nat
      /\ Full = 3 * Part /\ Long = 3 * Part
  BY ReportingAssumption DEF ReportingInv, Full, Long, ReportBurst
<1>2. /\ Have \in Nat /\ Have <= Full /\ Have >= inHand
      /\ sinceReport >= IntervalNow \/ sinceReport >= Long => Have >= 2 * Part
      /\ IntervalNow \in Intervals \union {FastInterval}
  BY Earned
<1>3. /\ inHand' = (IF Have >= Part THEN Have - Part ELSE Have)
      /\ lastReport' = [told |-> told, kept |-> Have >= Part] /\ sinceReport' = 0
  BY DEF MeterReport
<1>4. every \in Nat /\ every >= 2 /\ IntervalNow \in Nat /\ IntervalNow >= 2 /\
        IntervalNow <= every
  BY <1>2, TwoPerInterval DEF ReportingInv, IntervalNow, FastInterval
<1>5. ASSUME told >= 1, IntervalNow <= pause PROVE Have >= 2 * Part
  <2>1. inHand = Full \/ sinceReport >= Least(slept, Long)
    BY <1>5 DEF ReportingInv, WaitIsSeen
  <2>2. CASE inHand = Full
    BY <1>1, <1>2, <2>2
  <2>3. CASE sinceReport >= Least(slept, Long)
    <3>1. sinceReport >= IntervalNow \/ sinceReport >= Long
      BY <1>1, <1>4, <1>5, <2>3 DEF Least
    <3> QED
      BY <1>2, <3>1
  <2> QED
    BY <2>1, <2>2, <2>3
<1>6. told = 2 => Have >= Part
  <2> SUFFICES ASSUME told = 2 PROVE Have >= Part
    OBVIOUS
  <2>1. CASE inHand >= Part
    BY <1>1, <1>2, <2>1
  <2>2. CASE pause >= every
    <3>1. pause \in Nat
      BY DEF ReportingInv
    <3> QED
      BY <1>1, <1>2, <1>4, <1>5, <2>2, <3>1
  <2> QED
    BY <2>1, <2>2 DEF ReportingInv, NextIsEarned
<1>7. told >= 1 /\ FastMode => Have >= 2 * Part
  <2> SUFFICES ASSUME told >= 1, FastMode PROVE Have >= 2 * Part
    OBVIOUS
  <2>1. IntervalNow = FastInterval
    BY DEF IntervalNow
  <2> QED
    BY <1>5, <2>1 DEF ReportingInv
<1>8. ObedientIsKept'
  <2>1. lastReport'.told = told /\ (Have >= Part => lastReport'.kept)
    BY <1>3
  <2> QED
    BY <1>6, <2>1 DEF ObedientIsKept
<1>9. inHand' \in Nat /\ inHand' <= Full
  BY <1>1, <1>2, <1>3
<1>10. told >= 1 /\ FastMode => inHand' >= Part
  BY <1>1, <1>2, <1>3, <1>7
<1> QED
  BY <1>3, <1>8, <1>9, <1>10

LEMMA ReportingStart == ReportingInit => ReportingInv
<1> SUFFICES ASSUME ReportingInit PROVE ReportingInv
  OBVIOUS
<1>1. every \in Nat /\ Part \in Nat
  BY ReportingAssumption DEF ReportingInit
<1> QED
  BY <1>1
  DEF ReportingInit, ReportingInv, WaitIsSeen, NextIsEarned, ObedientIsKept, Full, ReportBurst

LEMMA ReportingStep == ReportingInv /\ [ReportingNext]_reportingVars => ReportingInv'
<1> SUFFICES ASSUME ReportingInv, [ReportingNext]_reportingVars PROVE ReportingInv'
  OBVIOUS
<1>n. /\ every \in Nat /\ configured \in Nat /\ Part \in Nat /\ StepBack \in Nat
      /\ Full \in Nat /\ Full >= Part /\ Long \in Nat
  BY ReportingAssumption DEF ReportingInv, Full, Long, ReportBurst
<1>0. CASE UNCHANGED reportingVars
  BY <1>0
  DEF ReportingInv, WaitIsSeen, NextIsEarned, ObedientIsKept, reportingVars, clocks, agentVars,
      gateVars, Full
<1>1. CASE AddFastViewer
  BY <1>1
  DEF AddFastViewer, ReportingInv, WaitIsSeen, NextIsEarned, ObedientIsKept, clocks, agentVars,
      gateVars, Full
<1>2. CASE RemoveFastViewer
  BY <1>2
  DEF RemoveFastViewer, ReportingInv, WaitIsSeen, NextIsEarned, ObedientIsKept, agentVars,
      gateVars, Full
<1>3. ASSUME NEW n \in Intervals, ChangeInterval(n) PROVE ReportingInv'
  <2>1. n \in Nat
    BY ReportingAssumption
  <2> QED
    BY <1>3, <1>n, <2>1
    DEF ChangeInterval, ReportingInv, WaitIsSeen, NextIsEarned, ObedientIsKept, clocks,
        gateVars, Full
<1>4. CASE ControllerRestarts
  <2>1. /\ inHand' = Full /\ sinceReport' = 0
        /\ UNCHANGED <<every, slept, configured, pause, told, lastReport>>
    BY <1>4 DEF ControllerRestarts, agentVars, Full
  <2> QED
    BY <1>n, <2>1 DEF ReportingInv, WaitIsSeen, NextIsEarned, ObedientIsKept, Full
<1>5. CASE ClockSetBack
  BY <1>5, <1>n
  DEF ClockSetBack, ReportingInv, WaitIsSeen, NextIsEarned, ObedientIsKept, gateVars, Full
<1>6. CASE Waits
  <2>1. /\ slept' = slept + 1 /\ sinceReport' = Least(sinceReport + 1, Long)
        /\ UNCHANGED <<every, configured, pause, told, inHand, lastReport>>
    BY <1>6 DEF Waits, agentVars, gateVars
  <2>2. WaitIsSeen'
    BY <1>n, <2>1 DEF ReportingInv, WaitIsSeen, Least, Full, Long
  <2> QED
    BY <1>n, <2>1, <2>2 DEF ReportingInv, NextIsEarned, ObedientIsKept, Least, Full
<1>7. ASSUME NEW applies \in BOOLEAN, IsAnswered(applies) PROVE ReportingInv'
  <2>1. /\ slept = pause /\ MeterReport /\ slept' = 0 /\ told' = Least(told + 1, 2)
        /\ every' = every
        /\ configured' = (IF applies THEN every ELSE configured)
        /\ pause' = (IF applies THEN every ELSE IntervalNow)
    BY <1>7 DEF IsAnswered
  <2>2. /\ inHand' \in Nat /\ inHand' <= Full /\ sinceReport' = 0 /\ ObedientIsKept'
        /\ told >= 1 /\ FastMode => inHand' >= Part
    BY <2>1, MeterStep
  <2>3. told \in 0..2 /\ told' \in 0..2 /\ (told' = 2 => told >= 1)
    BY <2>1 DEF ReportingInv, Least
  <2>4. pause' \in Nat /\ pause' >= FastInterval /\ configured' \in Intervals
    BY <2>1, TwoPerInterval DEF ReportingInv, IntervalNow
  <2>5. WaitIsSeen'
    BY <1>n, <2>1, <2>2 DEF WaitIsSeen, Least, Long
  <2>6. NextIsEarned'
    <3>1. CASE FastMode
      BY <2>2, <2>3, <3>1 DEF NextIsEarned
    <3>2. CASE ~FastMode
      BY <1>n, <2>1, <3>2 DEF NextIsEarned, IntervalNow
    <3> QED
      BY <3>1, <3>2
  <2>7. Full' = Full
    BY DEF Full
  <2> QED
    BY <2>1, <2>2, <2>3, <2>4, <2>5, <2>6, <2>7 DEF ReportingInv
<1>8. CASE NotActive
  <2>1. slept' = 0 /\ UNCHANGED <<every, sinceReport, configured, pause, told, inHand,
          lastReport>>
    BY <1>8 DEF NotActive, gateVars
  <2>2. WaitIsSeen'
    BY <1>n, <2>1 DEF ReportingInv, WaitIsSeen, Least, Full, Long
  <2> QED
    BY <2>1, <2>2 DEF ReportingInv, NextIsEarned, ObedientIsKept, Full
<1>9. ASSUME NEW arrives \in BOOLEAN, Unanswered(arrives) PROVE ReportingInv'
  <2>1. slept = pause /\ slept' = 0 /\ told' = 0 /\ UNCHANGED <<every, configured>>
    BY <1>9 DEF Unanswered
  <2>2. inHand' \in Nat /\ inHand' <= Full /\ sinceReport' \in Int /\ ObedientIsKept'
    <3>1. CASE arrives
      BY <1>9, <2>1, <3>1, MeterStep DEF Unanswered
    <3>2. CASE ~arrives
      BY <1>9, <3>2 DEF Unanswered, ReportingInv, ObedientIsKept
    <3> QED
      BY <3>1, <3>2
  <2> QED
    BY <2>1, <2>2 DEF ReportingInv, WaitIsSeen, NextIsEarned, Full
<1>10. CASE AgentStarts
  BY <1>10, <1>n
  DEF AgentStarts, ReportingInv, WaitIsSeen, NextIsEarned, ObedientIsKept, gateVars, Full
<1> QED
  BY <1>0, <1>1, <1>2, <1>3, <1>4, <1>5, <1>6, <1>7, <1>8, <1>9, <1>10 DEF ReportingNext

\* A gateway that has waited as it was told twice in a row is not refused, for any
\* configured intervals, any grace and any number of viewers that come and go.
THEOREM ObedientAlwaysKept == ReportingSpec => []ObedientIsKept
<1>1. ReportingInv => ObedientIsKept
  BY DEF ReportingInv
<1> QED
  BY <1>1, ReportingStart, ReportingStep, PTL DEF ReportingSpec

-----------------------------------------------------------------------------
(* History: a sample is averaged before it is dropped *)

TelemetryTypes ==
    /\ clock \in Times /\ newest \in Nat /\ clock <= newest
    /\ pending \subseteq Times
    /\ raw \subseteq stored /\ stored \subseteq Times
    /\ minutes \in [Starts(Minute) -> SUBSET Times]
    /\ hours \in [Starts(Hour) -> SUBSET Times]
    /\ passed \in Starts(Minute)
    /\ mark # Never => mark \in Starts(Minute) /\ mark <= passed

\* Only what a pass has been over is averaged.
RowsAreOver ==
    /\ \A m \in Starts(Minute) : minutes[m] # {} => m < passed
    /\ \A h \in Starts(Hour) : hours[h] # {} => h < Start(passed, Hour)

\* A sample is first raw, then in its minute once a pass was over that, then in
\* its hour once a pass was over that.
KeptInTurn ==
    \A t \in stored \ late :
        /\ t >= passed => t \in raw
        /\ t < passed /\ t >= Start(passed, Hour) => t \in minutes[Start(t, Minute)]
        /\ t < Start(passed, Hour) =>
             t \in hours[Start(t, Hour)] \/ Start(t, Hour) + KeepHours < newest

HistoryInv == TelemetryTypes /\ RowsAreOver /\ KeptInTurn

LEMMA Products ==
  ASSUME NEW u \in Nat \ {0}, NEW a \in Nat, NEW b \in Nat
  PROVE  /\ a * u \in Nat
         /\ a < b => (a + 1) * u <= b * u
         /\ (a + 1) * u = a * u + u
         /\ a * u < b * u => a < b
         /\ b = 0 => b * u = 0
  OBVIOUS

LEMMA Divided ==
  ASSUME NEW u \in Nat \ {0}, NEW t \in Nat
  PROVE  /\ t \div u \in Nat /\ (t \div u) * u <= t /\ t < (t \div u) * u + u
         /\ t % u = t - (t \div u) * u
  OBVIOUS

\* The unit a time is in: it begins at the last multiple that is not later.
LEMMA StartFacts ==
  ASSUME NEW u \in Nat \ {0}, NEW t \in Nat
  PROVE  /\ Start(t, u) \in Nat /\ Start(t, u) <= t /\ t < Start(t, u) + u
         /\ Start(t, u) % u = 0
         /\ \A k \in Nat : k % u = 0 /\ k <= t => k <= Start(t, u)
         /\ \A k \in Nat : k % u = 0 /\ t < k => Start(t, u) + u <= k
<1> DEFINE a == t \div u
<1>1. a \in Nat /\ a * u \in Nat /\ a * u <= t /\ t < a * u + u
  BY Divided, Products
<1>2. (a * u) % u = 0
  <2>1. /\ (a * u) \div u \in Nat /\ ((a * u) \div u) * u <= a * u
        /\ a * u < ((a * u) \div u) * u + u
        /\ (a * u) % u = a * u - ((a * u) \div u) * u
    BY <1>1, Divided
  <2> DEFINE b == (a * u) \div u
  <2>2. /\ b \in Nat /\ b * u <= a * u /\ a * u < b * u + u
        /\ (a * u) % u = a * u - b * u
    BY <2>1
  <2> HIDE DEF a, b
  <2>3. b = a
    <3>1. CASE b < a
      BY <1>1, <2>2, <3>1, Products
    <3>2. CASE a < b
      BY <1>1, <2>2, <3>2, Products
    <3> QED
      BY <1>1, <2>2, <3>1, <3>2
  <2> QED
    BY <1>1, <2>2, <2>3
<1>3. ASSUME NEW k \in Nat, k % u = 0
      PROVE  (k <= t => k <= a * u) /\ (t < k => a * u + u <= k)
  <2> DEFINE b == k \div u
  <2>1. b \in Nat /\ k = b * u
    BY <1>3, Divided, Products
  <2> HIDE DEF a, b
  <2>2. CASE b <= a
    <3>1. b * u <= a * u
      <4>1. CASE b < a
        BY <1>1, <2>1, <4>1, Products
      <4>2. CASE b = a
        BY <1>1, <2>1, <4>2, Products
      <4> QED
        BY <1>1, <2>1, <2>2, <4>1, <4>2
    <3> QED
      BY <1>1, <2>1, <3>1
  <2>3. CASE a < b
    BY <1>1, <2>1, <2>3, Products
  <2> QED
    BY <1>1, <2>1, <2>2, <2>3
<1> HIDE DEF a
<1>4. Start(t, u) = a * u
  BY DEF Start, a
<1> QED
  BY <1>1, <1>2, <1>3, <1>4

\* What the constants are.
LEMMA Units ==
  /\ Minute \in Nat \ {0} /\ Hour \in Nat \ {0} /\ Hour % Minute = 0 /\ MaxTime \in Nat
  /\ KeepRaw \in Nat /\ KeepMinutes \in Nat /\ KeepHours \in Nat
  /\ KeepRaw >= Minute /\ KeepMinutes >= Hour /\ KeepHours >= Hour
  BY TelemetryAssumption

LEMMA HoursAreMinutes == ASSUME NEW k \in Nat, k % Hour = 0 PROVE k % Minute = 0
<1> DEFINE a == k \div Hour
           b == Hour \div Minute
<1>1. a \in Nat /\ k = a * Hour
  BY Units, Divided, Products
<1>2. b \in Nat /\ Hour = b * Minute
  BY Units, Divided, Products
<1> HIDE DEF a, b
<1>3. a * b \in Nat /\ k = (a * b) * Minute
  BY <1>1, <1>2, Units
<1> DEFINE c == a * b
<1>4. c \in Nat /\ k = c * Minute
  BY <1>3
<1> HIDE DEF c
<1> DEFINE d == k \div Minute
<1>5. d \in Nat /\ d * Minute <= k /\ k < d * Minute + Minute /\ k % Minute = k - d * Minute
  BY Units, Divided
<1> HIDE DEF d
<1>6. d = c
  <2>1. CASE d < c
    BY <1>4, <1>5, <2>1, Units, Products
  <2>2. CASE c < d
    BY <1>4, <1>5, <2>2, Units, Products
  <2> QED
    BY <1>4, <1>5, <2>1, <2>2
<1> QED
  BY <1>4, <1>5, <1>6

\* A time and its minute are in one hour.
LEMMA HourOfMinute ==
  ASSUME NEW t \in Nat
  PROVE  /\ Start(Start(t, Minute), Hour) = Start(t, Hour)
         /\ Start(t, Hour) <= Start(t, Minute)
<1> DEFINE m == Start(t, Minute)
           h == Start(t, Hour)
<1>1. m \in Nat /\ m <= t /\ \A k \in Nat : k % Minute = 0 /\ k <= t => k <= m
  BY StartFacts, Units
<1>2. h \in Nat /\ h <= t /\ h % Hour = 0 /\ \A k \in Nat : k % Hour = 0 /\ k <= t => k <= h
  BY StartFacts, Units
<1>3. h <= m
  BY <1>1, <1>2, HoursAreMinutes
<1> HIDE DEF m, h
<1>4. /\ Start(m, Hour) \in Nat /\ Start(m, Hour) <= m /\ Start(m, Hour) % Hour = 0
      /\ \A k \in Nat : k % Hour = 0 /\ k <= m => k <= Start(m, Hour)
  BY <1>1, StartFacts, Units
<1>5. h <= Start(m, Hour) /\ Start(m, Hour) <= h
  BY <1>1, <1>2, <1>3, <1>4
<1> QED
  BY <1>1, <1>2, <1>3, <1>4, <1>5 DEF m, h

LEMMA LaterStartsLater ==
  ASSUME NEW u \in Nat \ {0}, NEW t \in Nat, NEW s \in Nat, s <= t
  PROVE  Start(s, u) <= Start(t, u)
<1>1. Start(s, u) \in Nat /\ Start(s, u) <= s /\ Start(s, u) % u = 0
  BY StartFacts
<1>2. Start(s, u) <= t
  BY <1>1
<1>3. \A k \in Nat : k % u = 0 /\ k <= t => k <= Start(t, u)
  BY StartFacts
<1> QED
  BY <1>1, <1>2, <1>3

LEMMA TimesAreNumbers ==
  /\ \A t \in Times : t \in Nat /\ t <= MaxTime /\ t < Never /\ t # Never
  /\ \A u : Starts(u) \subseteq Times
  /\ Never \in Nat
  BY Units DEF Times, Never, Starts

LEMMA StartIsTime ==
  ASSUME NEW u \in Nat \ {0}, NEW t \in Times PROVE Start(t, u) \in Starts(u)
<1>1. t \in Nat /\ t <= MaxTime
  BY TimesAreNumbers
<1>2. Start(t, u) \in Nat /\ Start(t, u) <= t /\ Start(t, u) % u = 0
  BY <1>1, StartFacts
<1> QED
  BY <1>1, <1>2, Units DEF Starts, Times

\* A pass begins at its mark, or no later than any row it is to average.
LEMMA FromFacts ==
  ASSUME NEW u \in Nat \ {0}, NEW S \in SUBSET Times, NEW end \in Times,
         NEW m \in Times \union {Never}
  PROVE  /\ From(m, end, S, u) \in Nat
         /\ m # Never /\ m <= end => From(m, end, S, u) = m
         /\ m = Never => \A s \in S : From(m, end, S, u) <= Start(s, u)
<1>1. m \in Nat /\ end \in Nat /\ Never \in Nat /\ end < Never /\ S \subseteq Nat
  BY TimesAreNumbers
<1>2. Oldest(S, u) \in Nat /\ \A s \in S : Oldest(S, u) <= Start(s, u)
  <2>1. CASE S = {}
    BY <1>1, <2>1 DEF Oldest
  <2>2. CASE S # {}
    <3>1. \E n \in S : \A k \in S : n <= k
      BY <1>1, <2>2, LeastNumber
    <3>2. Min(S) \in S /\ \A k \in S : Min(S) <= k
      BY <3>1 DEF Min
    <3>3. Min(S) \in Nat /\ Start(Min(S), u) \in Nat
      BY <1>1, <3>2, StartFacts
    <3> QED
      BY <1>1, <2>2, <3>2, <3>3, LaterStartsLater DEF Oldest
  <2> QED
    BY <2>1, <2>2
<1> QED
  BY <1>1, <1>2 DEF From

\* Averaging leaves a row that is there alone, and makes those of complete units.
LEMMA RolledRows ==
  ASSUME NEW u \in Nat \ {0}, NEW rows \in [Starts(u) -> SUBSET Times], NEW from \in Nat,
         NEW end \in Nat, NEW S \in SUBSET Times
  PROVE  /\ Rolled(rows, u, from, end, S) \in [Starts(u) -> SUBSET Times]
         /\ \A t \in Starts(u) :
              /\ rows[t] # {} => Rolled(rows, u, from, end, S)[t] = rows[t]
              /\ Rolled(rows, u, from, end, S)[t] # {} => rows[t] # {} \/ t < end
         /\ \A s \in S : from <= Start(s, u) /\ Start(s, u) < end /\ rows[Start(s, u)] = {} =>
              s \in Rolled(rows, u, from, end, S)[Start(s, u)]
<1>1. \A t \in Starts(u) :
        Rolled(rows, u, from, end, S)[t] =
          IF rows[t] = {} /\ from <= t /\ t < end THEN {s \in S : Start(s, u) = t} ELSE rows[t]
  BY DEF Rolled
<1>2. Rolled(rows, u, from, end, S) \in [Starts(u) -> SUBSET Times]
  BY DEF Rolled
<1> QED
  BY <1>1, <1>2, StartIsTime

\* What a pass computes, before it drops what is too old.
LEMMA PassRows ==
  ASSUME HistoryInv, mark \in Times \union {Never},
         NEW P, P = Larger(passed, Start(clock, Minute))
  PROVE  /\ P \in Starts(Minute) /\ P \in Nat /\ passed <= P /\ Start(clock, Minute) <= P
         /\ Start(passed, Hour) <= Start(P, Hour) /\ Start(clock, Hour) <= Start(P, Hour)
         /\ Start(P, Hour) <= P /\ Start(P, Hour) \in Nat
         /\ MinuteRows \in [Starts(Minute) -> SUBSET Times]
         /\ HourRows \in [Starts(Hour) -> SUBSET Times]
         /\ \A m \in Starts(Minute) : MinuteRows[m] # {} => m < P
         /\ \A h \in Starts(Hour) : HourRows[h] # {} => h < Start(P, Hour)
         /\ \A t \in stored \ late :
              /\ t >= Start(passed, Hour) /\ t < P => t \in MinuteRows[Start(t, Minute)]
              /\ t < Start(P, Hour) =>
                   t \in HourRows[Start(t, Hour)] \/ Start(t, Hour) + KeepHours < newest
<1> DEFINE end == Start(clock, Minute)
           endH == Start(clock, Hour)
           pH == Start(passed, Hour)
           PH == Start(P, Hour)
<1>0. TelemetryTypes /\ RowsAreOver /\ KeptInTurn
  BY DEF HistoryInv
<1>1. clock \in Times /\ clock \in Nat /\ passed \in Starts(Minute) /\ passed \in Times /\
        passed \in Nat
  BY <1>0, TimesAreNumbers DEF TelemetryTypes
<1>2. /\ end \in Starts(Minute) /\ end \in Times /\ end \in Nat /\
           end <= clock /\ clock < end + Minute
      /\ endH \in Starts(Hour) /\ endH \in Times /\ endH \in Nat /\
           endH <= clock /\ clock < endH + Hour
  BY <1>1, StartIsTime, TimesAreNumbers, StartFacts, Units
<1>3. P \in {passed, end} /\ passed <= P /\ end <= P
  BY <1>1, <1>2 DEF Larger
<1>4. P \in Starts(Minute) /\ P \in Times /\ P \in Nat
  BY <1>1, <1>2, <1>3
<1>5. Start(end, Hour) = endH
  BY <1>1, HourOfMinute
<1>6. /\ pH \in Nat /\ pH <= passed /\ PH \in Nat /\ PH <= P /\ pH <= PH /\ endH <= PH
      /\ PH \in Starts(Hour) /\ pH \in Starts(Hour)
  BY <1>1, <1>2, <1>3, <1>4, <1>5, LaterStartsLater, StartFacts, StartIsTime, Units
<1> DEFINE from == From(mark, end, raw, Minute)
           M == MinuteRows
<1>7. raw \in SUBSET Times /\ minutes \in [Starts(Minute) -> SUBSET Times]
      /\ hours \in [Starts(Hour) -> SUBSET Times]
  BY <1>0 DEF TelemetryTypes
<1>8. /\ from \in Nat
      /\ mark # Never /\ mark <= end => from = mark
      /\ mark = Never => \A s \in raw : from <= Start(s, Minute)
  BY <1>2, <1>7, FromFacts, Units
<1>9. M = Rolled(minutes, Minute, from, end, raw)
  BY DEF MinuteRows
<1> HIDE DEF from, M
<1>10. /\ M \in [Starts(Minute) -> SUBSET Times]
       /\ \A m \in Starts(Minute) :
            /\ minutes[m] # {} => M[m] = minutes[m]
            /\ M[m] # {} => minutes[m] # {} \/ m < end
       /\ \A s \in raw : from <= Start(s, Minute) /\ Start(s, Minute) < end
                           /\ minutes[Start(s, Minute)] = {} => s \in M[Start(s, Minute)]
  BY <1>2, <1>7, <1>8, <1>9, RolledRows, Units
<1>11. \A m \in Starts(Minute) : M[m] # {} => m < P
  BY <1>0, <1>1, <1>2, <1>3, <1>10, TimesAreNumbers DEF RowsAreOver
<1>12. ASSUME NEW t \in stored \ late, t >= pH, t < P
       PROVE  t \in M[Start(t, Minute)]
  <2>1. /\ t \in Times /\ t \in Nat
        /\ Start(t, Minute) \in Starts(Minute) /\ Start(t, Minute) \in Nat /\
             Start(t, Minute) <= t
    BY <1>0, StartIsTime, TimesAreNumbers, StartFacts, Units DEF TelemetryTypes
  <2>2. CASE t < passed
    BY <1>0, <1>10, <1>12, <2>1, <2>2 DEF KeptInTurn
  <2>3. CASE t >= passed
    <3>1. t \in raw /\ P = end /\ t < end /\ passed <= end
      BY <1>0, <1>1, <1>3, <1>12, <2>1, <2>3 DEF KeptInTurn
    <3>2. Start(t, Minute) < end
      BY <1>2, <2>1, <3>1
    <3>3. passed <= Start(t, Minute)
      <4>1. passed % Minute = 0
        BY <1>1 DEF Starts
      <4> QED
        BY <1>1, <2>1, <2>3, <4>1, StartFacts, Units
    <3>4. minutes[Start(t, Minute)] = {}
      BY <1>0, <1>1, <2>1, <3>3 DEF RowsAreOver
    <3>5. from <= Start(t, Minute)
      <4>1. CASE mark = Never
        BY <1>8, <3>1, <4>1
      <4>2. CASE mark # Never
        <5>1. mark \in Nat /\ mark <= passed
          BY <1>0, <4>2, TimesAreNumbers DEF TelemetryTypes
        <5> QED
          BY <1>1, <1>2, <1>8, <2>1, <3>1, <3>3, <4>2, <5>1
      <4> QED
        BY <4>1, <4>2
    <3> QED
      BY <1>10, <3>1, <3>2, <3>4, <3>5
  <2> QED
    BY <1>1, <2>1, <2>2, <2>3
<1> DEFINE m0 == IF mark = Never THEN Never ELSE Start(mark, Hour)
           fromH == From(m0, endH, RowStarts(M), Hour)
           all == UNION {M[m] : m \in Starts(Minute)}
           H == HourRows
<1>13. m0 \in Times \union {Never} /\ (mark # Never => m0 # Never /\ m0 <= pH)
  <2>1. CASE mark # Never
    <3>1. mark \in Nat /\ mark \in Times /\ mark <= passed
      BY <1>0, <2>1, TimesAreNumbers DEF TelemetryTypes
    <3>2. Start(mark, Hour) \in Times /\ Start(mark, Hour) <= pH
      BY <1>1, <3>1, LaterStartsLater, StartIsTime, TimesAreNumbers, Units
    <3> QED
      BY <2>1, <3>2, TimesAreNumbers
  <2> QED
    BY <2>1
<1>14. RowStarts(M) \in SUBSET Times /\ all \in SUBSET Times
  BY <1>10, TimesAreNumbers DEF RowStarts
<1>15. /\ fromH \in Nat
       /\ m0 # Never /\ m0 <= endH => fromH = m0
       /\ m0 = Never => \A s \in RowStarts(M) : fromH <= Start(s, Hour)
  BY <1>2, <1>13, <1>14, FromFacts, Units
<1>16. H = Rolled(hours, Hour, fromH, endH, all)
  BY DEF HourRows, M
<1> HIDE DEF fromH, H, all
<1>17. /\ H \in [Starts(Hour) -> SUBSET Times]
       /\ \A h \in Starts(Hour) :
            /\ hours[h] # {} => H[h] = hours[h]
            /\ H[h] # {} => hours[h] # {} \/ h < endH
       /\ \A s \in all : fromH <= Start(s, Hour) /\ Start(s, Hour) < endH
                           /\ hours[Start(s, Hour)] = {} => s \in H[Start(s, Hour)]
  BY <1>2, <1>7, <1>14, <1>15, <1>16, RolledRows, Units
<1>18. \A h \in Starts(Hour) : H[h] # {} => h < PH
  BY <1>0, <1>2, <1>6, <1>17, TimesAreNumbers DEF RowsAreOver
<1>19. ASSUME NEW t \in stored \ late, t < PH
       PROVE  t \in H[Start(t, Hour)] \/ Start(t, Hour) + KeepHours < newest
  <2> DEFINE h == Start(t, Hour)
             m == Start(t, Minute)
  <2>1. /\ t \in Times /\ t \in Nat /\ h \in Starts(Hour) /\ h \in Nat /\ h <= t
        /\ m \in Starts(Minute) /\ m \in Nat
    BY <1>0, StartIsTime, TimesAreNumbers, StartFacts, Units DEF TelemetryTypes
  <2>2. CASE t < pH
    BY <1>0, <1>17, <1>19, <2>1, <2>2 DEF KeptInTurn
  <2>3. CASE t >= pH
    <3>1. P = end /\ PH = endH
      BY <1>3, <1>5, <1>6, <1>19, <2>1, <2>3
    <3>2. t \in M[m]
      BY <1>4, <1>6, <1>12, <1>19, <2>1, <2>3
    <3>3. t \in all /\ m \in RowStarts(M)
      BY <1>10, <2>1, <3>2 DEF all, RowStarts
    <3>4. h < endH
      BY <1>2, <1>19, <2>1, <3>1
    <3>5. pH <= h
      <4>1. pH % Hour = 0
        BY <1>6 DEF Starts
      <4> QED
        BY <1>6, <2>1, <2>3, <4>1, StartFacts, Units
    <3>6. hours[h] = {}
      BY <1>0, <1>6, <2>1, <3>5 DEF RowsAreOver
    <3>7. fromH <= h
      <4>1. CASE mark = Never
        <5>1. Start(m, Hour) = h
          BY <2>1, HourOfMinute
        <5> QED
          BY <1>15, <3>3, <4>1, <5>1
      <4>2. CASE mark # Never
        <5>1. m0 \in Nat /\ m0 # Never /\ m0 <= pH
          BY <1>13, <4>2, TimesAreNumbers
        <5>2. m0 <= h /\ m0 <= endH
          BY <1>2, <1>6, <2>1, <3>4, <3>5, <5>1
        <5> QED
          BY <1>15, <5>1, <5>2
      <4> QED
        BY <4>1, <4>2
    <3> QED
      BY <1>17, <3>3, <3>4, <3>6, <3>7
  <2> QED
    BY <1>6, <2>1, <2>2, <2>3
<1> QED
  BY <1>3, <1>4, <1>6, <1>10, <1>11, <1>12, <1>17, <1>18, <1>19 DEF M, H

LEMMA HistoryInit == TelemetryInit => HistoryInv
<1> SUFFICES ASSUME TelemetryInit PROVE HistoryInv
  OBVIOUS
<1>1. 0 \in Times /\ 0 \in Starts(Minute) /\ 0 % Minute = 0
  <2>1. 0 \in Times
    BY Units DEF Times
  <2>2. Start(0, Minute) \in Starts(Minute) /\ Start(0, Minute) \in Nat /\ Start(0, Minute) <= 0
    BY <2>1, StartIsTime, StartFacts, Units
  <2>3. Start(0, Minute) = 0
    BY <2>2
  <2> QED
    BY <2>1, <2>2, <2>3 DEF Starts
<1>2. minutes \in [Starts(Minute) -> SUBSET Times] /\ hours \in [Starts(Hour) -> SUBSET Times]
  BY DEF TelemetryInit, NoRows
<1> QED
  BY <1>1, <1>2
  DEF TelemetryInit, HistoryInv, TelemetryTypes, RowsAreOver, KeptInTurn, NoRows

\* A sample that comes in belongs to a minute no pass was over, or is late.
LEMMA StoreKeeps ==
  ASSUME HistoryInv, NEW t \in pending, StoreTelemetry(t) PROVE HistoryInv'
<1>0. TelemetryTypes /\ RowsAreOver /\ KeptInTurn
  BY DEF HistoryInv
<1>1. t \in Times /\ t \in Nat /\ passed \in Times /\ passed \in Nat
  BY <1>0, TimesAreNumbers DEF TelemetryTypes
<1>2. UNCHANGED <<clock, newest, minutes, hours, mark, passed>> /\ pending' \subseteq pending
  BY DEF StoreTelemetry
<1>3. TelemetryTypes'
  BY <1>0, <1>1, <1>2 DEF StoreTelemetry, TelemetryTypes
<1>4. RowsAreOver'
  BY <1>0, <1>2 DEF RowsAreOver
<1>5. /\ raw \subseteq raw' /\ late \subseteq late'
      /\ \A s \in stored' \ late' : s \in stored \ late \/ s = t
      /\ t \in stored' \ late' => t \in stored \ late \/ (t \in raw' /\ t >= passed)
  BY <1>0, <1>1 DEF StoreTelemetry, TelemetryTypes
<1>6. Start(passed, Hour) \in Nat /\ Start(passed, Hour) <= passed
  BY <1>1, StartFacts, Units
<1>7. KeptInTurn'
  <2> SUFFICES ASSUME NEW s \in stored' \ late'
               PROVE  /\ s >= passed => s \in raw'
                      /\ s < passed /\ s >= Start(passed, Hour) => s \in minutes[Start(s, Minute)]
                      /\ s < Start(passed, Hour) =>
                           s \in hours[Start(s, Hour)] \/ Start(s, Hour) + KeepHours < newest
    BY <1>2 DEF KeptInTurn
  <2>1. CASE s \in stored \ late
    BY <1>0, <1>5, <2>1 DEF KeptInTurn
  <2>2. CASE s = t /\ t \in raw' /\ t >= passed
    BY <1>1, <1>6, <2>2
  <2> QED
    BY <1>5, <2>1, <2>2
<1> QED
  BY <1>3, <1>4, <1>7 DEF HistoryInv

\* A pass drops no sample that it, or one before it, has not averaged.
LEMMA PassKeeps == ASSUME HistoryInv, RunRollups PROVE HistoryInv'
<1> DEFINE end == Start(clock, Minute)
           endH == Start(clock, Hour)
           P == Larger(passed, end)
           PH == Start(P, Hour)
<1>0. TelemetryTypes /\ RowsAreOver /\ KeptInTurn
  BY DEF HistoryInv
<1>1. mark \in Times \union {Never}
  BY <1>0, TimesAreNumbers DEF TelemetryTypes
<1>2. /\ P \in Starts(Minute) /\ P \in Nat /\ passed <= P /\ end <= P
      /\ Start(passed, Hour) <= PH /\ endH <= PH /\ PH <= P /\ PH \in Nat
      /\ MinuteRows \in [Starts(Minute) -> SUBSET Times]
      /\ HourRows \in [Starts(Hour) -> SUBSET Times]
      /\ \A m \in Starts(Minute) : MinuteRows[m] # {} => m < P
      /\ \A h \in Starts(Hour) : HourRows[h] # {} => h < PH
      /\ \A t \in stored \ late :
           /\ t >= Start(passed, Hour) /\ t < P => t \in MinuteRows[Start(t, Minute)]
           /\ t < PH => t \in HourRows[Start(t, Hour)] \/ Start(t, Hour) + KeepHours < newest
  BY <1>1, PassRows
<1>3. /\ clock \in Nat /\ passed \in Nat /\ newest \in Nat /\ clock <= newest
      /\ end \in Nat /\ clock < end + Minute /\ endH \in Nat /\ clock < endH + Hour
      /\ Start(passed, Hour) \in Nat /\ end \in Starts(Minute)
  BY <1>0, TimesAreNumbers, StartFacts, StartIsTime, Units DEF TelemetryTypes
<1>4. /\ minutes' = PrunedRows(MinuteRows, KeepMinutes) /\
           hours' = PrunedRows(HourRows, KeepHours)
      /\ raw' = Pruned5s(raw, KeepRaw) /\ mark' = end /\ passed' = P
      /\ UNCHANGED <<clock, newest, pending, stored, late>>
  BY DEF RunRollups
<1> HIDE DEF end, endH, P, PH
<1>5. /\ minutes' \in [Starts(Minute) -> SUBSET Times]
      /\ \A m \in Starts(Minute) :
           minutes'[m] = IF m + KeepMinutes >= clock THEN MinuteRows[m] ELSE {}
      /\ hours' \in [Starts(Hour) -> SUBSET Times]
      /\ \A h \in Starts(Hour) :
           hours'[h] = IF h + KeepHours >= clock THEN HourRows[h] ELSE {}
  BY <1>2, <1>4 DEF PrunedRows
<1>6. TelemetryTypes'
  BY <1>0, <1>2, <1>3, <1>4, <1>5 DEF TelemetryTypes, Pruned5s
<1>7. Start(P, Hour) = PH
  BY DEF PH
<1>8. RowsAreOver'
  BY <1>2, <1>4, <1>5, <1>7 DEF RowsAreOver
<1>9. ASSUME NEW t \in stored \ late
      PROVE  /\ t >= P => t \in raw'
             /\ t < P /\ t >= PH => t \in minutes'[Start(t, Minute)]
             /\ t < PH => t \in hours'[Start(t, Hour)] \/ Start(t, Hour) + KeepHours < newest
  <2> DEFINE m == Start(t, Minute)
             h == Start(t, Hour)
  <2>1. /\ t \in Times /\ t \in Nat /\ m \in Starts(Minute) /\ m \in Nat
        /\ h \in Starts(Hour) /\ h \in Nat
    BY <1>0, StartIsTime, TimesAreNumbers, StartFacts, Units DEF TelemetryTypes
  <2>2. CASE t >= P
    <3>1. t \in raw
      BY <1>0, <1>2, <1>3, <2>1, <2>2 DEF KeptInTurn
    <3>2. t + KeepRaw >= clock
      BY <1>2, <1>3, <2>1, <2>2, Units
    <3> QED
      BY <1>2, <1>4, <2>1, <2>2, <3>1, <3>2 DEF Pruned5s
  <2>3. CASE t < P /\ t >= PH
    <3>1. t \in MinuteRows[m]
      BY <1>2, <1>3, <2>1, <2>3
    <3>2. PH <= m
      <4>1. PH % Hour = 0
        BY <1>2, <1>7, StartFacts, Units
      <4> QED
        BY <1>2, <2>1, <2>3, <4>1, HoursAreMinutes, StartFacts, Units
    <3>3. m + KeepMinutes >= clock
      BY <1>2, <1>3, <2>1, <3>2, Units
    <3> QED
      BY <1>2, <1>5, <2>1, <2>3, <3>1, <3>3
  <2>4. CASE t < PH
    <3>1. t \in HourRows[h] \/ h + KeepHours < newest
      BY <1>2, <2>4
    <3>2. CASE h + KeepHours >= clock
      BY <1>2, <1>5, <2>1, <2>4, <3>1, <3>2
    <3>3. CASE h + KeepHours < clock
      BY <1>2, <1>3, <2>1, <2>4, <3>3, Units
    <3> QED
      BY <1>3, <2>1, <3>2, <3>3, Units
  <2> QED
    BY <1>2, <2>1, <2>2, <2>3, <2>4
<1>10. KeptInTurn'
  BY <1>4, <1>7, <1>9 DEF KeptInTurn
<1> QED
  BY <1>6, <1>8, <1>10 DEF HistoryInv

LEMMA HistoryStep == ASSUME HistoryInv, [TelemetryNext]_telemetryVars PROVE HistoryInv'
<1>0. TelemetryTypes /\ RowsAreOver /\ KeptInTurn
  BY DEF HistoryInv
\* Time goes on, or nothing that is kept changes.
<1>g. ASSUME clock' \in Times, newest' \in Nat, newest <= newest', clock' <= newest',
             pending' \subseteq Times, mark' \in {mark, Never},
             UNCHANGED <<raw, minutes, hours, stored, late, passed>>
      PROVE  HistoryInv'
  <2>1. TelemetryTypes'
    BY <1>0, <1>g DEF TelemetryTypes
  <2>2. RowsAreOver'
    BY <1>0, <1>g DEF RowsAreOver
  <2>3. \A t \in stored : Start(t, Hour) \in Nat
    BY <1>0, TimesAreNumbers, StartFacts, Units DEF TelemetryTypes
  <2>4. \A t \in stored : Start(t, Hour) + KeepHours < newest
                            => Start(t, Hour) + KeepHours < newest'
    BY <1>0, <1>g, <2>3, Units DEF TelemetryTypes
  <2>5. KeptInTurn'
    BY <1>0, <1>g, <2>4 DEF KeptInTurn
  <2> QED
    BY <2>1, <2>2, <2>5 DEF HistoryInv
<1>1. /\ clock \in Times /\ newest \in Nat /\ clock <= newest /\ pending \subseteq Times
      /\ clock \in Nat
  BY <1>0, TimesAreNumbers DEF TelemetryTypes
<1>2. CASE AdmitReport
  BY <1>1, <1>2, <1>g DEF AdmitReport, history
<1>3. CASE Forget
  BY <1>1, <1>3, <1>g DEF Forget, history
<1>4. CASE RunRollups
  BY <1>4, PassKeeps
<1>5. CASE Tick
  <2>1. clock' = clock + 1 /\ clock < MaxTime /\ newest' = Larger(newest, clock + 1)
    BY <1>5 DEF Tick
  <2>2. clock' \in Times /\ newest' \in Nat /\ newest <= newest' /\ clock' <= newest'
    BY <1>1, <2>1, Units DEF Times, Larger
  <2> QED
    BY <1>1, <1>5, <1>g, <2>2 DEF Tick, history
<1>6. CASE SetBack
  <2>1. clock' \in Times /\ clock' <= clock /\ clock' \in Nat
    BY <1>1, <1>6, Units DEF SetBack, Times
  <2> QED
    BY <1>1, <1>6, <1>g, <2>1 DEF SetBack, history
<1>7. CASE RestartController
  BY <1>1, <1>7, <1>g DEF RestartController
<1>8. ASSUME NEW t \in pending, StoreTelemetry(t) PROVE HistoryInv'
  BY <1>8, StoreKeeps
<1>9. ASSUME NEW t \in pending, BodyFails(t) PROVE HistoryInv'
  BY <1>1, <1>9, <1>g DEF BodyFails, history
<1>10. CASE UNCHANGED telemetryVars
  BY <1>1, <1>10, <1>g DEF telemetryVars, history
<1> QED
  BY <1>2, <1>3, <1>4, <1>5, <1>6, <1>7, <1>8, <1>9, <1>10 DEF TelemetryNext

\* However late the passes, however long the controller is down and however its
\* clock is set back, every sample not stored behind a pass is in some table until
\* its time is over: for any length of minutes, hours and of what is kept, and any
\* number of samples.
THEOREM NothingEverLost == TelemetrySpec => []NothingLost
<1>1. TelemetryInit => HistoryInv
  BY HistoryInit
<1>2. HistoryInv /\ [TelemetryNext]_telemetryVars => HistoryInv'
  BY HistoryStep
<1>3. HistoryInv => NothingLost
  <2> SUFFICES ASSUME HistoryInv, NEW t \in stored \ late
               PROVE  \/ t \in raw \/ t \in minutes[Start(t, Minute)]
                      \/ t \in hours[Start(t, Hour)] \/ Start(t, Hour) + KeepHours < newest
    BY DEF NothingLost
  <2>1. t \in Nat /\ passed \in Nat /\ Start(passed, Hour) \in Nat
    BY TimesAreNumbers, StartFacts, Units DEF HistoryInv, TelemetryTypes
  <2> QED
    BY <2>1 DEF HistoryInv, KeptInTurn
<1> QED
  BY <1>1, <1>2, <1>3, PTL DEF TelemetrySpec
=============================================================================
