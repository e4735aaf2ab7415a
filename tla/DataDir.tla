------------------------------- MODULE DataDir -------------------------------
(***************************************************************************)
(* What the controller keeps in its data directory, and how it starts on    *)
(* what it finds there: the sealing secret (src/server/env.ts), the         *)
(* database and its migrations (src/db), the backups (src/server/backup.ts) *)
(* and the way out (src/server/shutdown.ts).                                *)
(*                                                                          *)
(* The process may be killed between any two steps, and the power may fail: *)
(* then a rename not yet synced may be undone, and so may the latest of the *)
(* commits still in the write-ahead log (synchronous = NORMAL).  Releases   *)
(* are started in any order; release r ships r migrations.                  *)
(*                                                                          *)
(* The administrator may lose the secret or damage it, puts back only what  *)
(* it held, and restores a backup with the key kept beside it (README.md,   *)
(* Backups), or without, and never over a log that was left behind.         *)
(***************************************************************************)
EXTENDS Naturals

CONSTANTS
    Secrets,     \* bound: secrets ever made
    Missing,     \* no file, or an empty variable
    Damaged      \* shorter than a secret is

ASSUME SecretsAssumption == Missing \notin Secrets /\ Damaged \notin Secrets /\ Missing # Damaged

VARIABLES
    given,       \* OPNMESH_SECRET
    keyFile,     \* secret.key
    keySynced,   \* ... as it is after a power failure, at worst
    db,          \* opnmesh.db with its log
    mayBe,       \* what a power failure can leave of it
    proc,        \* how far the process has come
    release,     \* which one it is
    secret,      \* the secret it has loaded or made
    used,        \* history: secrets made
    lastGood,    \* history: the secret the controller last ran with
    mislaid,     \* history: the secret has been lost and not put back
    taken,       \* openBackup's flag
    stage,       \* where a backup stands
    copy,        \* a copy lies in the temporary directory
    saved        \* a downloaded backup and the secret of the time

dataDirVars == <<given, keyFile, keySynced, db, mayBe, proc, release, secret, used, lastGood,
                 mislaid, taken, stage, copy, saved>>
secretVars == <<given, keyFile, keySynced, used, mislaid>>
backupVars == <<taken, stage, copy, saved>>

Releases == 1..3
NoDatabase == [exists |-> FALSE, version |-> 0, applied |-> {}, sealed |-> {}]
NoBackup == [db |-> NoDatabase, secret |-> Missing]
Down == proc \in {"down", "refused"}

DataDirInit ==
    /\ given \in {Missing} \union Secrets
    /\ keyFile = Missing /\ keySynced = Missing
    /\ db = NoDatabase /\ mayBe = {NoDatabase}
    /\ proc = "down" /\ release = 1 /\ secret = Missing
    /\ used = {given} \intersect Secrets /\ lastGood = Missing /\ mislaid = FALSE
    /\ taken = FALSE /\ stage = "idle" /\ copy = FALSE /\ saved = NoBackup

---------------------------------------------------------------------------
(* Tables *)

\* The migrations, by what they make: tables, then groups of columns.
MeshTables == {"settings", "users", "sessions", "sites", "lans", "gateways", "enrol_tokens",
               "clients", "invites", "unifi_links"}
HistoryTables == {"telemetry_5s", "telemetry_1m", "telemetry_1h", "pair_5s", "pair_1m", "pair_1h",
                  "events"}
AlertColumns == {"settings", "sites", "gateways"} \X {"alerts"}
CheckColumns == {<<"gateways", "checks">>}

Migrations == <<(MeshTables \union HistoryTables) \X {"initial"}, AlertColumns, CheckColumns>>

\* Columns an INSERT that does not know of them may leave out: those with a
\* default, and those that may be NULL.
LeftOut == AlertColumns \union CheckColumns

Columns(d) == UNION {Migrations[i] : i \in d.applied}

\* What the code reads and writes by name; before an entry was shipped no
\* release named what it adds.
StoredSchema ==
    {"settings", "users", "sessions", "sites", "lans", "gateways", "enrol_tokens", "clients",
     "invites", "unifi_links"} \X {"initial"}
      \union {<<"settings", "alerts">>, <<"sites", "alerts">>, <<"gateways", "alerts">>,
              <<"gateways", "checks">>}
HistorySchema ==
    {"telemetry_5s", "telemetry_1m", "telemetry_1h", "pair_5s", "pair_1m", "pair_1h", "events"}
      \X {"initial"}

Shipped(c) == CASE c[2] = "initial" -> 1 [] c[2] = "alerts" -> 2 [] c[2] = "checks" -> 3
Named(r) == {c \in StoredSchema \union HistorySchema : Shipped(c) <= r}

\* A committed transaction.
Commit(d) == db' = d /\ mayBe' = mayBe \union {d}

---------------------------------------------------------------------------
(* Starting *)

StartRelease(r) ==
    /\ Down
    /\ proc' = "loading" /\ release' = r
    /\ UNCHANGED <<secretVars, db, mayBe, secret, lastGood, backupVars>>

\* loadSecret, from the start and in this order: the database is opened later.
Found == IF given # Missing THEN given ELSE keyFile

LoadSecret ==
    /\ proc = "loading"
    /\ \/ /\ Found \in Secrets
          /\ secret' = Found /\ proc' = "opening" /\ UNCHANGED used
       \/ /\ Found = Damaged \/ (Found = Missing /\ db.exists)
          /\ proc' = "refused" /\ UNCHANGED <<secret, used>>
       \/ /\ Found = Missing /\ ~db.exists
          /\ \E k \in Secrets \ used : secret' = k /\ used' = used \union {k}
          /\ proc' = "writing"
    /\ UNCHANGED <<given, keyFile, keySynced, mislaid, db, mayBe, release, lastGood, backupVars>>

\* writeFileAtomic: the temporary file, whose random name nothing is ever in the
\* way of, has been written and synced when it gets its name.
RenameKey ==
    /\ proc = "writing"
    /\ keyFile' = secret /\ proc' = "renamed"
    /\ UNCHANGED <<given, keySynced, used, mislaid, db, mayBe, release, secret, lastGood, backupVars>>

\* (mutant: the directory is not synced)
NotSynced(file, synced) == synced

Synced(file, synced) == file

FsyncDir ==
    /\ proc = "renamed"
    /\ keySynced' = Synced(keyFile, keySynced) /\ proc' = "opening"
    /\ UNCHANGED <<given, keyFile, used, mislaid, db, mayBe, release, secret, lastGood, backupVars>>

OpenDatabase ==
    /\ proc = "opening"
    /\ IF db.exists THEN UNCHANGED <<db, mayBe>> ELSE Commit([NoDatabase EXCEPT !.exists = TRUE])
    /\ proc' = "migrating"
    /\ UNCHANGED <<secretVars, release, secret, lastGood, backupVars>>

\* One entry and its number, in one transaction.  What exists cannot be created
\* again: the process then ends.
Migrate ==
    /\ proc = "migrating" /\ db.version < release
    /\ LET i == db.version + 1 IN
         IF i \in db.applied THEN proc' = "refused" /\ UNCHANGED <<db, mayBe>>
         ELSE /\ Commit([db EXCEPT !.version = i, !.applied = @ \union {i}])
              /\ UNCHANGED proc
    /\ UNCHANGED <<secretVars, release, secret, lastGood, backupVars>>

\* The rest of startBackgroundJobs; a newer database is opened as it is.
Started ==
    /\ proc = "migrating" /\ db.version >= release
    /\ proc' = "running" /\ lastGood' = secret
    /\ copy' = FALSE    \* removeStaleBackups
    /\ UNCHANGED <<secretVars, db, mayBe, release, secret, taken, stage, saved>>

---------------------------------------------------------------------------
(* Running *)

\* A client's keys, a console's credentials or the mail server's password.
SealValue ==
    /\ proc = "running"
    /\ Commit([db EXCEPT !.sealed = @ \union {secret}])
    /\ UNCHANGED <<secretVars, proc, release, secret, lastGood, backupVars>>

\* SQLite's own, or closeDatabase's.
Checkpoint ==
    /\ proc = "running"
    /\ mayBe' = {db}
    /\ UNCHANGED <<secretVars, db, proc, release, secret, lastGood, backupVars>>

\* openBackup up to its await; refused while another is under way.
MakeBackup ==
    /\ proc = "running" /\ ~taken
    /\ taken' = TRUE /\ stage' = "making" /\ copy' = TRUE
    /\ saved' = [db |-> db, secret |-> secret]
    /\ UNCHANGED <<secretVars, db, mayBe, proc, release, secret, lastGood>>

\* The copy is open, and gone from the directory, or could not be opened.
BackupOpened ==
    /\ proc = "running" /\ stage = "making"
    /\ copy' = FALSE
    /\ \/ stage' = "sending" /\ UNCHANGED <<taken, saved>>
       \/ stage' = "idle" /\ taken' = FALSE /\ saved' = NoBackup
    /\ UNCHANGED <<secretVars, db, mayBe, proc, release, secret, lastGood>>

\* The stream closes: sent to the end, abandoned, or cancelled as the event could
\* not be logged.
BackupClosed ==
    /\ proc = "running" /\ stage = "sending"
    /\ stage' = "idle" /\ taken' = FALSE /\ saved' \in {saved, NoBackup}
    /\ UNCHANGED <<secretVars, db, mayBe, copy, proc, release, secret, lastGood>>

---------------------------------------------------------------------------
(* Ending *)

Ended == /\ proc' = "down" /\ secret' = Missing
         /\ taken' = FALSE /\ stage' = "idle"
         /\ saved' = IF stage = "idle" THEN saved ELSE NoBackup

\* SIGTERM: checkpoint and close, now or when the deadline has passed.
Stop ==
    /\ proc = "running"
    /\ Ended
    /\ mayBe' = {db}
    /\ UNCHANGED <<secretVars, db, copy, release, lastGood>>

\* What a killed process left is on the disk before the power fails.
Killed ==
    /\ ~Down
    /\ Ended
    /\ keySynced' = keyFile /\ mayBe' = {db}
    /\ UNCHANGED <<given, keyFile, used, mislaid, db, copy, release, lastGood>>

PowerFails ==
    /\ ~Down
    /\ Ended
    /\ db' \in mayBe /\ mayBe' = {db'}
    /\ keyFile' \in {keyFile, keySynced} /\ keySynced' = keyFile'
    /\ UNCHANGED <<given, used, mislaid, copy, release, lastGood>>

---------------------------------------------------------------------------
(* The administrator, while the controller is down *)

PutSecret(v, k) == given' = v /\ keyFile' = k /\ keySynced' = k

Mislay ==
    /\ Down /\ db.exists /\ ~mislaid
    /\ mislaid' = TRUE
    /\ \E x \in {Missing, Damaged} :
         IF given = Missing THEN PutSecret(Missing, x) ELSE PutSecret(x, keyFile)
    /\ UNCHANGED <<used, db, mayBe, proc, release, secret, lastGood, backupVars>>

\* In the file, or in the variable (env.ts:62).
PutBack(k) == PutSecret(Missing, k) \/ PutSecret(k, keyFile)

Recover ==
    /\ Down /\ mislaid /\ lastGood # Missing
    /\ mislaid' = FALSE /\ proc' = "down"
    /\ PutBack(lastGood)
    /\ UNCHANGED <<used, db, mayBe, release, secret, lastGood, backupVars>>

Restore ==
    /\ Down /\ saved # NoBackup /\ mayBe = {db}
    /\ db' = saved.db /\ mayBe' = {saved.db}
    /\ lastGood' = saved.secret /\ proc' = "down"
    /\ \/ mislaid' = FALSE /\ PutBack(saved.secret)
       \/ mislaid' = TRUE /\ PutSecret(Missing, Missing)
    /\ UNCHANGED <<used, release, secret, backupVars>>

DataDirNext ==
    \/ \E r \in Releases : StartRelease(r)
    \/ LoadSecret \/ RenameKey \/ FsyncDir \/ OpenDatabase \/ Migrate \/ Started
    \/ SealValue \/ Checkpoint \/ MakeBackup \/ BackupOpened \/ BackupClosed
    \/ Stop \/ Killed \/ PowerFails
    \/ Mislay \/ Recover \/ Restore

DataDirSpec == DataDirInit /\ [][DataDirNext]_dataDirVars

---------------------------------------------------------------------------
(* Properties *)

\* However the process was killed or the power failed, and whichever release is
\* started on whatever was restored: a controller that runs can open every value
\* that is sealed, finds every column it names, and may leave out those it does
\* not know; it refuses to start only where the secret has been lost and not put
\* back (env.ts:42-47, 83-84; migrations.ts:2-4); and of a backup no copy is left
\* (backup.ts:7-9).
DataSurvives ==
    /\ proc = "running" =>
         /\ db.sealed \subseteq {secret}
         /\ Named(release) \subseteq Columns(db)
         /\ Columns(db) \ Named(release) \subseteq LeftOut
         /\ copy => stage = "making"
    /\ proc = "refused" => mislaid
=============================================================================
