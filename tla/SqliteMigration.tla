--------------------------- MODULE SqliteMigration ---------------------------
(***************************************************************************)
(* The life of the agent's SQLite file (infrastructure/sqlite/store.py):   *)
(* creation and migration by SQLiteStore.initialize under the              *)
(* initialization lock, the immutable pre-migration backup, the            *)
(* maintenance backup, and the restore of a verified backup.               *)
(*                                                                         *)
(* The service and one operator run commands side by side.  A process is   *)
(* killed, the power is lost or a call fails between any two steps.  A     *)
(* database is its schema version and the number of row writes it holds;   *)
(* the file and its WAL are one object.  A file that os.link gave a second *)
(* name has two links until one name is removed.                           *)
(***************************************************************************)
EXTENDS Naturals, FiniteSets

CONSTANTS
  MaxWrites,     \* bound on row writes
  MaxCommands,   \* bound on the operator's commands
  MaxFaults      \* bound on kills, power losses and failing calls

\* The previous release may have written one row already.
ASSUME BoundsAssumption == MaxWrites \in Nat \ {0} /\ MaxCommands \in Nat /\ MaxFaults \in Nat

Service == "service"
Operator == "operator"
Procs == {Service, Operator}
Nobody == "nobody"

\* SCHEMA_VERSION: the highest migration under versions/.
SchemaVersion == 2

Database == [kind : {"sound"}, ver : 0..SchemaVersion, data : 0..MaxWrites]
Sound(ver, data) == [kind |-> "sound", ver |-> ver, data |-> data]
Absent == [kind |-> "absent", ver |-> 0, data |-> 0]   \* no such file
Torn == [kind |-> "torn", ver |-> 0, data |-> 0]       \* a file cut in the middle
Empty == Sound(0, 0)                                   \* zero length, or just created
File == Database \cup {Absent, Torn}
Readable(db) == db.kind = "sound"

\* The files the maintenance backup writes: one the operator names, and the
\* .pre-restore.bak of a restore.
Destinations == {"export", "undo"}
\* What a restore may read: any of these files, .pre-restore.bak included, or
\* .pre-migrate.bak.
Sources == Destinations \cup {"backup"}

VARIABLES
  main,       \* the database at SQLiteStore.path
  synced,     \* no part of main is only in the page cache
  backup,     \* .pre-migrate.bak: its contents and its links
  copy,       \* the destinations of create_verified_backup, likewise
  previous,   \* the .previous link of the backup under way
  pc,         \* where each process is
  cand,       \* the candidate file of each process
  had,        \* migration_backup is not None, of the lock's holder
  lock,       \* the holder of .initialize.lock
  command,    \* the operator's command: destination, restore source and its schema
  existed,    \* the restored database existed
  expected,   \* history: the rows the file ought to hold
  disturbed,  \* history: a restore's write of main has not ended well
  reset,      \* history: a start made a new database out of an emptied one
  cut,        \* history: a process died while the backup had two names
  faults, commands

files == <<main, synced, backup, copy, previous>>
history == <<expected, disturbed, reset, cut>>
vars == <<files, pc, cand, had, lock, command, existed, history, faults, commands>>

NoSource == [dest |-> "export", source |-> "none", ver |-> 0]
NoFile == [db |-> Absent, links |-> 0]
FileRecord == [db : File, links : 0..2]
Locked == {"copying", "copied", "linked", "migrating", "checking", "restoring"}
Backing == {"snapshot", "taken", "previous", "published"}
Overwriting == {"overwrite", "writing", "undoing"}

\* _validate_regular_database and _inspect_database of a copy: one link, sound,
\* and of an accepted version.
Verified(f, versions) == f.links = 1 /\ Readable(f.db) /\ f.db.ver \in versions

\* _logical_fingerprint: what the dump of a schema-1 database tells apart.
Fingerprint(db) == db.data

Source(s) == IF s = "backup" THEN backup ELSE copy[s]

\* The previous release left schema 1, or the agent was never started.
Init ==
  /\ \E db \in {Absent, Sound(1, 1)} :
       main = db /\ expected = db.data
  /\ synced = TRUE
  /\ backup = NoFile
  /\ copy = [d \in Destinations |-> NoFile]
  /\ previous = Absent
  /\ pc = [p \in Procs |-> "idle"]
  /\ cand = [p \in Procs |-> Absent]
  /\ had = FALSE
  /\ lock = Nobody
  /\ command = NoSource
  /\ existed = FALSE
  /\ disturbed = FALSE /\ reset = FALSE /\ cut = FALSE
  /\ faults = 0 /\ commands = 0

At(p, here, there) == pc[p] = here /\ pc' = [pc EXCEPT ![p] = there]
Spend == faults < MaxFaults /\ faults' = faults + 1

\* A command or start ends, well or not: the lock and the candidate are gone.
\* A command that failed and one that succeeded look alike here.
Leave(p, there) ==
  /\ pc' = [pc EXCEPT ![p] = there]
  /\ cand' = [cand EXCEPT ![p] = Absent]
  /\ lock' = IF lock = p THEN Nobody ELSE lock
  /\ had' = IF lock = p THEN FALSE ELSE had

Restoring == command.source # "none" /\ pc[Operator] \in Backing \cup Overwriting

(***************************************************************************)
(* SQLiteStore.initialize                                                  *)
(***************************************************************************)

\* The service starts, or the operator's prune-artifacts initializes the store.
\* The service is kept stopped during a restore (recovery-upgrade-and-rollback.md).
Initialize(p) ==
  /\ At(p, "idle", "waiting")
  /\ p = Service => ~Restoring
  /\ p = Operator => commands < MaxCommands
  /\ commands' = IF p = Operator THEN commands + 1 ELSE commands
  /\ UNCHANGED <<files, cand, had, lock, command, existed, history, faults>>

\* _initialization_lock and the inspection of an existing file.  Only schema 1
\* is backed up; a file SQLite cannot read refuses the start.
Inspect(p) ==
  /\ pc[p] = "waiting" /\ lock = Nobody
  /\ \/ /\ main = Torn
        /\ Leave(p, "idle")
     \/ /\ main # Torn
        /\ pc' = [pc EXCEPT ![p] = IF main.ver = 1 THEN "copying" ELSE "migrating"]
        /\ lock' = p /\ had' = FALSE
        /\ UNCHANGED cand
  /\ UNCHANGED <<files, command, existed, history, faults, commands>>

\* _backup_candidate: the online backup of the live file, checked.
CopyLive(p) ==
  /\ At(p, "copying", "copied")
  /\ cand' = [cand EXCEPT ![p] = main]
  /\ UNCHANGED <<files, had, lock, command, existed, history, faults, commands>>

\* A mutant: an existing backup is taken for the live rows unread.
EnsureBackup_Unread(p) ==
  /\ At(p, "copied", IF backup = NoFile THEN "linked" ELSE "migrating")
  /\ backup' = IF backup = NoFile THEN [db |-> cand[p], links |-> 2] ELSE backup
  /\ had' = (backup # NoFile)
  /\ UNCHANGED <<main, synced, copy, previous, cand, lock, command, existed, history, faults,
                 commands>>

\* _ensure_pre_migration_backup: an existing backup must be private, readable and
\* equal to the live rows, or the start is refused; it is never replaced.
EnsureBackup(p) ==
  /\ pc[p] = "copied"
  /\ \/ /\ backup = NoFile                                  \* os.link
        /\ backup' = [db |-> cand[p], links |-> 2]
        /\ pc' = [pc EXCEPT ![p] = "linked"]
        /\ UNCHANGED <<cand, had, lock>>
     \/ /\ backup # NoFile
        /\ Verified(backup, {1}) /\ Fingerprint(backup.db) = Fingerprint(cand[p])
        /\ pc' = [pc EXCEPT ![p] = "migrating"]
        /\ cand' = [cand EXCEPT ![p] = Absent]
        /\ had' = TRUE
        /\ UNCHANGED <<backup, lock>>
     \/ /\ backup # NoFile
        /\ ~(Verified(backup, {1}) /\ Fingerprint(backup.db) = Fingerprint(cand[p]))
        /\ Leave(p, "idle")
        /\ UNCHANGED backup
  /\ UNCHANGED <<main, synced, copy, previous, command, existed, history, faults, commands>>

\* candidate.unlink: the backup is left with one name.
PublishBackup(p) ==
  /\ At(p, "linked", "migrating")
  /\ backup' = [backup EXCEPT !.links = 1]
  /\ cand' = [cand EXCEPT ![p] = Absent]
  /\ had' = TRUE
  /\ UNCHANGED <<main, synced, copy, previous, lock, command, existed, history, faults, commands>>

\* One turn of _apply_migrations: a migration not yet recorded commits with its
\* record and its user_version.  Connecting creates a missing file.
ApplyMigration(p) ==
  /\ pc[p] = "migrating"
  /\ \/ /\ main.ver < SchemaVersion
        /\ main' = Sound(main.ver + 1, main.data)
        /\ reset' = (reset \/ (main = Empty /\ disturbed))
        /\ UNCHANGED pc
     \/ /\ main.ver = SchemaVersion
        /\ pc' = [pc EXCEPT ![p] = "checking"]
        /\ UNCHANGED <<main, reset>>
  /\ UNCHANGED <<synced, backup, copy, previous, cand, had, lock, command, existed, expected,
                 disturbed, cut, faults, commands>>

\* quick_check is ok; closing the connection checkpoints and syncs the file.
Initialized(p) ==
  /\ pc[p] = "checking"
  /\ Leave(p, IF p = Service THEN "running" ELSE "idle")
  /\ synced' = TRUE
  /\ UNCHANGED <<main, backup, copy, previous, command, existed, history, faults, commands>>

\* A mutant: only the regular path removes the candidate's name.
InitializeFails_KeepsName(p) ==
  /\ pc[p] \in Locked \ {"restoring"} /\ Spend
  /\ Leave(p, "idle")
  /\ UNCHANGED <<main, synced, backup, copy, previous, command, existed, history, commands>>

\* A call fails under the lock.  Before the migration the candidate is removed;
\* after it began, the backup is to be restored.
InitializeFails(p) ==
  /\ pc[p] \in Locked \ {"restoring"} /\ Spend
  /\ IF pc[p] \in {"migrating", "checking"} /\ had
     THEN /\ pc' = [pc EXCEPT ![p] = "restoring"]
          /\ UNCHANGED <<backup, cand, had, lock>>
     ELSE /\ Leave(p, "idle")
          /\ backup' = IF pc[p] = "linked" THEN [backup EXCEPT !.links = 1] ELSE backup
  /\ UNCHANGED <<main, synced, copy, previous, command, existed, history, commands>>

\* _restore_pre_migration_backup puts a checked copy of the backup in place by
\* os.replace, or fails and leaves the file; the start is refused either way.
RestorePreMigration(p) ==
  /\ pc[p] = "restoring"
  /\ \/ /\ Verified(backup, {1})
        /\ main' = backup.db /\ synced' = TRUE
        /\ UNCHANGED faults
     \/ /\ Spend
        /\ UNCHANGED <<main, synced>>
  /\ Leave(p, "idle")
  /\ UNCHANGED <<backup, copy, previous, command, existed, history, commands>>

(***************************************************************************)
(* create_verified_backup and restore_verified_backup                      *)
(***************************************************************************)

\* maintenance backup, also of a running service.
Backup ==
  /\ At(Operator, "idle", "snapshot") /\ commands < MaxCommands
  /\ command' = NoSource
  /\ commands' = commands + 1
  /\ UNCHANGED <<files, cand, had, lock, existed, history, faults>>

\* A mutant: a .pre-restore.bak that exists is kept.
Restore_KeepsUndo ==
  /\ pc[Operator] = "idle" /\ pc[Service] = "idle" /\ commands < MaxCommands
  /\ \E s \in Sources :
       /\ Verified(Source(s), {1, SchemaVersion})
       /\ command' = [dest |-> "undo", source |-> s, ver |-> Source(s).db.ver]
  /\ existed' = (main # Absent)
  /\ pc' = [pc EXCEPT ![Operator] =
              IF main # Absent /\ copy["undo"] = NoFile THEN "snapshot" ELSE "overwrite"]
  /\ commands' = commands + 1
  /\ UNCHANGED <<files, cand, had, lock, history, faults>>

\* maintenance restore, with the service stopped: a source that is not verified
\* ends the command; an existing database is first backed up.
Restore ==
  /\ pc[Operator] = "idle" /\ pc[Service] = "idle" /\ commands < MaxCommands
  /\ \E s \in Sources :
       /\ Verified(Source(s), {1, SchemaVersion})
       /\ command' = [dest |-> "undo", source |-> s, ver |-> Source(s).db.ver]
  /\ existed' = (main # Absent)
  /\ pc' = [pc EXCEPT ![Operator] = IF main # Absent THEN "snapshot" ELSE "overwrite"]
  /\ commands' = commands + 1
  /\ UNCHANGED <<files, cand, had, lock, history, faults>>

\* The checks on both files, and the candidate: a missing, damaged or unclaimed
\* database and a destination with a second name end the command.
Snapshot ==
  /\ pc[Operator] = "snapshot"
  /\ LET allowed == /\ Readable(main) /\ main.ver \in {1, SchemaVersion}
                    /\ copy[command.dest].links \in {0, 1}
     IN \/ /\ allowed
           /\ pc' = [pc EXCEPT ![Operator] = "taken"]
           /\ cand' = [cand EXCEPT ![Operator] = main]
           /\ UNCHANGED <<had, lock>>
        \/ ~allowed /\ Leave(Operator, "idle")
  /\ UNCHANGED <<files, command, existed, history, faults, commands>>

\* os.link keeps an existing destination under a second name.
LinkPrevious ==
  /\ At(Operator, "taken", "previous")
  /\ LET d == command.dest
     IN IF copy[d] = NoFile
        THEN UNCHANGED <<copy, previous>>
        ELSE /\ previous' = copy[d].db
             /\ copy' = [copy EXCEPT ![d].links = 2]
  /\ UNCHANGED <<main, synced, backup, cand, had, lock, command, existed, history, faults, commands>>

\* os.replace(candidate, destination)
ReplaceDestination ==
  /\ At(Operator, "previous", "published")
  /\ copy' = [copy EXCEPT ![command.dest] = [db |-> cand[Operator], links |-> 1]]
  /\ cand' = [cand EXCEPT ![Operator] = Absent]
  /\ UNCHANGED <<main, synced, backup, previous, had, lock, command, existed, history, faults,
                 commands>>

\* The destination is durable: the previous name is dropped.
BackupDone ==
  /\ At(Operator, "published", IF command.source = "none" THEN "idle" ELSE "overwrite")
  /\ previous' = Absent
  /\ UNCHANGED <<main, synced, backup, copy, cand, had, lock, command, existed, history, faults,
                 commands>>

\* A call of the backup fails: a published destination gets its previous file
\* back, or, when that fails too, the previous file stays under its own name.
\* Renaming one name of a file onto another leaves both: the unlink that follows
\* takes the destination's second name away.
BackupFails ==
  /\ pc[Operator] \in Backing /\ Spend
  /\ Leave(Operator, "idle")
  /\ previous' = Absent
  /\ LET d == command.dest
     IN copy' \in CASE pc[Operator] \in {"snapshot", "taken"} -> {copy}
                    [] pc[Operator] = "previous" ->
                         {IF copy[d].links = 2 THEN [copy EXCEPT ![d].links = 1] ELSE copy}
                    [] OTHER ->
                         {copy} \cup IF previous = Absent THEN {}
                                     ELSE {[copy EXCEPT ![d] = [db |-> previous, links |-> 1]]}
  /\ UNCHANGED <<main, synced, backup, command, existed, history, commands>>

\* shutil.copy2 empties the database's file, then fills it.
TruncateMain ==
  /\ At(Operator, "overwrite", "writing")
  /\ main' \in {Empty, Torn} /\ synced' = FALSE
  /\ disturbed' = TRUE
  /\ UNCHANGED <<backup, copy, previous, cand, had, lock, command, existed, expected, reset, cut,
                 faults, commands>>

\* The copy ends and has the schema that was verified; nothing syncs it.  A source
\* .pre-restore.bak was replaced by the backup of the database meanwhile: the
\* command puts the rows back that were there and reports a restore.
RestoreDone ==
  /\ At(Operator, "writing", "idle")
  /\ Source(command.source).db.ver = command.ver
  /\ main' = Source(command.source).db
  /\ expected' = IF command.source = "undo" THEN expected ELSE main'.data
  /\ disturbed' = (command.source = "undo" /\ reset)
  /\ reset' = disturbed'
  /\ UNCHANGED <<synced, backup, copy, previous, cand, had, lock, command, existed, cut, faults,
                 commands>>

\* The copy fails or has another schema: the .pre-restore.bak is copied back the
\* same way, if there was a database.
RestoreFails ==
  /\ pc[Operator] = "writing"
  /\ \/ Source(command.source).db.ver # command.ver /\ UNCHANGED faults
     \/ Spend
  /\ pc' = [pc EXCEPT ![Operator] = IF existed /\ copy["undo"] # NoFile THEN "undoing" ELSE "idle"]
  /\ UNCHANGED <<files, cand, had, lock, command, existed, history, commands>>

UndoRestore ==
  /\ At(Operator, "undoing", "idle")
  /\ \/ main' = copy["undo"].db /\ disturbed' = reset /\ UNCHANGED faults
     \/ main' \in {Empty, Torn} /\ Spend /\ UNCHANGED disturbed
  /\ UNCHANGED <<synced, backup, copy, previous, cand, had, lock, command, existed, expected,
                 reset, cut, commands>>

(***************************************************************************)
(* The environment                                                         *)
(***************************************************************************)

\* The running service commits a row (the actions of the other modules).
Write ==
  /\ pc[Service] = "running" /\ main.ver = SchemaVersion /\ main.data < MaxWrites
  /\ main' = [main EXCEPT !.data = @ + 1]
  /\ expected' = main.data + 1
  /\ UNCHANGED <<synced, backup, copy, previous, pc, cand, had, lock, command, existed, disturbed,
                 reset, cut, faults, commands>>

\* The previous release, started on schema 1, commits a row.
LegacyWrite ==
  /\ \A p \in Procs : pc[p] = "idle"
  /\ main.ver = 1 /\ main.data < MaxWrites
  /\ main' = [main EXCEPT !.data = @ + 1] /\ synced' = TRUE
  /\ expected' = main.data + 1
  /\ UNCHANGED <<backup, copy, previous, pc, cand, had, lock, command, existed, disturbed, reset,
                 cut, faults, commands>>

StopService ==
  /\ At(Service, "running", "idle")
  /\ UNCHANGED <<files, cand, had, lock, command, existed, history, faults, commands>>

\* Died(p): what the death of p leaves.  A file it had given a second name keeps it.
Died(p) == pc[p] = "linked"

\* A process is killed.  Its private files stay behind, unread by anyone.
Kill(p) ==
  /\ pc[p] \notin {"idle", "waiting"} /\ Spend
  /\ Leave(p, "idle")
  /\ previous' = IF p = Operator THEN Absent ELSE previous
  /\ cut' = (cut \/ Died(p))
  /\ UNCHANGED <<main, synced, backup, copy, command, existed, expected, disturbed, reset, commands>>

\* The power is lost: what only the page cache held may be missing.
PowerLoss ==
  /\ Spend
  /\ pc' = [p \in Procs |-> "idle"]
  /\ cand' = [p \in Procs |-> Absent]
  /\ lock' = Nobody /\ had' = FALSE /\ previous' = Absent
  /\ cut' = (cut \/ \E p \in Procs : Died(p))
  /\ main' \in {main} \cup (IF synced THEN {} ELSE {Empty, Torn})
  /\ disturbed' = (disturbed \/ main' # main)
  /\ synced' = TRUE
  /\ UNCHANGED <<backup, copy, command, existed, expected, reset, commands>>

(***************************************************************************)
(* The specification                                                       *)
(***************************************************************************)
Initializing(p) ==
  \/ Initialize(p) \/ Inspect(p) \/ CopyLive(p) \/ EnsureBackup(p) \/ PublishBackup(p)
  \/ ApplyMigration(p) \/ Initialized(p) \/ RestorePreMigration(p)

Maintenance ==
  \/ Snapshot \/ LinkPrevious \/ ReplaceDestination \/ BackupDone
  \/ TruncateMain \/ RestoreDone \/ RestoreFails \/ UndoRestore

Next ==
  \/ \E p \in Procs : Initializing(p) \/ InitializeFails(p) \/ Kill(p)
  \/ Maintenance \/ Backup \/ Restore \/ BackupFails
  \/ Write \/ LegacyWrite \/ StopService \/ PowerLoss

Spec == Init /\ [][Next]_vars

\* A process that is not stopped goes on, the operating system hands the lock to
\* a service that waits for it again and again, and systemd starts the service again
\* (Restart=on-failure).  Nobody has to start a command, write or fail.
Fairness ==
  /\ SF_vars(Initializing(Service))
  /\ WF_vars(pc[Operator] # "idle" /\ Initializing(Operator))
  /\ WF_vars(Maintenance)

FairSpec == Spec /\ Fairness

(***************************************************************************)
(* Properties                                                              *)
(***************************************************************************)
FilesType ==
  /\ main \in File /\ previous \in File
  /\ backup \in FileRecord
  /\ copy \in [Destinations -> FileRecord]
  /\ cand \in [Procs -> File]

PCs == {"idle", "waiting", "running"} \cup Locked \cup Backing \cup Overwriting

ControlType ==
  /\ pc \in [Procs -> PCs]
  /\ lock \in Procs \cup {Nobody}
  /\ \A p \in Procs : pc[p] \in Locked <=> lock = p
  /\ command \in [dest : Destinations, source : Sources \cup {"none"}, ver : 0..SchemaVersion]

FlagsType ==
  /\ synced \in BOOLEAN /\ had \in BOOLEAN /\ existed \in BOOLEAN
  /\ disturbed \in BOOLEAN /\ reset \in BOOLEAN /\ cut \in BOOLEAN

CountersType == expected \in 0..MaxWrites /\ faults \in 0..MaxFaults /\ commands \in 0..MaxCommands

\* Every file, flag and counter keeps its shape, and the lock has one holder.
TypeOK == FilesType /\ ControlType /\ FlagsType /\ CountersType

\* Whatever start, failed migration, backup or kill happens, the database keeps
\* every committed row, unless a restore was interrupted while it wrote the file
\* (store.py: initialize, _restore_pre_migration_backup, restore_verified_backup).
RowsKept ==
  ~disturbed =>
    \/ Readable(main) /\ main.data = expected
    \/ main = Absent /\ expected = 0

\* After an interrupted or torn restore some verified file still holds the rows,
\* until a start builds a new database on the emptied file: .pre-restore.bak is
\* written before the database is touched and not again from a damaged one.
Recoverable ==
  disturbed /\ ~reset =>
    \/ expected = 0
    \/ \E f \in {backup} \cup {copy[d] : d \in Destinations} :
         Readable(f.db) /\ f.db.data = expected

\* The rows survive: in the database, or in a verified copy while a restore that
\* was cut short leaves the database damaged.
RowsSurvive == TypeOK /\ RowsKept /\ Recoverable

\* Rows of schema 1 are migrated only once .pre-migrate.bak holds exactly them under
\* one name, whatever earlier upgrade, downgrade or crash left there.
MigrationHasBackup ==
  [][(main.ver = 1 /\ main'.ver = SchemaVersion /\ main'.data = main.data /\ main.data # 0)
       => backup = [db |-> main, links |-> 1]]_vars

\* Every start ends, and the service comes up on the current schema unless the file
\* is damaged, the backup is of other rows, or a process died between os.link and
\* candidate.unlink and left the backup with two names.
Blocked ==
  \/ main = Torn
  \/ main.ver = 1 /\ backup # NoFile /\ backup.db # main
  \/ main.ver = 1 /\ cut
StartSettles == (pc[Service] = "idle") ~> (pc[Service] = "running" \/ Blocked)
=============================================================================
