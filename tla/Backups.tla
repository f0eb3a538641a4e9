-------------------------------- MODULE Backups --------------------------------
(***************************************************************************)
(* Database backups of MARK-OS (app/services/database_backup.py).          *)
(*                                                                         *)
(* A backup job (the scheduled command, or the Owner's download route)     *)
(* copies the live database to a temporary file, verifies it, renames it   *)
(* into the backup directory, writes a manifest beside it, applies the     *)
(* retention rule and logs an event.  Jobs share the directory and nothing *)
(* else: there is no lock, and each step is a file operation of its own,   *)
(* so other jobs, a restore, a kill or a disk error may come between any   *)
(* two.                                                                    *)
(*                                                                         *)
(* A file's content is the version of the live database it holds, or Torn. *)
(* Every job makes one backup file, so the job names the file.             *)
(***************************************************************************)
EXTENDS Integers, FiniteSets

CONSTANTS
  Jobs,          \* backup jobs; also the names of their files
  NoJob,
  MaxVersion,    \* bound: writes to the live database
  BackupRooms    \* what a behaviour has room for: keep_last, the versions of the
                 \* live database that break a foreign key, and the bounds on
                 \* jobs at the same time, on jobs and restores killed, on file
                 \* operations that fail, and on files damaged on disk

Versions == 0 .. MaxVersion
NoFile == -1
Torn == -2

ASSUME BackupsAssumption ==
  /\ NoJob \notin Jobs /\ IsFiniteSet(Jobs)
  /\ MaxVersion \in Nat
  /\ BackupRooms \subseteq [keep : Nat \ {0}, bad : SUBSET Versions, active : Nat,
                            kills : Nat, faults : Nat, rots : Nat]

VARIABLES
  live,       \* version of the live database
  pc,         \* where each job is
  temp,       \* the temporary file of each job
  file,       \* the backup files
  manifest,   \* the content each manifest vouches for
  mtime,      \* modification times: the number of copies made so far, 0 before the copy
  seen,       \* what final_verification and the directory listing told each job
  events,     \* the event log: the last status each job recorded
  restore,    \* the restore command: its stage and locals
  dest,       \* the file it restores to
  damage,     \* kills, faults and rots so far
  room        \* what this behaviour has room for

vars == <<live, pc, temp, file, manifest, mtime, seen, events, restore, dest, damage, room>>

Active == {"copy", "verify", "place", "inspect", "manifest", "list", "sort",
           "remove", "unmanifest", "log"}
JobEnded == {"succeeded", "failed", "killed"}

\* verify_sqlite_database: quick_check and foreign_key_check find nothing.
Sound(content) == content \in Versions \ room.bad

Exists(j) == file[j] # NoFile
BackupFiles == {j \in Jobs : Exists(j)}

Copied == {j \in Jobs : mtime[j] # 0}

Newer(files, j) == {i \in files : mtime[i] > mtime[j]}

\* Mutant: the oldest come first.
TooManyOldestKept(files) ==
  {j \in files : Cardinality({i \in files : mtime[i] < mtime[j]}) >= room.keep}

\* candidates[keep_last:], with the candidates sorted newest first.
TooMany(files) == {j \in files : Cardinality(Newer(files, j)) >= room.keep}

\* The file of a job's removals that has its turn: they go newest first.
NextOf(doomed) == CHOOSE j \in doomed : Newer(doomed, j) = {}

\* verify_sqlite_database and verify_backup_manifest accept the pair.
Restorable(j) == Sound(file[j]) /\ manifest[j] = file[j]

NoRestore == [stage |-> "idle", from |-> NoJob, strict |-> TRUE, over |-> FALSE,
              temp |-> NoFile]

Init ==
  /\ live = 0
  /\ pc = [j \in Jobs |-> "idle"]
  /\ temp = [j \in Jobs |-> NoFile]
  /\ file = [j \in Jobs |-> NoFile]
  /\ manifest = [j \in Jobs |-> NoFile]
  /\ mtime = [j \in Jobs |-> 0]
  /\ seen = [j \in Jobs |-> [content |-> NoFile, found |-> {}, doomed |-> {}]]
  /\ events = [j \in Jobs |-> "none"]
  /\ restore = NoRestore
  /\ dest = NoFile
  /\ damage = [kills |-> 0, faults |-> 0, rots |-> 0]
  /\ room \in BackupRooms

Goto(j, stage) == pc' = [pc EXCEPT ![j] = stage]

-----------------------------------------------------------------------------
(* create_sqlite_backup, one action per file operation.                    *)

Start(j) ==
  /\ pc[j] = "idle"
  /\ Cardinality({i \in Jobs : pc[i] \in Active}) < room.active
  /\ Goto(j, "copy")
  /\ UNCHANGED <<live, temp, file, manifest, mtime, seen, events, restore, dest, damage, room>>

\* The online backup restarts when the source changes, so what it ends with is
\* one version: the live one.
Copy(j) ==
  /\ pc[j] = "copy"
  /\ temp' = [temp EXCEPT ![j] = live]
  /\ mtime' = [mtime EXCEPT ![j] = Cardinality(Copied) + 1]
  /\ Goto(j, "verify")
  /\ UNCHANGED <<live, file, manifest, seen, events, restore, dest, damage, room>>

\* The except clause: the temporary file goes, what was renamed stays.
FailJob(j) ==
  /\ temp' = [temp EXCEPT ![j] = NoFile]
  /\ events' = [events EXCEPT ![j] = "failed"]
  /\ Goto(j, "failed")

Verify(j) ==
  /\ pc[j] = "verify"
  /\ \/ /\ Sound(temp[j])
        /\ Goto(j, "place")
        /\ UNCHANGED <<temp, events>>
     \/ ~Sound(temp[j]) /\ FailJob(j)
  /\ UNCHANGED <<live, file, manifest, mtime, seen, restore, dest, damage, room>>

\* os.replace keeps the modification time of the copy.
Place(j) ==
  /\ pc[j] = "place"
  /\ file' = [file EXCEPT ![j] = temp[j]]
  /\ temp' = [temp EXCEPT ![j] = NoFile]
  /\ Goto(j, "inspect")
  /\ UNCHANGED <<live, manifest, mtime, seen, events, restore, dest, damage, room>>

\* The final verification reads the file again; its verdict is only recorded.
\* Another job's retention may have removed the file by now.
Inspect(j) ==
  /\ pc[j] = "inspect"
  /\ \/ /\ Exists(j)
        /\ seen' = [seen EXCEPT ![j].content = file[j]]
        /\ Goto(j, "manifest")
        /\ UNCHANGED <<temp, events>>
     \/ ~Exists(j) /\ FailJob(j) /\ UNCHANGED seen
  /\ UNCHANGED <<live, file, manifest, mtime, restore, dest, damage, room>>

\* Mutant: the manifest describes the live database, not the file.
WriteManifestEarly(j) ==
  /\ pc[j] = "manifest"
  /\ manifest' = [manifest EXCEPT ![j] = live]
  /\ Goto(j, "list")
  /\ UNCHANGED <<live, temp, file, mtime, seen, events, restore, dest, damage, room>>

WriteManifest(j) ==
  /\ pc[j] = "manifest"
  /\ manifest' = [manifest EXCEPT ![j] = seen[j].content]
  /\ Goto(j, "list")
  /\ UNCHANGED <<live, temp, file, mtime, seen, events, restore, dest, damage, room>>

\* _remove_old_backups lists the directory first ...
List(j) ==
  /\ pc[j] = "list"
  /\ seen' = [seen EXCEPT ![j].found = BackupFiles]
  /\ Goto(j, "sort")
  /\ UNCHANGED <<live, temp, file, manifest, mtime, events, restore, dest, damage, room>>

\* ... then asks for every modification time, which raises FileNotFoundError
\* when another job has removed one of the files.
Sort(j) ==
  /\ pc[j] = "sort"
  /\ \/ /\ seen[j].found \subseteq BackupFiles
        /\ seen' = [seen EXCEPT ![j].doomed = TooMany(seen[j].found)]
        /\ Goto(j, IF TooMany(seen[j].found) # {} THEN "remove" ELSE "log")
        /\ UNCHANGED <<temp, events>>
     \/ /\ ~(seen[j].found \subseteq BackupFiles)
        /\ FailJob(j)
        /\ UNCHANGED seen
  /\ UNCHANGED <<live, file, manifest, mtime, restore, dest, damage, room>>

\* unlink(missing_ok=True), the backup first ...
RemoveBackup(j) ==
  /\ pc[j] = "remove"
  /\ file' = [file EXCEPT ![NextOf(seen[j].doomed)] = NoFile]
  /\ Goto(j, "unmanifest")
  /\ UNCHANGED <<live, temp, manifest, mtime, seen, events, restore, dest, damage, room>>

\* ... and then its manifest.
RemoveManifest(j) ==
  /\ pc[j] = "unmanifest"
  /\ manifest' = [manifest EXCEPT ![NextOf(seen[j].doomed)] = NoFile]
  /\ seen' = [seen EXCEPT ![j].doomed = @ \ {NextOf(@)}]
  /\ Goto(j, IF seen[j].doomed = {NextOf(seen[j].doomed)} THEN "log" ELSE "remove")
  /\ UNCHANGED <<live, temp, file, mtime, events, restore, dest, damage, room>>

Log(j) ==
  /\ pc[j] = "log"
  /\ events' = [events EXCEPT ![j] = "succeeded"]
  /\ Goto(j, "succeeded")
  /\ UNCHANGED <<live, temp, file, manifest, mtime, seen, restore, dest, damage, room>>

\* A file operation of the job fails: a full disk, a lost volume.
Fault(j) ==
  /\ pc[j] \in Active
  /\ damage.faults < room.faults
  /\ damage' = [damage EXCEPT !.faults = @ + 1]
  /\ FailJob(j)
  /\ UNCHANGED <<live, file, manifest, mtime, seen, restore, dest, room>>

\* The job's process dies: nothing is cleaned up, nothing is logged.
Kill(j) ==
  /\ pc[j] \in Active
  /\ damage.kills < room.kills
  /\ damage' = [damage EXCEPT !.kills = @ + 1]
  /\ Goto(j, "killed")
  /\ UNCHANGED <<live, temp, file, manifest, mtime, seen, events, restore, dest, room>>

Backup(j) ==
  \/ Start(j) \/ Copy(j) \/ Verify(j) \/ Place(j) \/ Inspect(j) \/ WriteManifest(j)
  \/ List(j) \/ Sort(j) \/ RemoveBackup(j) \/ RemoveManifest(j) \/ Log(j)

-----------------------------------------------------------------------------
(* restore_sqlite_backup, run by an operator; one at a time.               *)

AtRestore(stage) == restore' = [restore EXCEPT !.stage = stage]

\* The existence checks, and the destination must be new unless overwriting.
BeginRestore ==
  /\ restore.stage \in {"idle", "done", "refused"}
  /\ \E j \in BackupFiles, strict \in BOOLEAN, over \in BOOLEAN :
       restore' = [stage |-> IF dest # NoFile /\ ~over THEN "refused" ELSE "check",
                   from |-> j, strict |-> strict, over |-> over, temp |-> NoFile]
  /\ UNCHANGED <<live, pc, temp, file, manifest, mtime, seen, events, dest, damage, room>>

CheckBackup ==
  /\ restore.stage = "check"
  /\ AtRestore(IF ~Sound(file[restore.from]) THEN "refused"
               ELSE IF restore.strict THEN "vouch" ELSE "copy")
  /\ UNCHANGED <<live, pc, temp, file, manifest, mtime, seen, events, dest, damage, room>>

CheckManifest ==
  /\ restore.stage = "vouch"
  /\ AtRestore(IF Exists(restore.from) /\ manifest[restore.from] = file[restore.from]
               THEN "copy" ELSE "refused")
  /\ UNCHANGED <<live, pc, temp, file, manifest, mtime, seen, events, dest, damage, room>>

\* The backup may have been removed or damaged since it was checked.
CopyOut ==
  /\ restore.stage = "copy"
  /\ restore' = IF Exists(restore.from)
                THEN [restore EXCEPT !.stage = "verify", !.temp = file[restore.from]]
                ELSE [restore EXCEPT !.stage = "refused"]
  /\ UNCHANGED <<live, pc, temp, file, manifest, mtime, seen, events, dest, damage, room>>

\* Mutant: what was copied is trusted, since the backup was checked.
VerifyOutTrusting ==
  /\ restore.stage = "verify"
  /\ AtRestore(IF restore.over THEN "unlink" ELSE "replace")
  /\ UNCHANGED <<live, pc, temp, file, manifest, mtime, seen, events, dest, damage, room>>

VerifyOut ==
  /\ restore.stage = "verify"
  /\ AtRestore(IF ~Sound(restore.temp) THEN "refused"
               ELSE IF restore.over THEN "unlink" ELSE "replace")
  /\ UNCHANGED <<live, pc, temp, file, manifest, mtime, seen, events, dest, damage, room>>

UnlinkDest ==
  /\ restore.stage = "unlink"
  /\ dest' = NoFile
  /\ AtRestore("replace")
  /\ UNCHANGED <<live, pc, temp, file, manifest, mtime, seen, events, damage, room>>

ReplaceDest ==
  /\ restore.stage = "replace"
  /\ dest' = restore.temp
  /\ AtRestore("done")
  /\ UNCHANGED <<live, pc, temp, file, manifest, mtime, seen, events, damage, room>>

\* The operator's process dies.
KillRestore ==
  /\ restore.stage \in {"check", "vouch", "copy", "verify", "unlink", "replace"}
  /\ damage.kills < room.kills
  /\ damage' = [damage EXCEPT !.kills = @ + 1]
  /\ restore' = NoRestore
  /\ UNCHANGED <<live, pc, temp, file, manifest, mtime, seen, events, dest, room>>

Restoring ==
  \/ BeginRestore \/ CheckBackup \/ CheckManifest \/ CopyOut \/ VerifyOut
  \/ UnlinkDest \/ ReplaceDest \/ KillRestore

-----------------------------------------------------------------------------
(* The application writes; the disk decays.                                *)

WriteLive ==
  /\ live < MaxVersion
  /\ live' = live + 1
  /\ UNCHANGED <<pc, temp, file, manifest, mtime, seen, events, restore, dest, damage, room>>

Rot(j) ==
  /\ Exists(j) /\ file[j] # Torn
  /\ damage.rots < room.rots
  /\ damage' = [damage EXCEPT !.rots = @ + 1]
  /\ file' = [file EXCEPT ![j] = Torn]
  /\ UNCHANGED <<live, pc, temp, manifest, mtime, seen, events, restore, dest, room>>

Next ==
  \/ \E j \in Jobs : Backup(j) \/ Fault(j) \/ Kill(j) \/ Rot(j)
  \/ Restoring
  \/ WriteLive

Spec == Init /\ [][Next]_vars
-----------------------------------------------------------------------------
(* Properties.                                                             *)

\* check_backup_status, age aside: the newest file decides.
Status ==
  IF BackupFiles = {} THEN "missing"
  ELSE IF \A j \in BackupFiles : Newer(BackupFiles, j) = {} => Restorable(j)
       THEN "healthy" ELSE "invalid"

\* Every variable has its type.
TypeOK ==
  /\ live \in Versions
  /\ pc \in [Jobs -> Active \cup JobEnded \cup {"idle"}]
  /\ temp \in [Jobs -> Versions \cup {NoFile}]
  /\ file \in [Jobs -> Versions \cup {NoFile, Torn}]
  /\ manifest \in [Jobs -> Versions \cup {NoFile, Torn}]
  /\ mtime \in [Jobs -> Nat]
  /\ seen \in [Jobs -> [content : Versions \cup {NoFile, Torn}, found : SUBSET Jobs,
                        doomed : SUBSET Jobs]]
  /\ events \in [Jobs -> {"none", "failed", "succeeded"}]
  /\ restore \in [stage : {"idle", "check", "vouch", "copy", "verify", "unlink",
                           "replace", "done", "refused"},
                  from : Jobs \cup {NoJob}, strict : BOOLEAN, over : BOOLEAN,
                  temp : Versions \cup {NoFile, Torn}]
  /\ dest \in Versions \cup {NoFile}
  /\ damage \in [kills : 0 .. room.kills, faults : 0 .. room.faults, rots : 0 .. room.rots]
  /\ room \in BackupRooms

\* A file without a manifest counts as a backup for retention: of a job that was
\* killed, that failed, or that is between its rename and its manifest.  There is
\* always one with a manifest among the newest keep_last when jobs do not overlap,
\* or when fewer than keep_last can be without.
FewWithoutManifest ==
  room.active <= 1 \/ room.active + room.kills + room.faults <= room.keep

\* create_sqlite_backup with its retention: once a job has succeeded there is
\* always a backup the restore command accepts.  (A file damaged on disk may have
\* been the last one.)
CompleteSurvives ==
  FewWithoutManifest /\ damage.rots = 0 /\ (\E j \in Jobs : events[j] = "succeeded")
    => \E j \in BackupFiles : Restorable(j)

\* _remove_old_backups under overlapping jobs: when every job started has
\* succeeded, exactly the newest keep_last backups are left, in whatever order
\* the jobs listed, sorted and removed, and each has its manifest.
NewestKept ==
  (\A j \in Jobs : pc[j] \in {"idle", "succeeded"}) =>
    LET kept == {j \in Copied : Cardinality(Newer(Copied, j)) < room.keep}
    IN  /\ BackupFiles = kept
        /\ damage.rots = 0 => \A j \in kept : manifest[j] = file[j]

\* check_backup_status: with no job running and none failed or killed, a monitor
\* never raises a false alarm, whatever versions the jobs met and in whatever
\* order they finished.
NoFalseAlarm ==
  damage.rots = 0 /\ (\A j \in Jobs : pc[j] \in {"idle", "succeeded"}) /\ Copied # {}
    => Status = "healthy"

\* restore_sqlite_backup: whatever happens to the backup between its checks and
\* its copy, the destination never holds a database that fails verification.
RestoreSound == dest # NoFile => Sound(dest)

\* _remove_old_backups: overlapping or broken off, retention removes what is too
\* many and never the last backup that can be restored.
RetentionSafe == CompleteSurvives /\ NewestKept
=============================================================================
