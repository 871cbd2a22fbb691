------------------------------- MODULE Rollback ------------------------------
(***************************************************************************)
(* hmn rollback: four files saved by the installer's upgrade are put back  *)
(* while the control plane is stopped.  The copying of one file is atomic  *)
(* (temporary file, then rename); the copying of all four is not, and the  *)
(* command can fail or die between any two of its steps and be repeated.   *)
(*                                                                         *)
(* Where the database goes is read from master.env, which is itself put    *)
(* back after it.                                                          *)
(***************************************************************************)
EXTENDS Naturals, Sequences

CONSTANTS DbPath  \* database paths a master.env may name

\* The copies are made in this order.
Labels == <<"database", "master.env", "config.yaml", "metadata">>
EnvFiles == {"master.env", "config.yaml", "metadata"}

VARIABLES
  saved,    \* the labels whose backup exists
  pathOf,   \* the database path that the upgraded ("new") and the saved ("old") master.env name
  files,    \* the content of the three files under the configuration directory
  db,       \* the content of the database file at each path
  service,  \* the control plane
  rolling,  \* the command: its step, target path and how many files it has copied
  skipped   \* history: files were replaced under --skip-systemd

rbVars == <<saved, pathOf, files, db, service, rolling, skipped>>

Content == {"none", "new", "old"}
NoRolling == [pc |-> "idle", path |-> CHOOSE p \in DbPath : TRUE, done |-> 0, skip |-> FALSE]

RbTypeOK ==
  /\ saved \subseteq {Labels[i] : i \in 1..4} /\ pathOf \in [{"new", "old"} -> DbPath]
  /\ files \in [EnvFiles -> Content] /\ db \in [DbPath -> Content]
  /\ service \in {"running", "stopped"}
  /\ rolling \in [pc : {"idle", "stop", "copy", "rename", "start"}, path : DbPath,
                  done : 0..4, skip : BOOLEAN]
  /\ skipped \in BOOLEAN

RbInit ==
  /\ saved \in SUBSET {Labels[i] : i \in 1..4}
  /\ pathOf \in [{"new", "old"} -> DbPath]
  /\ files = [f \in EnvFiles |-> IF f = "metadata" THEN "none" ELSE "new"]
  /\ db = [p \in DbPath |-> IF p = pathOf["new"] THEN "new" ELSE "none"]
  /\ service = "running" /\ rolling = NoRolling /\ skipped = FALSE
------------------------------------------------------------------------------
Step(pc) == rolling.pc = pc
AllSaved == saved = {Labels[i] : i \in 1..4}
\* The database that a control plane started now would open.
OpenedDb == db[pathOf[files["master.env"]]]

\* _rollback_plan_from_manifest and _validate_rollback_plan: nothing is touched
\* unless every source exists (and no path is a link or leaves its directory).
BeginRollback(skip) ==
  /\ Step("idle") /\ AllSaved
  /\ rolling' = [pc |-> IF skip THEN "copy" ELSE "stop", done |-> 0, skip |-> skip,
                 path |-> pathOf[files["master.env"]]]
  /\ UNCHANGED <<saved, pathOf, files, db, service, skipped>>

\* Slip: the exit code of systemctl stop is not looked at.
StopServiceUnchecked ==
  /\ Step("stop")
  /\ service' \in {"stopped", service}
  /\ rolling' = [rolling EXCEPT !.pc = "copy"]
  /\ UNCHANGED <<saved, pathOf, files, db, skipped>>

\* systemctl stop; if it fails the rollback is aborted.
StopService ==
  /\ Step("stop")
  /\ \/ service' = "stopped" /\ rolling' = [rolling EXCEPT !.pc = "copy"]
     \/ UNCHANGED service /\ rolling' = NoRolling
  /\ UNCHANGED <<saved, pathOf, files, db, skipped>>

\* The content of the next target, and what it becomes.
PutBack(content) ==
  LET label == Labels[rolling.done + 1] IN
  IF label = "database"
  THEN db' = [db EXCEPT ![rolling.path] = content] /\ UNCHANGED files
  ELSE files' = [files EXCEPT ![label] = content] /\ UNCHANGED db

\* _copy_file_atomically: the temporary file is written, synced and given its mode;
\* no target changes.
WriteTemporary ==
  /\ Step("copy") /\ rolling.done < 4
  /\ rolling' = [rolling EXCEPT !.pc = "rename"]
  /\ UNCHANGED <<saved, pathOf, files, db, service, skipped>>

\* ... and renamed to the target.
RenameToTarget ==
  /\ Step("rename")
  /\ PutBack("old")
  /\ rolling' = [rolling EXCEPT !.pc = "copy", !.done = @ + 1]
  /\ skipped' = (skipped \/ rolling.skip)
  /\ UNCHANGED <<saved, pathOf, service>>

\* systemctl daemon-reload and start, which may fail.
StartService ==
  /\ Step("copy") /\ rolling.done = 4
  /\ rolling' = NoRolling
  /\ service' \in IF rolling.skip THEN {service} ELSE {service, "running"}
  /\ UNCHANGED <<saved, pathOf, files, db, skipped>>

\* A step raises (the temporary file is unlinked) or the command dies.
RollbackFails ==
  /\ ~Step("idle") /\ rolling' = NoRolling
  /\ UNCHANGED <<saved, pathOf, files, db, service, skipped>>

RbNext ==
  \/ \E skip \in BOOLEAN : BeginRollback(skip)
  \/ StopService \/ WriteTemporary \/ RenameToTarget \/ StartService \/ RollbackFails

RbSpec == RbInit /\ [][RbNext]_rbVars
------------------------------------------------------------------------------
(* Properties *)

\* Whatever a rollback dies of and however often it is repeated, it lets the control
\* plane run only on the upgraded files or on the saved ones: it stops the service
\* first and starts it last.  (With --skip-systemd, or when the upgrade moved the
\* database, this is not promised.)
RunsOnOneVersion ==
  service = "running" /\ ~skipped /\ pathOf["new"] = pathOf["old"] =>
    \/ OpenedDb = "old" /\ \A f \in EnvFiles : files[f] = "old"
    \/ OpenedDb = "new" /\ \A f \in EnvFiles : files[f] # "old"
==============================================================================
