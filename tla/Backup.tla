-------------------------------- MODULE Backup -------------------------------
(***************************************************************************)
(* hmn backup run and verify on the control plane.  backup run hashes      *)
(* the included files, archives them, hashes the archive, writes the       *)
(* manifest beside it and only then records the run.  Archive and manifest *)
(* are named after the node and the second in which they were begun.       *)
(*                                                                         *)
(* The content of the included files is a version number; the hash of a    *)
(* content is the content.                                                 *)
(***************************************************************************)
EXTENDS Naturals

CONSTANTS
  BackupCmd,   \* concurrent hmn backup commands
  EndOfTime,   \* bound: the last second that is followed
  Versions     \* bound: contents the included files take

ASSUME BackupParameters == EndOfTime \in Nat /\ Versions \in Nat \ {0}

VARIABLES
  second,     \* int(time.time())
  source,     \* content of the included files
  archives,   \* per second, the content of the archive of that name; 0 for none
  manifests,  \* per second, what its manifest says
  backupRuns, \* the seconds named by the backup.run rows of component_runs
  verdict,    \* the newest backup.verify row
  backupCmd,  \* the state of each command
  clashed,    \* history: seconds in which two runs took the same names
  tampered    \* history: seconds whose archive or manifest was lost or damaged

bkVars == <<second, source, archives, manifests, backupRuns, verdict, backupCmd, clashed,
            tampered>>
bkFiles == <<second, source, archives, manifests>>
bkRows == <<backupRuns, verdict>>

Second == 0..EndOfTime
Hash == 0..Versions
Manifest == [there : BOOLEAN, entries : Hash, archive : Hash]
NoManifest == [there |-> FALSE, entries |-> 0, archive |-> 0]
CmdState == [pc : {"idle", "archive", "hash", "manifest", "record"},
             at : Second, entries : Hash, archive : Hash]
NotBackingUp == [pc |-> "idle", at |-> 0, entries |-> 0, archive |-> 0]

BkTypeOK ==
  /\ second \in Second /\ source \in 1..Versions
  /\ archives \in [Second -> Hash] /\ manifests \in [Second -> Manifest]
  /\ backupRuns \subseteq Second /\ verdict \in [at : Second, failed : BOOLEAN]
  /\ backupCmd \in [BackupCmd -> CmdState]
  /\ clashed \subseteq Second /\ tampered \subseteq Second

BkInit ==
  /\ second = 0 /\ source = 1
  /\ archives = [t \in Second |-> 0] /\ manifests = [t \in Second |-> NoManifest]
  /\ backupRuns = {} /\ verdict = [at |-> 0, failed |-> FALSE]
  /\ backupCmd = [b \in BackupCmd |-> NotBackingUp]
  /\ clashed = {} /\ tampered = {}
------------------------------------------------------------------------------
Doing(b, pc) == backupCmd[b].pc = pc
Set(b, state) == backupCmd' = [backupCmd EXCEPT ![b] = state]
Named(b) == backupCmd[b].at

\* _backup_manifest_for_paths and _backup_archive_paths.
HashEntries(b) ==
  /\ Doing(b, "idle")
  /\ Set(b, [NotBackingUp EXCEPT !.pc = "archive", !.at = second, !.entries = source])
  /\ clashed' = IF \/ archives[second] # 0
                   \/ \E c \in BackupCmd \ {b} : ~Doing(c, "idle") /\ Named(c) = second
                THEN clashed \cup {second} ELSE clashed
  /\ UNCHANGED <<bkFiles, bkRows, tampered>>

\* _archive_backup_paths: the files may have changed since they were hashed.
Archive(b) ==
  /\ Doing(b, "archive")
  /\ archives' = [archives EXCEPT ![Named(b)] = source]
  /\ Set(b, [backupCmd[b] EXCEPT !.pc = "hash"])
  /\ UNCHANGED <<second, source, manifests, bkRows, clashed, tampered>>

\* Slip: the manifest takes over the hash computed before archiving.
HashArchiveEarly(b) ==
  /\ Doing(b, "hash")
  /\ Set(b, [backupCmd[b] EXCEPT !.pc = "manifest", !.archive = backupCmd[b].entries])
  /\ UNCHANGED <<bkFiles, bkRows, clashed, tampered>>

\* _sha256_file of the archive.
HashArchive(b) ==
  /\ Doing(b, "hash")
  /\ Set(b, [backupCmd[b] EXCEPT !.pc = "manifest", !.archive = archives[Named(b)]])
  /\ UNCHANGED <<bkFiles, bkRows, clashed, tampered>>

WriteManifest(b) ==
  /\ Doing(b, "manifest")
  /\ manifests' = [manifests EXCEPT ![Named(b)] =
                     [there |-> TRUE, entries |-> backupCmd[b].entries,
                      archive |-> backupCmd[b].archive]]
  /\ Set(b, [backupCmd[b] EXCEPT !.pc = "record"])
  /\ UNCHANGED <<second, source, archives, bkRows, clashed, tampered>>

\* record_component_run with status "succeeded".
RecordBackup(b) ==
  /\ Doing(b, "record")
  /\ backupRuns' = backupRuns \cup {Named(b)}
  /\ Set(b, NotBackingUp)
  /\ UNCHANGED <<bkFiles, verdict, clashed, tampered>>

BackupDies(b) ==
  /\ ~Doing(b, "idle") /\ Set(b, NotBackingUp)
  /\ UNCHANGED <<bkFiles, bkRows, clashed, tampered>>

\* Is the archive the one the manifest names?
Matches(at) == archives[at] # 0 /\ manifests[at].archive = archives[at]

\* backup verify of a run or of a manifest that is named.  (backup plan records a
\* row too, and a verify that picks it up as the latest run finds no manifest and
\* fails, whatever the backups are; it says nothing of a backup and is left out.)
VerifyBackup(at) ==
  /\ at \in backupRuns \/ manifests[at].there
  /\ verdict' = [at |-> at, failed |-> ~(manifests[at].there /\ Matches(at))]
  /\ UNCHANGED <<bkFiles, backupRuns, backupCmd, clashed, tampered>>

\* Somebody deletes or damages an archive (bound: once).
LoseArchive(at) ==
  /\ tampered = {} /\ archives[at] # 0 /\ archives' = [archives EXCEPT ![at] = 0]
  /\ tampered' = tampered \cup {at}
  /\ UNCHANGED <<second, source, manifests, bkRows, backupCmd, clashed>>

FilesChange ==
  /\ source < Versions /\ source' = source + 1
  /\ UNCHANGED <<second, archives, manifests, bkRows, backupCmd, clashed, tampered>>

SecondPasses ==
  /\ second < EndOfTime /\ second' = second + 1
  /\ UNCHANGED <<source, archives, manifests, bkRows, backupCmd, clashed, tampered>>

BkNext ==
  \/ FilesChange \/ SecondPasses
  \/ \E b \in BackupCmd : \/ HashEntries(b) \/ Archive(b) \/ HashArchive(b)
                          \/ WriteManifest(b) \/ RecordBackup(b) \/ BackupDies(b)
  \/ \E at \in Second : VerifyBackup(at) \/ LoseArchive(at)

BkSpec == BkInit /\ [][BkNext]_bkVars
------------------------------------------------------------------------------
(* Properties *)

\* A run is recorded as succeeded only when its archive and its manifest are on
\* disk and agree, and no verification of it fails, wherever commands die and
\* whatever the backed-up files do meanwhile; two runs of one node within a second
\* overwrite each other's files, and lost archives are found missing.
RecordedIsRestorable ==
  \A at \in backupRuns \ (clashed \cup tampered) :
    /\ manifests[at].there /\ Matches(at)
    /\ ~(verdict.at = at /\ verdict.failed)
==============================================================================
