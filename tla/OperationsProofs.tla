--------------------------- MODULE OperationsProofs ---------------------------
(***************************************************************************)
(* Operations that work on files step by step: backups, rollback,          *)
(* worktrees and docs sync, each proved for itself, for any number of      *)
(* commands.  A section below per component; the invariants are BkInv,     *)
(* RbInv, WtInv and DocsInv.  The last section puts all operations of      *)
(* MCOperations together.                                                  *)
(***************************************************************************)
EXTENDS MCOperations, Backup, ApprovalsProofs, GatewayProofs, SshExecutorProofs, RegistryProofs
-------------------------------------------------------------------------------
(* Backups, for any number of commands, seconds and contents.  BkInv says  *)
(* of every second whose names were taken once and whose files nobody      *)
(* touched: one command works on them at most, and how far it has come.    *)

Unspoilt(at) == at \in Second \ (clashed \cup tampered)
WorksOn(b, at) == backupCmd[b].pc # "idle" /\ backupCmd[b].at = at

\* What the files of a second look like when a command is at this step.
Progress(b) ==
  LET c  == backupCmd[b]
      at == c.at IN
  c.pc # "idle" /\ Unspoilt(at) =>
    /\ c.pc = "archive"  => archives[at] = 0
    /\ c.pc # "archive"  => archives[at] # 0
    /\ c.pc = "manifest" => c.archive = archives[at]
    /\ c.pc = "record" <=> manifests[at].there

Alone(b, c) ==
  backupCmd[b].pc # "idle" /\ Unspoilt(backupCmd[b].at) /\ WorksOn(c, backupCmd[b].at) => b = c

ManifestFits(at) == Unspoilt(at) /\ manifests[at].there => Matches(at)
RunHasManifest(at) == Unspoilt(at) /\ at \in backupRuns => manifests[at].there

VerdictFits == verdict.failed => ~Unspoilt(verdict.at)

BkInv ==
  /\ BkTypeOK
  /\ \A b \in BackupCmd : Progress(b)
  /\ \A b, c \in BackupCmd : Alone(b, c)
  /\ \A at \in Second : ManifestFits(at) /\ RunHasManifest(at)
  /\ VerdictFits
------------------------------------------------------------------------------
LEMMA SecondsAndHashes == 0 \in Second /\ 0 \in Hash /\ 1 \in Hash /\ 1..Versions \subseteq Hash
BY BackupParameters DEF Second, Hash

LEMMA BkInitHolds == BkInit => BkInv
<1> SUFFICES ASSUME BkInit PROVE BkInv
  OBVIOUS
<1> USE DEF BkInit
<1>1. BkTypeOK
  <2>1. NotBackingUp \in CmdState /\ NoManifest \in Manifest
    BY SecondsAndHashes DEF NotBackingUp, CmdState, NoManifest, Manifest
  <2>2. source \in 1..Versions
    BY BackupParameters
  <2> QED BY <2>1, <2>2, SecondsAndHashes DEF BkTypeOK
<1>2. \A b \in BackupCmd : Progress(b)
  BY DEF Progress, NotBackingUp
<1>3. \A b, c \in BackupCmd : Alone(b, c)
  BY DEF Alone, NotBackingUp
<1>4. \A at \in Second : ManifestFits(at) /\ RunHasManifest(at)
  BY DEF ManifestFits, RunHasManifest, NoManifest
<1> QED BY <1>1, <1>2, <1>3, <1>4 DEF BkInv, VerdictFits

\* Steps that leave files, commands and rows of the runs alone.
LEMMA QuietKeeps ==
  ASSUME BkInv, UNCHANGED <<archives, manifests, backupRuns, backupCmd, clashed>>,
         second' \in Second, source' \in 1..Versions,
         verdict' \in [at : Second, failed : BOOLEAN],
         tampered' = tampered, VerdictFits'
  PROVE  BkInv'
<1>1. BkTypeOK'
  BY DEF BkInv, BkTypeOK
<1>2. /\ \A b \in BackupCmd : Progress(b)'
      /\ \A b, c \in BackupCmd : Alone(b, c)'
      /\ \A at \in Second : ManifestFits(at)' /\ RunHasManifest(at)'
  BY DEF BkInv, Progress, Alone, WorksOn, ManifestFits, RunHasManifest, Matches, Unspoilt
<1>3. VerdictFits'
  BY DEF VerdictFits
<1> QED BY <1>1, <1>2, <1>3 DEF BkInv

LEMMA SurroundingsKeep ==
  ASSUME BkInv, \/ FilesChange \/ SecondPasses
                \/ \E at \in Second : VerifyBackup(at)
  PROVE  BkInv'
<1>1. /\ second \in Second /\ source \in 1..Versions
      /\ verdict \in [at : Second, failed : BOOLEAN]
  BY DEF BkInv, BkTypeOK
<1>2. CASE FilesChange
  <2>1. source' \in 1..Versions
    BY <1>1, <1>2, BackupParameters DEF FilesChange
  <2>2. VerdictFits'
    BY <1>2 DEF FilesChange, bkRows, BkInv, VerdictFits, Unspoilt
  <2> QED BY <1>1, <1>2, <2>1, <2>2, QuietKeeps DEF FilesChange, bkRows
<1>3. CASE SecondPasses
  <2>1. second' \in Second
    BY <1>1, <1>3, BackupParameters DEF SecondPasses, Second
  <2>2. VerdictFits'
    BY <1>3 DEF SecondPasses, bkRows, BkInv, VerdictFits, Unspoilt
  <2> QED BY <1>1, <1>3, <2>1, <2>2, QuietKeeps DEF SecondPasses, bkRows
<1>4. CASE \E at \in Second : VerifyBackup(at)
  <2>1. PICK at \in Second : VerifyBackup(at)
    BY <1>4
  <2>2. /\ verdict'.at = at /\ verdict' \in [at : Second, failed : BOOLEAN]
        /\ verdict'.failed <=> ~(manifests[at].there /\ Matches(at))
    BY <2>1 DEF VerifyBackup
  <2>3. Unspoilt(at) => manifests[at].there /\ Matches(at)
    BY <2>1 DEF VerifyBackup, BkInv, ManifestFits, RunHasManifest
  <2>4. VerdictFits'
    BY <2>1, <2>2, <2>3 DEF VerifyBackup, VerdictFits, Unspoilt
  <2> QED BY <1>1, <2>1, <2>2, <2>4, QuietKeeps DEF VerifyBackup, bkFiles
<1> QED BY <1>2, <1>3, <1>4

LEMMA LossKeeps ==
  ASSUME BkInv, NEW at \in Second, LoseArchive(at)
  PROVE  BkInv'
<1>1. /\ archives' = [archives EXCEPT ![at] = 0] /\ tampered' = tampered \cup {at}
      /\ UNCHANGED <<second, source, manifests, backupRuns, verdict, backupCmd, clashed>>
      /\ archives \in [Second -> Hash]
  BY DEF LoseArchive, bkRows, BkInv, BkTypeOK
<1>2. /\ \A t \in Second : Unspoilt(t)' => Unspoilt(t) /\ archives'[t] = archives[t]
      /\ \A t : Unspoilt(t)' => t \in Second
      /\ \A t : ~Unspoilt(t) => ~Unspoilt(t)'
  BY <1>1 DEF Unspoilt
<1>3. BkTypeOK'
  BY <1>1, SecondsAndHashes DEF BkInv, BkTypeOK
<1>4. /\ \A b \in BackupCmd : Progress(b)'
      /\ \A b, c \in BackupCmd : Alone(b, c)'
      /\ \A t \in Second : ManifestFits(t)' /\ RunHasManifest(t)'
  BY <1>1, <1>2 DEF BkInv, Progress, Alone, WorksOn, ManifestFits, RunHasManifest, Matches, Unspoilt
<1>5. VerdictFits'
  BY <1>1 DEF BkInv, VerdictFits, Unspoilt
<1> QED BY <1>3, <1>4, <1>5 DEF BkInv
------------------------------------------------------------------------------
\* A command ends, leaving its files as they are.
LEMMA BkEndKeeps ==
  ASSUME BkInv, NEW b \in BackupCmd, backupCmd' = [backupCmd EXCEPT ![b] = NotBackingUp],
         UNCHANGED <<second, source, archives, manifests, verdict, clashed, tampered>>,
         backupRuns' \subseteq Second,
         \A at \in backupRuns' \ backupRuns : Unspoilt(at) => manifests[at].there
  PROVE  BkInv'
<1>1. backupCmd \in [BackupCmd -> CmdState] /\ NotBackingUp \in CmdState /\ NotBackingUp.pc = "idle"
  BY SecondsAndHashes DEF BkInv, BkTypeOK, NotBackingUp, CmdState
<1> HIDE DEF NotBackingUp
<1>2. \A c \in BackupCmd : backupCmd'[c].pc # "idle" => c # b /\ backupCmd'[c] = backupCmd[c]
  BY <1>1
<1>3. BkTypeOK'
  BY <1>1 DEF BkInv, BkTypeOK
<1>4. /\ \A c \in BackupCmd : Progress(c)'
      /\ \A c, d \in BackupCmd : Alone(c, d)'
  BY <1>2 DEF BkInv, Progress, Alone, WorksOn, Unspoilt
<1>5. \A at \in Second : ManifestFits(at)' /\ RunHasManifest(at)'
  BY DEF BkInv, ManifestFits, RunHasManifest, Matches, Unspoilt
<1>6. VerdictFits'
  BY DEF BkInv, VerdictFits, Unspoilt
<1> QED BY <1>3, <1>4, <1>5, <1>6 DEF BkInv

\* The second is named: if its names are taken already, it is spoilt.
LEMMA NameKeeps ==
  ASSUME BkInv, NEW b \in BackupCmd, HashEntries(b)
  PROVE  BkInv'
<1>1. /\ backupCmd \in [BackupCmd -> CmdState] /\ second \in Second /\ source \in Hash
      /\ backupCmd[b].pc = "idle" /\ clashed \subseteq Second
  BY SecondsAndHashes DEF BkInv, BkTypeOK, HashEntries, Doing
<1>2. PICK at \in Second : at = second
  BY <1>1
<1>3. PICK s \in CmdState :
        /\ s = [NotBackingUp EXCEPT !.pc = "archive", !.at = second, !.entries = source]
        /\ s.pc = "archive" /\ s.at = at
  <2> DEFINE named == [NotBackingUp EXCEPT !.pc = "archive", !.at = second, !.entries = source]
  <2>1. named \in CmdState /\ named.pc = "archive" /\ named.at = at
    BY <1>1, <1>2, SecondsAndHashes DEF NotBackingUp, CmdState
  <2> HIDE DEF named
  <2>2. \E s \in CmdState : s = named /\ s.pc = "archive" /\ s.at = at
    BY <2>1
  <2> QED BY <2>2 DEF named
<1>4. /\ backupCmd' = [backupCmd EXCEPT ![b] = s]
      /\ clashed' = IF \/ archives[at] # 0
                       \/ \E c \in BackupCmd \ {b} : WorksOn(c, at)
                    THEN clashed \cup {at} ELSE clashed
      /\ UNCHANGED <<second, source, archives, manifests, backupRuns, verdict, tampered>>
  BY <1>2, <1>3 DEF HashEntries, Set, Doing, Named, WorksOn, bkFiles, bkRows
<1>5. clashed \subseteq clashed' /\ clashed' \subseteq Second
  BY <1>1, <1>4
<1>6. ASSUME NEW t, Unspoilt(t)' PROVE t \in Second /\ Unspoilt(t)
  BY <1>4, <1>5, <1>6 DEF Unspoilt
<1>7. ASSUME Unspoilt(at)'
      PROVE  archives[at] = 0 /\ \A c \in BackupCmd \ {b} : ~WorksOn(c, at)
  <2>1. at \notin clashed'
    BY <1>7 DEF Unspoilt
  <2> QED BY <1>4, <2>1
<1>8. BkTypeOK'
  BY <1>3, <1>4, <1>5 DEF BkInv, BkTypeOK
<1>9. \A c \in BackupCmd : backupCmd'[c] = IF c = b THEN s ELSE backupCmd[c]
  BY <1>1, <1>4
<1>10. Unspoilt(at)' => ~manifests[at].there
  BY <1>6, <1>7 DEF BkInv, ManifestFits, Matches
<1>11. ASSUME NEW c \in BackupCmd PROVE Progress(c)'
  <2>1. CASE c = b
    BY <1>3, <1>4, <1>7, <1>9, <1>10, <2>1 DEF Progress
  <2>2. CASE c # b
    <3>1. Progress(c) /\ backupCmd'[c] = backupCmd[c]
      BY <1>9, <2>2 DEF BkInv
    <3> QED BY <1>4, <1>6, <3>1 DEF Progress
  <2> QED BY <2>1, <2>2
<1>12. ASSUME NEW c \in BackupCmd, NEW d \in BackupCmd PROVE Alone(c, d)'
  <2> SUFFICES ASSUME NEW t \in Second, t = backupCmd'[c].at, backupCmd'[c].pc # "idle",
                      Unspoilt(t)', backupCmd'[d].pc # "idle", backupCmd'[d].at = t
               PROVE  c = d
    BY <1>8 DEF Alone, WorksOn, Unspoilt
  <2>1. CASE c # b /\ d # b
    BY <1>6, <1>9, <2>1 DEF BkInv, Alone, WorksOn
  <2>2. CASE c = b /\ d # b
    BY <1>3, <1>7, <1>9, <2>2 DEF WorksOn
  <2>3. CASE c # b /\ d = b
    BY <1>3, <1>7, <1>9, <2>3 DEF WorksOn
  <2> QED BY <2>1, <2>2, <2>3
<1>13. \A t \in Second : ManifestFits(t)' /\ RunHasManifest(t)'
  BY <1>4, <1>6 DEF BkInv, ManifestFits, RunHasManifest, Matches
<1>14. VerdictFits'
  BY <1>4, <1>5 DEF BkInv, VerdictFits, Unspoilt
<1> QED BY <1>8, <1>11, <1>12, <1>13, <1>14 DEF BkInv

\* A command goes on to its next step, having written the archive or the manifest
\* of its second; nobody else works on them.
LEMMA WorkKeeps ==
  ASSUME BkInv, NEW b \in BackupCmd, NEW at \in Second, NEW s \in CmdState,
         backupCmd[b].pc # "idle", backupCmd[b].at = at, s.pc # "idle", s.at = at,
         backupCmd' = [backupCmd EXCEPT ![b] = s],
         archives' \in [Second -> Hash], manifests' \in [Second -> Manifest],
         \A t \in Second \ {at} : archives'[t] = archives[t] /\ manifests'[t] = manifests[t],
         UNCHANGED <<second, source, backupRuns, verdict, clashed, tampered>>,
         Unspoilt(at) => /\ s.pc = "archive"  => archives'[at] = 0
                         /\ s.pc # "archive"  => archives'[at] # 0
                         /\ s.pc = "manifest" => s.archive = archives'[at]
                         /\ s.pc = "record" <=> manifests'[at].there
                         /\ manifests[at].there => manifests'[at].there
                         /\ manifests'[at].there => manifests'[at].archive = archives'[at]
  PROVE  BkInv'
<1>1. backupCmd \in [BackupCmd -> CmdState]
  BY DEF BkInv, BkTypeOK
<1>2. \A c \in BackupCmd : backupCmd'[c] = IF c = b THEN s ELSE backupCmd[c]
  BY <1>1
<1>3. \A t : Unspoilt(t)' <=> Unspoilt(t)
  BY DEF Unspoilt
<1>4. BkTypeOK'
  BY <1>1 DEF BkInv, BkTypeOK
<1>5. ASSUME NEW c \in BackupCmd PROVE Progress(c)'
  <2>1. CASE c = b
    BY <1>2, <1>3, <2>1 DEF Progress
  <2>2. CASE c # b
    <3>1. Progress(c) /\ Alone(b, c) /\ backupCmd'[c] = backupCmd[c] /\ backupCmd[c].at \in Second
      BY <1>1, <1>2, <2>2 DEF BkInv, CmdState
    <3>2. backupCmd[c].pc # "idle" /\ Unspoilt(backupCmd[c].at) => backupCmd[c].at # at
      BY <2>2, <3>1 DEF Alone, WorksOn
    <3> QED BY <1>3, <3>1, <3>2 DEF Progress
  <2> QED BY <2>1, <2>2
<1>6. ASSUME NEW c \in BackupCmd, NEW d \in BackupCmd PROVE Alone(c, d)'
  <2>1. Alone(c, d)
    BY DEF BkInv
  <2>2. /\ backupCmd'[c].pc # "idle" <=> backupCmd[c].pc # "idle"
        /\ backupCmd'[d].pc # "idle" <=> backupCmd[d].pc # "idle"
        /\ backupCmd'[c].at = backupCmd[c].at /\ backupCmd'[d].at = backupCmd[d].at
    BY <1>2
  <2> QED BY <1>3, <2>1, <2>2 DEF Alone, WorksOn
<1>7. ASSUME NEW t \in Second PROVE ManifestFits(t)' /\ RunHasManifest(t)'
  <2>1. ManifestFits(t) /\ RunHasManifest(t)
    BY DEF BkInv
  <2>2. CASE t # at
    BY <1>3, <2>1, <2>2 DEF ManifestFits, RunHasManifest, Matches
  <2>3. CASE t = at
    BY <1>3, <2>1, <2>3 DEF ManifestFits, RunHasManifest, Matches
  <2> QED BY <2>2, <2>3
<1>8. VerdictFits'
  BY DEF BkInv, VerdictFits, Unspoilt
<1> QED BY <1>4, <1>5, <1>6, <1>7, <1>8 DEF BkInv

LEMMA WorkingKeeps ==
  ASSUME BkInv, NEW b \in BackupCmd, Archive(b) \/ HashArchive(b) \/ WriteManifest(b)
  PROVE  BkInv'
<1>1. /\ backupCmd[b] \in CmdState /\ Progress(b) /\ source \in 1..Versions
      /\ archives \in [Second -> Hash] /\ manifests \in [Second -> Manifest]
  BY DEF BkInv, BkTypeOK
<1>2. PICK at \in Second : at = backupCmd[b].at
  BY <1>1 DEF CmdState
<1>3. CASE Archive(b)
  <2>1. PICK s \in CmdState : s = [backupCmd[b] EXCEPT !.pc = "hash"]
    BY <1>1 DEF CmdState
  <2>2. s.pc = "hash" /\ s.at = at /\ backupCmd[b].pc = "archive"
    BY <1>1, <1>2, <1>3, <2>1 DEF CmdState, Archive, Doing
  <2>3. /\ backupCmd' = [backupCmd EXCEPT ![b] = s] /\ archives' = [archives EXCEPT ![at] = source]
        /\ UNCHANGED <<second, source, manifests, backupRuns, verdict, clashed, tampered>>
    BY <1>2, <1>3, <2>1 DEF Archive, Set, Named, bkRows
  <2>4. source \in Hash /\ source # 0
    BY <1>1, SecondsAndHashes
  <2>5. /\ archives' \in [Second -> Hash] /\ archives'[at] # 0
        /\ \A t \in Second \ {at} : archives'[t] = archives[t]
    BY <1>1, <2>3, <2>4
  <2>6. Unspoilt(at) => ~manifests[at].there
    BY <1>1, <1>2, <2>2 DEF Progress
  <2> QED BY <1>1, <1>2, <2>2, <2>3, <2>5, <2>6, WorkKeeps
<1>4. CASE HashArchive(b)
  <2>1. archives[at] \in Hash
    BY <1>1
  <2>2. PICK s \in CmdState : s = [backupCmd[b] EXCEPT !.pc = "manifest", !.archive = archives[at]]
    BY <1>1, <2>1 DEF CmdState
  <2>3. s.pc = "manifest" /\ s.at = at /\ s.archive = archives[at] /\ backupCmd[b].pc = "hash"
    BY <1>1, <1>2, <1>4, <2>2 DEF CmdState, HashArchive, Doing
  <2>4. /\ backupCmd' = [backupCmd EXCEPT ![b] = s]
        /\ UNCHANGED <<second, source, archives, manifests, backupRuns, verdict, clashed, tampered>>
    BY <1>2, <1>4, <2>2 DEF HashArchive, Set, Named, bkFiles, bkRows
  <2>5. Unspoilt(at) => ~manifests[at].there /\ archives[at] # 0
    BY <1>1, <1>2, <2>3 DEF Progress
  <2> QED BY <1>1, <1>2, <2>3, <2>4, <2>5, WorkKeeps
<1>5. CASE WriteManifest(b)
  <2>1. PICK s \in CmdState : s = [backupCmd[b] EXCEPT !.pc = "record"]
    BY <1>1 DEF CmdState
  <2>2. s.pc = "record" /\ s.at = at /\ backupCmd[b].pc = "manifest"
    BY <1>1, <1>2, <1>5, <2>1 DEF CmdState, WriteManifest, Doing
  <2>3. PICK m \in Manifest : /\ m.there /\ m.archive = backupCmd[b].archive
                              /\ m = [there |-> TRUE, entries |-> backupCmd[b].entries,
                                      archive |-> backupCmd[b].archive]
    BY <1>1 DEF CmdState, Manifest
  <2>4. /\ backupCmd' = [backupCmd EXCEPT ![b] = s] /\ manifests' = [manifests EXCEPT ![at] = m]
        /\ UNCHANGED <<second, source, archives, backupRuns, verdict, clashed, tampered>>
    BY <1>2, <1>5, <2>1, <2>3 DEF WriteManifest, Set, Named, bkRows
  <2>5. /\ manifests' \in [Second -> Manifest] /\ manifests'[at] = m
        /\ \A t \in Second \ {at} : manifests'[t] = manifests[t]
    BY <1>1, <2>4
  <2>6. Unspoilt(at) => m.archive = archives[at] /\ archives[at] # 0
    BY <1>1, <1>2, <2>2, <2>3 DEF Progress
  <2> QED BY <1>1, <1>2, <2>2, <2>3, <2>4, <2>5, <2>6, WorkKeeps
<1> QED BY <1>3, <1>4, <1>5

LEMMA EndingsKeep ==
  ASSUME BkInv, NEW b \in BackupCmd, RecordBackup(b) \/ BackupDies(b)
  PROVE  BkInv'
<1>1. /\ backupCmd[b] \in CmdState /\ Progress(b) /\ backupRuns \subseteq Second
      /\ backupCmd[b].at \in Second
  BY DEF BkInv, BkTypeOK, CmdState
<1>2. CASE RecordBackup(b)
  BY <1>1, <1>2, BkEndKeeps DEF RecordBackup, Set, Named, Doing, Progress, bkFiles
<1>3. CASE BackupDies(b)
  BY <1>1, <1>3, BkEndKeeps DEF BackupDies, Set, bkFiles, bkRows
<1> QED BY <1>2, <1>3

LEMMA BkStutterKeeps == BkInv /\ UNCHANGED bkVars => BkInv'
<1> SUFFICES ASSUME BkInv, UNCHANGED bkVars PROVE BkInv'
  OBVIOUS
<1>1. UNCHANGED <<second, source, archives, manifests, backupRuns, verdict, backupCmd, clashed,
                  tampered>>
  BY DEF bkVars
<1>2. VerdictFits'
  BY <1>1 DEF BkInv, VerdictFits, Unspoilt
<1> QED BY <1>1, <1>2, QuietKeeps DEF BkInv, BkTypeOK

LEMMA BkStepKeeps == BkInv /\ [BkNext]_bkVars => BkInv'
<1> SUFFICES ASSUME BkInv, [BkNext]_bkVars PROVE BkInv'
  OBVIOUS
<1>1. CASE UNCHANGED bkVars
  BY <1>1, BkStutterKeeps
<1>2. CASE FilesChange \/ SecondPasses \/ \E at \in Second : VerifyBackup(at)
  BY <1>2, SurroundingsKeep
<1>3. CASE \E at \in Second : LoseArchive(at)
  BY <1>3, LossKeeps
<1>4. CASE \E b \in BackupCmd : HashEntries(b)
  BY <1>4, NameKeeps
<1>5. CASE \E b \in BackupCmd : Archive(b) \/ HashArchive(b) \/ WriteManifest(b)
  BY <1>5, WorkingKeeps
<1>6. CASE \E b \in BackupCmd : RecordBackup(b) \/ BackupDies(b)
  BY <1>6, EndingsKeep
<1> QED BY <1>1, <1>2, <1>3, <1>4, <1>5, <1>6 DEF BkNext
------------------------------------------------------------------------------
(* Theorems *)

\* The inductive invariant of the backups holds for every second nobody spoilt.
THEOREM BkInvariance == BkSpec => []BkInv
BY BkInitHolds, BkStepKeeps, PTL DEF BkSpec

\* Archives, manifests, recorded runs and backup commands keep their types.
THEOREM BkTypeCorrect == BkSpec => []BkTypeOK
<1>1. BkInv => BkTypeOK
  BY DEF BkInv
<1> QED BY <1>1, BkInvariance, PTL

\* A recorded run has an archive and a manifest that agree, unless two runs took
\* the names of one second or somebody damaged the files; no verification of it
\* fails.
THEOREM RecordedRunsAreRestorable == BkSpec => []RecordedIsRestorable
<1>1. BkInv => RecordedIsRestorable
  <2> SUFFICES ASSUME BkInv, NEW at \in backupRuns \ (clashed \cup tampered)
               PROVE  /\ manifests[at].there /\ Matches(at)
                      /\ ~(verdict.at = at /\ verdict.failed)
    BY DEF RecordedIsRestorable
  <2>1. Unspoilt(at) /\ at \in Second
    BY DEF BkInv, BkTypeOK, Unspoilt
  <2> QED BY <2>1 DEF BkInv, ManifestFits, RunHasManifest, VerdictFits
<1> QED BY <1>1, BkInvariance, PTL
-------------------------------------------------------------------------------
(* Rollback, for any set of database paths.  RunsOnOneVersion is not       *)
(* inductive: RbInv adds which files a rollback under way has put back,    *)
(* and that it works with the service stopped unless it was told not to.   *)

SamePath == pathOf["new"] = pathOf["old"]

\* After k copies the first k targets hold what was saved.
PutBackSoFar ==
  /\ rolling.done >= 1 => db[rolling.path] = "old"
  /\ rolling.done >= 2 => files["master.env"] = "old"
  /\ rolling.done >= 3 => files["config.yaml"] = "old"
  /\ rolling.done >= 4 => files["metadata"] = "old"

RollingConsistent ==
  /\ rolling.pc # "idle" => (SamePath => rolling.path = pathOf["new"])
  /\ rolling.pc = "rename" => rolling.done < 4
  /\ rolling.pc \in {"stop", "idle"} => rolling.done = 0
  /\ rolling.pc \in {"copy", "rename"} => rolling.skip \/ service = "stopped"
  /\ rolling.skip /\ rolling.done > 0 => skipped

RbInv ==
  /\ RbTypeOK
  /\ RunsOnOneVersion
  /\ files["master.env"] \in {"new", "old"}
  /\ RollingConsistent /\ PutBackSoFar
------------------------------------------------------------------------------
LEMMA NotRolling ==
  ASSUME RbTypeOK
  PROVE  /\ NoRolling \in [pc : {"idle", "stop", "copy", "rename", "start"}, path : DbPath,
                           done : 0..4, skip : BOOLEAN]
         /\ NoRolling.pc = "idle" /\ NoRolling.done = 0 /\ ~NoRolling.skip
<1>1. pathOf["new"] \in DbPath
  BY DEF RbTypeOK
<1>2. (CHOOSE p \in DbPath : TRUE) \in DbPath
  BY <1>1
<1> QED BY <1>2 DEF NoRolling

LEMMA RbInitHolds == RbInit => RbInv
<1> SUFFICES ASSUME RbInit PROVE RbInv
  OBVIOUS
<1> USE DEF RbInit
<1>1. pathOf["new"] \in DbPath /\ (CHOOSE p \in DbPath : TRUE) \in DbPath
  BY DEF RbInit
<1>2. RbTypeOK
  <2>1. files \in [EnvFiles -> Content] /\ db \in [DbPath -> Content]
    BY DEF EnvFiles, Content
  <2>2. rolling \in [pc : {"idle", "stop", "copy", "rename", "start"}, path : DbPath,
                     done : 0..4, skip : BOOLEAN]
    BY <1>1 DEF NoRolling
  <2> QED BY <2>1, <2>2 DEF RbTypeOK
<1>3. files["master.env"] = "new" /\ OpenedDb = "new"
  BY <1>1 DEF EnvFiles, OpenedDb
<1>4. RunsOnOneVersion
  BY <1>3 DEF RunsOnOneVersion, EnvFiles
<1>5. RollingConsistent /\ PutBackSoFar
  BY DEF RollingConsistent, PutBackSoFar, NoRolling
<1> QED BY <1>2, <1>3, <1>4, <1>5 DEF RbInv

\* Steps that touch no target: the service may only stop.
LEMMA QuietSteps ==
  ASSUME RbInv, UNCHANGED <<saved, pathOf, files, db, skipped>>,
         rolling' \in [pc : {"idle", "stop", "copy", "rename", "start"}, path : DbPath,
                       done : 0..4, skip : BOOLEAN],
         service' \in {service, "stopped"},
         RollingConsistent', PutBackSoFar'
  PROVE  RbInv'
<1>1. RbTypeOK'
  BY DEF RbInv, RbTypeOK
<1>2. RunsOnOneVersion'
  BY DEF RbInv, RunsOnOneVersion, OpenedDb
<1> QED BY <1>1, <1>2 DEF RbInv

LEMMA BeginKeeps ==
  ASSUME RbInv, NEW skip \in BOOLEAN, BeginRollback(skip)
  PROVE  RbInv'
<1>1. pathOf[files["master.env"]] \in DbPath
      /\ (SamePath => pathOf[files["master.env"]] = pathOf["new"])
  BY DEF RbInv, RbTypeOK, SamePath
<1>2. /\ rolling' = [pc |-> IF skip THEN "copy" ELSE "stop", done |-> 0, skip |-> skip,
                     path |-> pathOf[files["master.env"]]]
      /\ UNCHANGED <<saved, pathOf, files, db, service, skipped>>
  BY DEF BeginRollback
<1>3. rolling'.done = 0 /\ rolling'.skip = skip /\ rolling'.path = pathOf[files["master.env"]]
      /\ rolling'.pc = IF skip THEN "copy" ELSE "stop"
  BY <1>2
<1>4. RollingConsistent' /\ PutBackSoFar'
  BY <1>1, <1>2, <1>3 DEF RollingConsistent, PutBackSoFar, SamePath
<1>5. rolling' \in [pc : {"idle", "stop", "copy", "rename", "start"}, path : DbPath,
                    done : 0..4, skip : BOOLEAN]
  BY <1>1, <1>2
<1> QED BY <1>2, <1>4, <1>5, QuietSteps

LEMMA RbEndKeeps ==
  ASSUME RbInv, rolling' = NoRolling, UNCHANGED <<saved, pathOf, files, db, service, skipped>>
  PROVE  RbInv'
<1>1. /\ NoRolling \in [pc : {"idle", "stop", "copy", "rename", "start"}, path : DbPath,
                        done : 0..4, skip : BOOLEAN]
      /\ NoRolling.pc = "idle" /\ NoRolling.done = 0 /\ ~NoRolling.skip
  BY NotRolling DEF RbInv
<1> HIDE DEF NoRolling
<1>2. RollingConsistent' /\ PutBackSoFar'
  BY <1>1 DEF RollingConsistent, PutBackSoFar
<1> QED BY <1>1, <1>2, QuietSteps

LEMMA StopKeeps ==
  ASSUME RbInv, StopService
  PROVE  RbInv'
<1>1. rolling \in [pc : {"idle", "stop", "copy", "rename", "start"}, path : DbPath,
                   done : 0..4, skip : BOOLEAN]
  BY DEF RbInv, RbTypeOK
<1>2. CASE service' = "stopped" /\ rolling' = [rolling EXCEPT !.pc = "copy"]
  <2>1. /\ rolling' \in [pc : {"idle", "stop", "copy", "rename", "start"}, path : DbPath,
                         done : 0..4, skip : BOOLEAN]
        /\ rolling'.pc = "copy" /\ rolling'.done = rolling.done /\ rolling'.skip = rolling.skip
        /\ rolling'.path = rolling.path
    BY <1>1, <1>2
  <2>2. /\ rolling.pc = "stop" /\ UNCHANGED <<saved, pathOf, files, db, skipped>>
    BY DEF StopService, Step
  <2>3. RollingConsistent' /\ PutBackSoFar'
    BY <1>2, <2>1, <2>2 DEF RbInv, RollingConsistent, PutBackSoFar, SamePath
  <2> QED BY <1>2, <2>1, <2>2, <2>3, QuietSteps
<1>3. CASE UNCHANGED service /\ rolling' = NoRolling
  BY <1>3, RbEndKeeps DEF StopService
<1> QED BY <1>2, <1>3 DEF StopService

LEMMA TemporaryKeeps ==
  ASSUME RbInv, WriteTemporary
  PROVE  RbInv'
<1>1. rolling \in [pc : {"idle", "stop", "copy", "rename", "start"}, path : DbPath,
                   done : 0..4, skip : BOOLEAN]
  BY DEF RbInv, RbTypeOK
<1>2. /\ rolling.pc = "copy" /\ rolling.done < 4 /\ rolling' = [rolling EXCEPT !.pc = "rename"]
      /\ UNCHANGED <<saved, pathOf, files, db, service, skipped>>
  BY DEF WriteTemporary, Step
<1>3. /\ rolling' \in [pc : {"idle", "stop", "copy", "rename", "start"}, path : DbPath,
                       done : 0..4, skip : BOOLEAN]
      /\ rolling'.pc = "rename" /\ rolling'.done = rolling.done /\ rolling'.skip = rolling.skip
      /\ rolling'.path = rolling.path
  BY <1>1, <1>2
<1>4. RollingConsistent' /\ PutBackSoFar'
  BY <1>2, <1>3 DEF RbInv, RollingConsistent, PutBackSoFar, SamePath
<1> QED BY <1>2, <1>3, <1>4, QuietSteps

\* A rename makes the next target what was saved; unless the service is stopped,
\* it was told to leave the service alone, and that is remembered.
LEMMA RenameKeeps ==
  ASSUME RbInv, RenameToTarget
  PROVE  RbInv'
<1>1. /\ rolling \in [pc : {"idle", "stop", "copy", "rename", "start"}, path : DbPath,
                      done : 0..4, skip : BOOLEAN]
      /\ files \in [EnvFiles -> Content] /\ db \in [DbPath -> Content]
  BY DEF RbInv, RbTypeOK
<1>2. rolling.pc = "rename" /\ rolling.done \in 0..3
  BY <1>1 DEF RbInv, RollingConsistent, RenameToTarget, Step
<1>3. /\ rolling' = [rolling EXCEPT !.pc = "copy", !.done = @ + 1]
      /\ skipped' = (skipped \/ rolling.skip)
      /\ UNCHANGED <<saved, pathOf, service>>
  BY DEF RenameToTarget
<1>4. /\ rolling.done = 0 => db' = [db EXCEPT ![rolling.path] = "old"] /\ UNCHANGED files
      /\ rolling.done = 1 => files' = [files EXCEPT !["master.env"] = "old"] /\ UNCHANGED db
      /\ rolling.done = 2 => files' = [files EXCEPT !["config.yaml"] = "old"] /\ UNCHANGED db
      /\ rolling.done = 3 => files' = [files EXCEPT !["metadata"] = "old"] /\ UNCHANGED db
  BY <1>2 DEF RenameToTarget, PutBack, Labels
<1>5. /\ rolling' \in [pc : {"idle", "stop", "copy", "rename", "start"}, path : DbPath,
                       done : 0..4, skip : BOOLEAN]
      /\ rolling'.pc = "copy" /\ rolling'.done = rolling.done + 1
      /\ rolling'.skip = rolling.skip /\ rolling'.path = rolling.path
  <2>1. rolling.done + 1 \in 0..4
    BY <1>2
  <2>2. PICK k \in 0..4 : k = rolling.done + 1
    BY <2>1
  <2>3. rolling' = [rolling EXCEPT !.pc = "copy", !.done = k]
    BY <1>3, <2>2
  <2> QED BY <1>1, <2>2, <2>3
<1>6. rolling.path \in DbPath
  BY <1>1
<1>7. /\ files' \in [EnvFiles -> Content] /\ db' \in [DbPath -> Content]
      /\ files'["master.env"] \in {"new", "old"}
      /\ \A f \in EnvFiles : files'[f] \in {files[f], "old"}
      /\ \A p \in DbPath : db'[p] \in {db[p], "old"}
  BY <1>1, <1>2, <1>4, <1>6 DEF RbInv, EnvFiles, Content
<1>8. RbTypeOK'
  BY <1>3, <1>5, <1>7 DEF RbInv, RbTypeOK
<1>9. PutBackSoFar'
  BY <1>1, <1>2, <1>4, <1>5, <1>6 DEF RbInv, PutBackSoFar, EnvFiles
<1>10. RollingConsistent'
  BY <1>2, <1>3, <1>5 DEF RbInv, RollingConsistent, SamePath
<1>11. ~(service' = "running" /\ ~skipped')
  BY <1>2, <1>3 DEF RbInv, RollingConsistent
<1>12. RunsOnOneVersion'
  BY <1>7, <1>11 DEF RbInv, RunsOnOneVersion
<1> QED BY <1>7, <1>8, <1>9, <1>10, <1>12 DEF RbInv

\* The service is started when all four targets hold what was saved.
LEMMA StartKeeps ==
  ASSUME RbInv, StartService
  PROVE  RbInv'
<1>1. CASE service' = service
  BY <1>1, RbEndKeeps DEF StartService
<1>2. CASE service' # service
  <2>1. /\ rolling.pc = "copy" /\ rolling.done = 4 /\ ~rolling.skip
        /\ rolling' = NoRolling /\ service' = "running"
        /\ UNCHANGED <<saved, pathOf, files, db, skipped>>
    BY <1>2 DEF StartService, Step
  <2>2. \A f \in EnvFiles : files[f] = "old"
    BY <2>1 DEF RbInv, PutBackSoFar, EnvFiles
  <2>3. SamePath => OpenedDb = "old"
    BY <2>1, <2>2 DEF RbInv, RollingConsistent, PutBackSoFar, OpenedDb, SamePath, EnvFiles
  <2>4. RunsOnOneVersion'
    BY <2>1, <2>2, <2>3 DEF RbInv, RunsOnOneVersion, OpenedDb, SamePath
  <2>5. /\ NoRolling \in [pc : {"idle", "stop", "copy", "rename", "start"}, path : DbPath,
                          done : 0..4, skip : BOOLEAN]
        /\ NoRolling.pc = "idle" /\ NoRolling.done = 0 /\ ~NoRolling.skip
    BY NotRolling DEF RbInv
  <2> HIDE DEF NoRolling
  <2>6. RollingConsistent' /\ PutBackSoFar'
    BY <2>1, <2>5 DEF RollingConsistent, PutBackSoFar
  <2>7. RbTypeOK'
    BY <2>1, <2>5 DEF RbInv, RbTypeOK
  <2> QED BY <2>1, <2>4, <2>6, <2>7 DEF RbInv
<1> QED BY <1>1, <1>2

LEMMA RbStutterKeeps == RbInv /\ UNCHANGED rbVars => RbInv'
BY DEF rbVars, RbInv, RbTypeOK, RunsOnOneVersion, OpenedDb, RollingConsistent, PutBackSoFar,
   SamePath

LEMMA RbStepKeeps == RbInv /\ [RbNext]_rbVars => RbInv'
<1> SUFFICES ASSUME RbInv, [RbNext]_rbVars PROVE RbInv'
  OBVIOUS
<1>1. CASE UNCHANGED rbVars
  BY <1>1, RbStutterKeeps
<1>2. CASE \E skip \in BOOLEAN : BeginRollback(skip)
  BY <1>2, BeginKeeps
<1>3. CASE StopService \/ WriteTemporary
  BY <1>3, StopKeeps, TemporaryKeeps
<1>4. CASE RenameToTarget \/ StartService
  BY <1>4, RenameKeeps, StartKeeps
<1>5. CASE RollbackFails
  BY <1>5, RbEndKeeps DEF RollbackFails
<1> QED BY <1>1, <1>2, <1>3, <1>4, <1>5 DEF RbNext
------------------------------------------------------------------------------
(* Theorems *)

\* The inductive invariant of rollback holds, wherever a rollback dies.
THEOREM RbInvariance == RbSpec => []RbInv
BY RbInitHolds, RbStepKeeps, PTL DEF RbSpec

\* The files, the service and the rollback keep their types.
THEOREM RbTypeCorrect == RbSpec => []RbTypeOK
<1>1. RbInv => RbTypeOK
  BY DEF RbInv
<1> QED BY <1>1, RbInvariance, PTL

\* Whatever rollback dies of and however often it is repeated, the control plane
\* runs on the upgraded files or on the saved ones.
THEOREM RollbackKeepsOneVersion == RbSpec => []RunsOnOneVersion
<1>1. RbInv => RunsOnOneVersion
  BY DEF RbInv
<1> QED BY <1>1, RbInvariance, PTL
-------------------------------------------------------------------------------
(* Worktrees, for any number of tasks, agents, preparations and scans.     *)
(* WtInv adds what a call knows between its steps: a worktree about to be  *)
(* recorded is valid unless somebody disturbed it, and a scan holds only   *)
(* tasks that have a record.                                               *)

Intact(j) == Valid(j) \/ j \in disturbed

PreparerConsistent(p) ==
  preparer[p].pc # "idle" => /\ preparer[p] \in Asking
                             /\ preparer[p].agent \in Agent
                             /\ preparer[p].pc = "record" => Intact(preparer[p].job)

ScannerConsistent(m) ==
  \A j \in Job :
    /\ j \in scanner[m].todo \/ scanner[m].saw[j] # "none" => records[j] # NoRecord
    /\ scanner[m].saw[j] = "missing" => j \in disturbed

WtInv ==
  /\ WtTypeOK
  /\ TreeHasOneAgent
  /\ MissingMeansRemoved
  /\ \A j \in Job : records[j] # NoRecord => Intact(j)
  /\ \A p \in Preparer : PreparerConsistent(p)
  /\ \A m \in Scanner : ScannerConsistent(m)
------------------------------------------------------------------------------
LEMMA WtInitHolds == WtInit => WtInv
<1> SUFFICES ASSUME WtInit PROVE WtInv
  OBVIOUS
<1> USE DEF WtInit
<1>1. WtTypeOK
  <2>1. NotScanning \in Scanning
    BY DEF NotScanning, Scanning, Status
  <2>2. scanner \in [Scanner -> Scanning] /\ preparer \in [Preparer -> Asking \cup {NotAsking}]
    BY <2>1
  <2>3. trees \in [Job -> [there : BOOLEAN, onBranch : BOOLEAN]]
    BY DEF NoTree
  <2> QED BY <2>2, <2>3 DEF WtTypeOK
<1>2. TreeHasOneAgent /\ MissingMeansRemoved
  BY DEF TreeHasOneAgent, MissingMeansRemoved, NoRecord
<1>3. \A p \in Preparer : PreparerConsistent(p)
  BY DEF PreparerConsistent, NotAsking
<1>4. \A m \in Scanner : ScannerConsistent(m)
  BY DEF ScannerConsistent, NotScanning
<1> QED BY <1>1, <1>2, <1>3, <1>4 DEF WtInv

LEMMA RecordsHaveAgents ==
  ASSUME WtInv, NEW j \in Job
  PROVE  /\ records[j] # NoRecord => records[j] \in TreeRow
         /\ records[j] = NoRecord => granted[j] = {}
<1>1. records[j] \in TreeRow \cup {NoRecord} /\ granted[j] \subseteq Agent
  BY DEF WtInv, WtTypeOK
<1>2. granted[j] \subseteq {records[j].agent}
  BY DEF WtInv, TreeHasOneAgent
<1> QED BY <1>1, <1>2, WorktreeParameters DEF NoRecord

\* No step of this kind gives up a worktree, records one or reports on one.
LEMMA TreesKeep ==
  ASSUME WtInv,
         trees' \in [Job -> [there : BOOLEAN, onBranch : BOOLEAN]], branches' \subseteq Job,
         disturbed' \subseteq Job, disturbed \subseteq disturbed',
         \A j \in Job : Intact(j) => Intact(j)',
         UNCHANGED <<records, preparer, scanner, granted>>
  PROVE  WtInv'
<1>1. WtTypeOK'
  BY DEF WtInv, WtTypeOK
<1>2. TreeHasOneAgent' /\ MissingMeansRemoved'
  BY DEF WtInv, TreeHasOneAgent, MissingMeansRemoved
<1>3. \A j \in Job : records'[j] # NoRecord => Intact(j)'
  BY DEF WtInv
<1>4. ASSUME NEW p \in Preparer PROVE PreparerConsistent(p)'
  <2>1. PreparerConsistent(p)
    BY DEF WtInv
  <2>2. preparer[p].pc # "idle" => preparer[p].job \in Job
    BY <2>1 DEF PreparerConsistent, Asking
  <2> QED BY <2>1, <2>2 DEF PreparerConsistent
<1>5. \A m \in Scanner : ScannerConsistent(m)'
  BY DEF WtInv, ScannerConsistent
<1> QED BY <1>1, <1>2, <1>3, <1>4, <1>5 DEF WtInv

LEMMA OperatorsKeep ==
  ASSUME WtInv, NEW j \in Job, RemoveTree(j) \/ DeleteBranch(j) \/ SwitchBranch(j)
  PROVE  WtInv'
<1>1. trees \in [Job -> [there : BOOLEAN, onBranch : BOOLEAN]] /\ branches \subseteq Job
      /\ disturbed \subseteq Job
  BY DEF WtInv, WtTypeOK
<1>2. CASE RemoveTree(j)
  BY <1>1, <1>2, TreesKeep DEF RemoveTree, Intact, Valid, NoTree
<1>3. CASE DeleteBranch(j)
  BY <1>1, <1>3, TreesKeep DEF DeleteBranch, Intact, Valid
<1>4. CASE SwitchBranch(j)
  BY <1>1, <1>4, TreesKeep DEF SwitchBranch, Intact, Valid
<1> QED BY <1>2, <1>3, <1>4
------------------------------------------------------------------------------
\* A preparation moves; it records nothing.
LEMMA PreparerMoves ==
  ASSUME WtInv, NEW p \in Preparer, NEW state,
         preparer' = [preparer EXCEPT ![p] = state],
         \/ state = NotAsking
         \/ /\ state \in Asking /\ state.agent \in Agent
            /\ state.pc = "record" => Intact(state.job),
         UNCHANGED <<trees, branches, records, scanner, granted, disturbed>>
  PROVE  WtInv'
<1>1. WtTypeOK'
  BY DEF WtInv, WtTypeOK
<1>2. ASSUME NEW q \in Preparer PROVE PreparerConsistent(q)'
  <2>1. PreparerConsistent(q) /\ preparer \in [Preparer -> Asking \cup {NotAsking}]
    BY DEF WtInv, WtTypeOK
  <2>2. CASE q = p
    <3>1. preparer'[q] = state
      BY <2>1, <2>2
    <3> QED BY <3>1 DEF PreparerConsistent, NotAsking, Intact, Valid
  <2>3. CASE q # p
    <3>1. preparer'[q] = preparer[q]
      BY <2>1, <2>3
    <3> QED BY <2>1, <3>1 DEF PreparerConsistent, Intact, Valid
  <2> QED BY <2>2, <2>3
<1>3. /\ TreeHasOneAgent' /\ MissingMeansRemoved'
      /\ \A j \in Job : records'[j] # NoRecord => Intact(j)'
      /\ \A m \in Scanner : ScannerConsistent(m)'
  BY DEF WtInv, TreeHasOneAgent, MissingMeansRemoved, Intact, Valid, ScannerConsistent
<1> QED BY <1>1, <1>2, <1>3 DEF WtInv

LEMMA LookUpKeeps ==
  ASSUME WtInv, NEW p \in Preparer, NEW j \in Job, NEW a \in Agent, NEW b \in Base,
         LookUp(p, j, a, b)
  PROVE  WtInv'
<1> DEFINE s == [pc |-> "make", job |-> j, agent |-> a, base |-> b]
<1>1. s \in Asking /\ s.agent \in Agent /\ s.pc # "record"
  BY DEF Asking
<1>2. /\ preparer' = [preparer EXCEPT ![p] = s]
      /\ UNCHANGED <<trees, branches, records, scanner, granted, disturbed>>
  BY DEF LookUp
<1> HIDE DEF s
<1> QED BY <1>1, <1>2, PreparerMoves

LEMMA WtEndKeeps ==
  ASSUME WtInv, NEW p \in Preparer, PreparerEnds(p)
  PROVE  WtInv'
BY PreparerMoves DEF PreparerEnds

\* git worktree add, then the preparation may record it.
LEMMA MakeKeeps ==
  ASSUME WtInv, NEW p \in Preparer, MakeTree(p)
  PROVE  WtInv'
<1> DEFINE s == [preparer[p] EXCEPT !.pc = "record"]
<1>1. preparer[p] \in Asking /\ preparer[p].agent \in Agent
  BY DEF WtInv, PreparerConsistent, MakeTree
<1>2. /\ trees \in [Job -> [there : BOOLEAN, onBranch : BOOLEAN]] /\ branches \subseteq Job
      /\ preparer \in [Preparer -> Asking \cup {NotAsking}]
  BY DEF WtInv, WtTypeOK
<1>3. PICK j \in Job : j = preparer[p].job
  BY <1>1 DEF Asking
<1>4. s \in Asking /\ s.agent \in Agent /\ s.job = j /\ s.pc = "record"
  BY <1>1, <1>3 DEF Asking
<1>5. /\ \/ trees' = [trees EXCEPT ![j] = NewTree] /\ branches' = branches \cup {j}
         \/ Valid(j) /\ UNCHANGED <<trees, branches>>
      /\ preparer' = [preparer EXCEPT ![p] = s]
      /\ UNCHANGED <<records, scanner, granted, disturbed>>
  BY <1>3 DEF MakeTree
<1> HIDE DEF s
<1>6. /\ trees' \in [Job -> [there : BOOLEAN, onBranch : BOOLEAN]] /\ branches' \subseteq Job
      /\ Valid(j)'
      /\ \A k \in Job : Intact(k) => Intact(k)'
  <2>1. CASE trees' = [trees EXCEPT ![j] = NewTree] /\ branches' = branches \cup {j}
    <3>1. NewTree \in [there : BOOLEAN, onBranch : BOOLEAN] /\ NewTree.there /\ NewTree.onBranch
      BY DEF NewTree
    <3>2. \A k \in Job : trees'[k] = IF k = j THEN NewTree ELSE trees[k]
      BY <1>2, <2>1
    <3>3. trees' \in [Job -> [there : BOOLEAN, onBranch : BOOLEAN]] /\ branches' \subseteq Job
      BY <1>2, <2>1, <3>1
    <3>4. \A k \in Job : Intact(k) => Intact(k)'
      BY <1>5, <3>1, <3>2 DEF Valid, Intact
    <3> QED BY <3>1, <3>2, <3>3, <3>4 DEF Valid
  <2>2. CASE Valid(j) /\ UNCHANGED <<trees, branches>>
    BY <1>2, <1>5, <2>2 DEF Valid, Intact
  <2> QED BY <1>5, <2>1, <2>2
<1>7. WtTypeOK'
  BY <1>4, <1>5, <1>6 DEF WtInv, WtTypeOK
<1>8. ASSUME NEW q \in Preparer PROVE PreparerConsistent(q)'
  <2>1. PreparerConsistent(q)
    BY DEF WtInv
  <2>2. CASE q = p
    <3>1. preparer'[q] = s
      BY <1>2, <1>5, <2>2
    <3> QED BY <1>4, <1>6, <3>1 DEF PreparerConsistent, Intact
  <2>3. CASE q # p
    <3>1. preparer'[q] = preparer[q]
      BY <1>2, <1>5, <2>3
    <3>2. preparer[q].pc # "idle" => preparer[q].job \in Job
      BY <2>1 DEF PreparerConsistent, Asking
    <3> QED BY <1>6, <2>1, <3>1, <3>2 DEF PreparerConsistent
  <2> QED BY <2>2, <2>3
<1>9. /\ TreeHasOneAgent' /\ MissingMeansRemoved'
      /\ \A k \in Job : records'[k] # NoRecord => Intact(k)'
      /\ \A m \in Scanner : ScannerConsistent(m)'
  BY <1>5, <1>6 DEF WtInv, TreeHasOneAgent, MissingMeansRemoved, ScannerConsistent
<1> QED BY <1>7, <1>8, <1>9 DEF WtInv

\* The INSERT succeeds only where no record, and so no grant, was.
LEMMA RecordKeeps ==
  ASSUME WtInv, NEW p \in Preparer, RecordTree(p)
  PROVE  WtInv'
<1> DEFINE j == preparer[p].job
           r == NewRecord(preparer[p].agent, preparer[p].base)
<1>1. preparer[p] \in Asking /\ preparer[p].agent \in Agent /\ Intact(j)
  BY DEF WtInv, PreparerConsistent, RecordTree
<1>2. /\ preparer \in [Preparer -> Asking \cup {NotAsking}]
      /\ records \in [Job -> TreeRow \cup {NoRecord}] /\ granted \in [Job -> SUBSET Agent]
  BY DEF WtInv, WtTypeOK
<1>3. j \in Job /\ r \in TreeRow /\ r.agent = preparer[p].agent /\ r.status = "prepared"
  BY <1>1 DEF Asking, TreeRow, NewRecord, Status
<1>4. /\ records[j] = NoRecord /\ granted[j] = {}
      /\ records' = [records EXCEPT ![j] = r]
      /\ granted' = [granted EXCEPT ![j] = @ \cup {r.agent}]
      /\ preparer' = [preparer EXCEPT ![p] = NotAsking]
      /\ UNCHANGED <<trees, branches, scanner, disturbed>>
  BY <1>3, RecordsHaveAgents DEF RecordTree, Grant
<1>5. r # NoRecord
  BY <1>3 DEF NoRecord
<1> HIDE DEF j, r
<1>6. WtTypeOK'
  BY <1>1, <1>2, <1>3, <1>4 DEF WtInv, WtTypeOK
<1>7. TreeHasOneAgent' /\ MissingMeansRemoved'
  BY <1>2, <1>3, <1>4 DEF WtInv, TreeHasOneAgent, MissingMeansRemoved
<1>8. \A k \in Job : records'[k] # NoRecord => Intact(k)'
  BY <1>1, <1>2, <1>3, <1>4 DEF WtInv, Intact, Valid, j
<1>9. ASSUME NEW q \in Preparer PROVE PreparerConsistent(q)'
  <2>1. PreparerConsistent(q) /\ preparer'[q] \in {preparer[q], NotAsking}
    BY <1>2, <1>4 DEF WtInv
  <2> QED BY <1>4, <2>1 DEF PreparerConsistent, NotAsking, Intact, Valid
<1>10. \A m \in Scanner : ScannerConsistent(m)'
  BY <1>2, <1>3, <1>4, <1>5 DEF WtInv, ScannerConsistent
<1> QED BY <1>6, <1>7, <1>8, <1>9, <1>10 DEF WtInv

LEMMA ReuseKeeps ==
  ASSUME WtInv, NEW p \in Preparer, NEW j \in Job, NEW a \in Agent, NEW b \in Base,
         Reuse(p, j, a, b)
  PROVE  WtInv'
<1>1. /\ granted' = [granted EXCEPT ![j] = @ \cup {a}] /\ records[j].agent = a
      /\ UNCHANGED <<trees, branches, records, preparer, scanner, disturbed>>
  BY DEF Reuse, Grant
<1>2. WtTypeOK'
  BY <1>1 DEF WtInv, WtTypeOK
<1>3. TreeHasOneAgent'
  BY <1>1 DEF WtInv, WtTypeOK, TreeHasOneAgent
<1>4. /\ MissingMeansRemoved'
      /\ \A k \in Job : records'[k] # NoRecord => Intact(k)'
      /\ \A q \in Preparer : PreparerConsistent(q)'
      /\ \A m \in Scanner : ScannerConsistent(m)'
  BY <1>1 DEF WtInv, MissingMeansRemoved, Intact, Valid, PreparerConsistent, ScannerConsistent
<1> QED BY <1>2, <1>3, <1>4 DEF WtInv
------------------------------------------------------------------------------
\* A scan moves; it holds recorded tasks only, and saw missing only what is disturbed.
LEMMA ScannerMoves ==
  ASSUME WtInv, NEW m \in Scanner, NEW state \in Scanning,
         scanner' = [scanner EXCEPT ![m] = state],
         \A j \in Job :
           /\ j \in state.todo \/ state.saw[j] # "none" => records[j] # NoRecord
           /\ state.saw[j] = "missing" => j \in disturbed,
         UNCHANGED <<trees, branches, records, preparer, granted, disturbed>>
  PROVE  WtInv'
<1>1. WtTypeOK'
  BY DEF WtInv, WtTypeOK
<1>2. \A l \in Scanner : ScannerConsistent(l)'
  BY DEF WtInv, WtTypeOK, ScannerConsistent
<1>3. /\ TreeHasOneAgent' /\ MissingMeansRemoved'
      /\ \A k \in Job : records'[k] # NoRecord => Intact(k)'
      /\ \A q \in Preparer : PreparerConsistent(q)'
  BY DEF WtInv, TreeHasOneAgent, MissingMeansRemoved, Intact, Valid, PreparerConsistent
<1> QED BY <1>1, <1>2, <1>3 DEF WtInv

LEMMA NotScanningIsAState ==
  NotScanning \in Scanning /\ NotScanning.todo = {} /\ \A j \in Job : NotScanning.saw[j] = "none"
BY DEF NotScanning, Scanning, Status

LEMMA ScansKeep ==
  ASSUME WtInv, NEW m \in Scanner,
         \/ \E b \in Base : StartScan(m, b)
         \/ \E j \in Job : Examine(m, j)
         \/ ScanDies(m)
  PROVE  WtInv'
<1>1. scanner[m] \in Scanning /\ ScannerConsistent(m)
  BY DEF WtInv, WtTypeOK
<1>2. CASE \E b \in Base : StartScan(m, b)
  <2>1. PICK b \in Base : StartScan(m, b)
    BY <1>2
  <2> DEFINE todo == {j \in Job : records[j].status \in Examined /\ records[j].base = b}
             s == [scanner[m] EXCEPT !.todo = todo]
  <2>2. s \in Scanning /\ s.todo = todo /\ s.saw = scanner[m].saw
    BY <1>1 DEF Scanning
  <2>3. \A j \in todo : records[j] # NoRecord
    BY DEF NoRecord, Examined
  <2>4. /\ scanner' = [scanner EXCEPT ![m] = s]
        /\ UNCHANGED <<trees, branches, records, preparer, granted, disturbed>>
    BY <2>1 DEF StartScan
  <2> HIDE DEF todo, s
  <2> QED BY <1>1, <2>2, <2>3, <2>4, ScannerMoves DEF ScannerConsistent
<1>3. CASE \E j \in Job : Examine(m, j)
  <2>1. PICK j \in Job : Examine(m, j)
    BY <1>3
  <2>2. PICK seen \in IF Valid(j) THEN {"ready", "conflict"} ELSE {"missing"} :
          scanner' = [scanner EXCEPT ![m] = [todo |-> @.todo \ {j}, saw |-> [@.saw EXCEPT ![j] = seen]]]
    BY <2>1 DEF Examine
  <2> DEFINE s == [todo |-> scanner[m].todo \ {j}, saw |-> [scanner[m].saw EXCEPT ![j] = seen]]
  <2>3. s \in Scanning /\ s.todo \subseteq scanner[m].todo
        /\ \A k \in Job : s.saw[k] = IF k = j THEN seen ELSE scanner[m].saw[k]
    BY <1>1, <2>2 DEF Scanning, Status
  <2>4. j \in scanner[m].todo /\ records[j] # NoRecord
    BY <1>1, <2>1 DEF Examine, ScannerConsistent
  <2>5. seen = "missing" => j \in disturbed
    BY <2>2, <2>4 DEF WtInv, Intact
  <2>6. /\ scanner' = [scanner EXCEPT ![m] = s]
        /\ UNCHANGED <<trees, branches, records, preparer, granted, disturbed>>
    BY <2>1, <2>2 DEF Examine
  <2> HIDE DEF s
  <2> QED BY <1>1, <2>3, <2>4, <2>5, <2>6, ScannerMoves DEF ScannerConsistent
<1>4. CASE ScanDies(m)
  BY <1>4, NotScanningIsAState, ScannerMoves DEF ScanDies
<1> QED BY <1>2, <1>3, <1>4

\* merge_queue writes what it saw, later; the agent of a record stays.
LEMMA WriteScanKeeps ==
  ASSUME WtInv, NEW m \in Scanner, WriteScan(m)
  PROVE  WtInv'
<1> DEFINE saw == scanner[m].saw
<1>1. /\ scanner \in [Scanner -> Scanning] /\ records \in [Job -> TreeRow \cup {NoRecord}]
      /\ saw \in [Job -> Status] /\ ScannerConsistent(m)
  BY DEF WtInv, WtTypeOK, Scanning
<1>2. /\ records' = [j \in Job |-> IF saw[j] = "none" THEN records[j]
                                   ELSE [records[j] EXCEPT !.status = saw[j]]]
      /\ scanner' = [scanner EXCEPT ![m] = NotScanning]
      /\ UNCHANGED <<trees, branches, preparer, granted, disturbed>>
  BY DEF WriteScan
<1>3. ASSUME NEW j \in Job, saw[j] # "none"
      PROVE  /\ records[j] \in TreeRow /\ records'[j] \in TreeRow
             /\ records'[j].agent = records[j].agent /\ records'[j].status = saw[j]
             /\ saw[j] = "missing" => j \in disturbed
             /\ records'[j] # NoRecord
  <2>1. records[j] \in TreeRow
    BY <1>1, <1>3 DEF ScannerConsistent
  <2>2. records'[j] = [records[j] EXCEPT !.status = saw[j]]
    BY <1>2, <1>3
  <2>3. records'[j] \in TreeRow /\ records'[j].status = saw[j]
        /\ records'[j].agent = records[j].agent
    BY <1>1, <1>3, <2>1, <2>2 DEF TreeRow
  <2> QED BY <1>1, <1>3, <2>1, <2>3 DEF ScannerConsistent, NoRecord
<1>4. \A j \in Job : saw[j] = "none" => records'[j] = records[j]
  BY <1>2
<1>5. WtTypeOK'
  <2>1. records' \in [Job -> TreeRow \cup {NoRecord}]
    BY <1>1, <1>2, <1>3, <1>4
  <2> QED BY <1>2, <2>1, NotScanningIsAState DEF WtInv, WtTypeOK
<1>6. TreeHasOneAgent' /\ MissingMeansRemoved'
  BY <1>2, <1>3, <1>4 DEF WtInv, TreeHasOneAgent, MissingMeansRemoved
<1>7. \A j \in Job : records'[j] # NoRecord <=> records[j] # NoRecord
  BY <1>1, <1>3, <1>4 DEF ScannerConsistent
<1>8. \A j \in Job : records'[j] # NoRecord => Intact(j)'
  BY <1>2, <1>7 DEF WtInv, Intact, Valid
<1>9. \A q \in Preparer : PreparerConsistent(q)'
  BY <1>2 DEF WtInv, PreparerConsistent, Intact, Valid
<1>10. ASSUME NEW l \in Scanner PROVE ScannerConsistent(l)'
  <2>1. ScannerConsistent(l) /\ scanner'[l] \in {scanner[l], NotScanning}
    BY <1>1, <1>2 DEF WtInv
  <2> QED BY <1>2, <1>7, <2>1, NotScanningIsAState DEF ScannerConsistent
<1> QED BY <1>5, <1>6, <1>8, <1>9, <1>10 DEF WtInv

LEMMA WtStutterKeeps == WtInv /\ UNCHANGED wtVars => WtInv'
BY DEF wtVars, WtInv, WtTypeOK, TreeHasOneAgent, MissingMeansRemoved, Intact, Valid,
   PreparerConsistent, ScannerConsistent

LEMMA WtStepKeeps == WtInv /\ [WtNext]_wtVars => WtInv'
<1> SUFFICES ASSUME WtInv, [WtNext]_wtVars PROVE WtInv'
  OBVIOUS
<1>1. CASE UNCHANGED wtVars
  BY <1>1, WtStutterKeeps
<1>2. CASE \E p \in Preparer : MakeTree(p) \/ RecordTree(p) \/ PreparerEnds(p)
  BY <1>2, MakeKeeps, RecordKeeps, WtEndKeeps
<1>3. CASE \E p \in Preparer, j \in Job, a \in Agent, b \in Base :
             Reuse(p, j, a, b) \/ LookUp(p, j, a, b)
  BY <1>3, ReuseKeeps, LookUpKeeps
<1>4. CASE \E m \in Scanner : WriteScan(m)
  BY <1>4, WriteScanKeeps
<1>5. CASE \E m \in Scanner : \/ \E b \in Base : StartScan(m, b)
                              \/ \E j \in Job : Examine(m, j)
                              \/ ScanDies(m)
  BY <1>5, ScansKeep
<1>6. CASE \E j \in Job : RemoveTree(j) \/ DeleteBranch(j) \/ SwitchBranch(j)
  BY <1>6, OperatorsKeep
<1> QED BY <1>1, <1>2, <1>3, <1>4, <1>5, <1>6 DEF WtNext
------------------------------------------------------------------------------
(* Theorems *)

\* The inductive invariant of the worktrees holds for all calls that overlap or die.
THEOREM WtInvariance == WtSpec => []WtInv
BY WtInitHolds, WtStepKeeps, PTL DEF WtSpec

\* Worktrees, records and calls keep their types: a record, once there, always has
\* an agent, a base branch and a status.
THEOREM WtTypeCorrect == WtSpec => []WtTypeOK
<1>1. WtInv => WtTypeOK
  BY DEF WtInv
<1> QED BY <1>1, WtInvariance, PTL

\* However many calls prepare, adopt or reuse a worktree, one agent is told that it
\* is its own.
THEOREM TreesHaveOneAgent == WtSpec => []TreeHasOneAgent
<1>1. WtInv => TreeHasOneAgent
  BY DEF WtInv
<1> QED BY <1>1, WtInvariance, PTL

\* However late a scan writes what it saw, it reports missing only what somebody
\* removed or moved to another branch.
THEOREM MissingWasRemoved == WtSpec => []MissingMeansRemoved
<1>1. WtInv => MissingMeansRemoved
  BY DEF WtInv
<1> QED BY <1>1, WtInvariance, PTL
-------------------------------------------------------------------------------
(* Docs sync, for any number of commands, hosts, services and slugs.       *)
(* DocsInv: a command has written the first files of its plan; a document  *)
(* that an index names is there or about to be written, unless the tree is *)
(* torn; and what a command that nobody disturbed wrote is what its plan   *)
(* says, where the last service of a slug has the document.                *)

HostsFile == [kind |-> "hosts", of |-> 0]
ServicesFile == [kind |-> "services", of |-> 0]
HostFile(h) == [kind |-> "host", of |-> h]
ServiceFile(s) == [kind |-> "service", of |-> s]

\* Of the files of a plan the first ones were written and those in left were not.
Orderly(left, plan) ==
  /\ left \subseteq WritesOf(plan)
  /\ \A f \in WritesOf(plan) \ left, g \in left : Before(f, g)

\* The document of a service is the one of the last service of its slug that was written.
LastOfSlug(d, s, plan) ==
  /\ d.service[SlugOf[s]].id >= s
  /\ SlugOf[d.service[SlugOf[s]].id] = SlugOf[s]
  /\ d.service[SlugOf[s]].host = plan[d.service[SlugOf[s]].id]

\* The files of the plan that are not in left say what the plan says.
Fits(d, plan, left) ==
  /\ HostsFile \notin left => d.hosts = HostsOf(plan)
  /\ ServicesFile \notin left => d.services = plan
  /\ \A h \in HostsOf(plan) : HostFile(h) \notin left => d.host[h] = OnHost(plan, h)
  /\ \A s \in In(plan) : ServiceFile(s) \notin left => LastOfSlug(d, s, plan)

Undisturbed(w) == \A v \in Writer \ {w} : ~sync[v].busy

\* What a command under way knows.
WriterKnows(w) ==
  sync[w].busy =>
    /\ Orderly(sync[w].left, sync[w].plan)
    /\ sync[w].alone => Undisturbed(w) /\ Fits(docs, sync[w].plan, sync[w].left)
    /\ docsState = "sound" => sync[w].alone
    /\ docsState # "torn" => \A s \in In(sync[w].plan) : SlugOf[s] \notin linkedOut

ToBeWritten(file) == \E w \in Writer : sync[w].busy /\ file \in sync[w].left

\* A document the indexes name is there, or a command is about to write it.
Promised ==
  /\ \A h \in docs.hosts : docs.host[h] # {} \/ ToBeWritten(HostFile(h))
  /\ \A s \in In(docs.services) :
        docs.service[SlugOf[s]] # NoDoc \/ ToBeWritten(ServiceFile(s))

NobodyWrites == \A w \in Writer : ~sync[w].busy

DocsInv ==
  /\ DocsTypeOK
  /\ \A w \in Writer : WriterKnows(w)
  /\ docsState # "torn" => Promised
  /\ docsState = "sound" /\ NobodyWrites => Fits(docs, docs.services, {})
------------------------------------------------------------------------------
\* The files of a plan (_build_apply_writes).
LEMMA WritesAre ==
  ASSUME NEW plan \in Plan, NEW f
  PROVE  /\ f \in WritesOf(plan) <=> \/ f = HostsFile
                                     \/ f = ServicesFile
                                     \/ \E h \in HostsOf(plan) : f = HostFile(h)
                                     \/ \E s \in In(plan) : f = ServiceFile(s)
         /\ HostsOf(plan) \subseteq DocHost
         /\ In(plan) \subseteq Service
         /\ WritesOf(plan) \subseteq File
         /\ \A h \in HostsOf(plan) : OnHost(plan, h) \in SUBSET Service /\ OnHost(plan, h) # {}
<1>1. HostsOf(plan) \subseteq DocHost /\ In(plan) \subseteq Service
  BY DocsParameters DEF HostsOf, In, Plan, DocHost, Service
<1>2. f \in WritesOf(plan) <=> \/ f = HostsFile
                               \/ f = ServicesFile
                               \/ \E h \in HostsOf(plan) : f = HostFile(h)
                               \/ \E s \in In(plan) : f = ServiceFile(s)
  BY DEF WritesOf, HostsFile, ServicesFile, HostFile, ServiceFile
<1>3. WritesOf(plan) \subseteq File
  BY <1>1 DEF WritesOf, File
<1>4. \A h \in HostsOf(plan) : OnHost(plan, h) \in SUBSET Service /\ OnHost(plan, h) # {}
  BY DEF HostsOf, OnHost, In
<1>5. QED
  BY <1>1, <1>2, <1>3, <1>4

\* How the files of a plan are ordered.
LEMMA OrderIs ==
  ASSUME NEW a \in Nat, NEW b \in Nat
  PROVE  /\ ~Before(HostFile(a), HostsFile) /\ ~Before(ServiceFile(a), ServicesFile)
         /\ ~Before(ServicesFile, HostsFile) /\ ~Before(HostFile(a), ServicesFile)
         /\ Before(ServiceFile(a), ServiceFile(b)) <=> a < b
         /\ ~Before(ServiceFile(a), HostsFile) /\ ~Before(ServiceFile(a), HostFile(b))
BY DEF Before, Position, HostFile, ServiceFile, HostsFile, ServicesFile

\* What one write_text changes.
LEMMA RenderedIs ==
  ASSUME DocsTypeOK, NEW plan \in Plan, NEW f \in WritesOf(plan)
  PROVE  LET d == Rendered(f, plan) IN
         /\ d \in [hosts : SUBSET DocHost, services : Plan,
                   host : [DocHost -> SUBSET Service], service : [Slug -> ServiceDoc]]
         /\ d.hosts = IF f = HostsFile THEN HostsOf(plan) ELSE docs.hosts
         /\ d.services = IF f = ServicesFile THEN plan ELSE docs.services
         /\ \A h \in DocHost :
               d.host[h] = IF f = HostFile(h) THEN OnHost(plan, h) ELSE docs.host[h]
         /\ \A g \in Slug : d.service[g] =
               IF \E s \in In(plan) : f = ServiceFile(s) /\ SlugOf[s] = g
               THEN [id |-> f.of, host |-> plan[f.of]] ELSE docs.service[g]
<1> DEFINE d == Rendered(f, plan)
<1>t. docs \in [hosts : SUBSET DocHost, services : Plan,
                host : [DocHost -> SUBSET Service], service : [Slug -> ServiceDoc]]
  BY DEF DocsTypeOK
<1>1. CASE f = HostsFile
  <2>1. Rendered(f, plan) = [docs EXCEPT !.hosts = HostsOf(plan)]
    BY <1>1 DEF Rendered, HostsFile
  <2>2. f # ServicesFile /\ (\A h : f # HostFile(h)) /\ (\A s : f # ServiceFile(s))
    BY <1>1 DEF HostsFile, ServicesFile, HostFile, ServiceFile
  <2>3. HostsOf(plan) \in SUBSET DocHost
    BY WritesAre
  <2>4. QED
    BY <1>t, <1>1, <2>1, <2>2, <2>3
<1>2. CASE f = ServicesFile
  <2>1. Rendered(f, plan) = [docs EXCEPT !.services = plan]
    BY <1>2 DEF Rendered, ServicesFile
  <2>2. f # HostsFile /\ (\A h : f # HostFile(h)) /\ (\A s : f # ServiceFile(s))
    BY <1>2 DEF HostsFile, ServicesFile, HostFile, ServiceFile
  <2>3. QED
    BY <1>t, <1>2, <2>1, <2>2
<1>3. ASSUME NEW h \in HostsOf(plan), f = HostFile(h)
      PROVE  /\ d \in [hosts : SUBSET DocHost, services : Plan,
                       host : [DocHost -> SUBSET Service], service : [Slug -> ServiceDoc]]
             /\ d.hosts = IF f = HostsFile THEN HostsOf(plan) ELSE docs.hosts
             /\ d.services = IF f = ServicesFile THEN plan ELSE docs.services
             /\ \A k \in DocHost :
                   d.host[k] = IF f = HostFile(k) THEN OnHost(plan, k) ELSE docs.host[k]
             /\ \A g \in Slug : d.service[g] =
                   IF \E s \in In(plan) : f = ServiceFile(s) /\ SlugOf[s] = g
                   THEN [id |-> f.of, host |-> plan[f.of]] ELSE docs.service[g]
  <2>1. Rendered(f, plan) = [docs EXCEPT !.host = [docs.host EXCEPT ![h] = OnHost(plan, h)]]
    BY <1>3 DEF Rendered, HostFile
  <2>2. /\ f # HostsFile /\ f # ServicesFile /\ \A s : f # ServiceFile(s)
        /\ \A k : f = HostFile(k) <=> k = h
    BY <1>3 DEF HostsFile, ServicesFile, HostFile, ServiceFile
  <2>3. h \in DocHost /\ OnHost(plan, h) \in SUBSET Service
    BY WritesAre
  <2>4. QED
    BY <1>t, <2>1, <2>2, <2>3
<1>4. ASSUME NEW s \in In(plan), f = ServiceFile(s)
      PROVE  /\ d \in [hosts : SUBSET DocHost, services : Plan,
                       host : [DocHost -> SUBSET Service], service : [Slug -> ServiceDoc]]
             /\ d.hosts = IF f = HostsFile THEN HostsOf(plan) ELSE docs.hosts
             /\ d.services = IF f = ServicesFile THEN plan ELSE docs.services
             /\ \A k \in DocHost :
                   d.host[k] = IF f = HostFile(k) THEN OnHost(plan, k) ELSE docs.host[k]
             /\ \A g \in Slug : d.service[g] =
                   IF \E r \in In(plan) : f = ServiceFile(r) /\ SlugOf[r] = g
                   THEN [id |-> f.of, host |-> plan[f.of]] ELSE docs.service[g]
  <2>1. Rendered(f, plan) = [docs EXCEPT !.service =
                               [docs.service EXCEPT ![SlugOf[s]] = [id |-> f.of, host |-> plan[f.of]]]]
    BY <1>4 DEF Rendered, ServiceFile
  <2>2. /\ f # HostsFile /\ f # ServicesFile /\ f.of = s
        /\ \A k : f # HostFile(k)
        /\ \A k : f = ServiceFile(k) <=> k = s
    BY <1>4 DEF HostsFile, ServicesFile, HostFile, ServiceFile
  <2>3. s \in Service
    BY WritesAre
  <2>4. SlugOf[s] \in Slug /\ [id |-> f.of, host |-> plan[f.of]] \in ServiceDoc
    BY <2>2, <2>3, DocsParameters DEF Slug, ServiceDoc, Plan, Service
  <2>5. QED
    BY <1>t, <2>1, <2>2, <2>3, <2>4
<1>5. QED
  BY <1>1, <1>2, <1>3, <1>4, WritesAre

\* The files written and left after the next one was written are still in order.
LEMMA OrderlyWrite ==
  ASSUME NEW plan \in Plan, NEW left, Orderly(left, plan),
         NEW f \in left, \A g \in left \ {f} : Before(f, g)
  PROVE  Orderly(left \ {f}, plan)
BY DEF Orderly

\* While an index is written, no file it names has been written from this plan.
LEMMA NamedIsLeft ==
  ASSUME NEW plan \in Plan, NEW left, Orderly(left, plan)
  PROVE  /\ HostsFile \in left => \A h \in HostsOf(plan) : HostFile(h) \in left
         /\ ServicesFile \in left => \A s \in In(plan) : ServiceFile(s) \in left
<1>1. ASSUME HostsFile \in left, NEW h \in HostsOf(plan)
      PROVE  HostFile(h) \in left
  <2>1. h \in Nat /\ HostFile(h) \in WritesOf(plan)
    BY WritesAre, DocsParameters DEF DocHost
  <2>2. ~Before(HostFile(h), HostsFile)
    BY <2>1, OrderIs
  <2>3. QED
    BY <1>1, <2>1, <2>2 DEF Orderly
<1>2. ASSUME ServicesFile \in left, NEW s \in In(plan)
      PROVE  ServiceFile(s) \in left
  <2>1. s \in Nat /\ ServiceFile(s) \in WritesOf(plan)
    BY WritesAre, DocsParameters DEF Service
  <2>2. ~Before(ServiceFile(s), ServicesFile)
    BY <2>1, OrderIs
  <2>3. QED
    BY <1>2, <2>1, <2>2 DEF Orderly
<1>3. QED
  BY <1>1, <1>2

\* A write keeps the files that say what the plan says: a service that gets the
\* document of a service of the same slug comes after it.
LEMMA WriteFits ==
  ASSUME DocsTypeOK, NEW plan \in Plan, NEW left, Orderly(left, plan),
         NEW f \in left, \A g \in left \ {f} : Before(f, g),
         Fits(docs, plan, left)
  PROVE  Fits(Rendered(f, plan), plan, left \ {f})
<1> DEFINE d == Rendered(f, plan)
<1>f. f \in WritesOf(plan)
  BY DEF Orderly
<1>r. /\ d.hosts = IF f = HostsFile THEN HostsOf(plan) ELSE docs.hosts
      /\ d.services = IF f = ServicesFile THEN plan ELSE docs.services
      /\ \A h \in DocHost :
            d.host[h] = IF f = HostFile(h) THEN OnHost(plan, h) ELSE docs.host[h]
      /\ \A g \in Slug : d.service[g] =
            IF \E s \in In(plan) : f = ServiceFile(s) /\ SlugOf[s] = g
            THEN [id |-> f.of, host |-> plan[f.of]] ELSE docs.service[g]
  BY <1>f, RenderedIs
<1>w. HostsOf(plan) \subseteq DocHost /\ In(plan) \subseteq Service /\ In(plan) \subseteq Nat
      /\ \A s \in In(plan) : SlugOf[s] \in Slug /\ ServiceFile(s) \in WritesOf(plan)
  BY WritesAre DEF Slug, Service
<1> HIDE DEF d
<1>1. HostsFile \notin left \ {f} => d.hosts = HostsOf(plan)
  BY <1>r DEF Fits
<1>2. ServicesFile \notin left \ {f} => d.services = plan
  BY <1>r DEF Fits
<1>3. \A h \in HostsOf(plan) : HostFile(h) \notin left \ {f} => d.host[h] = OnHost(plan, h)
  BY <1>r, <1>w DEF Fits
<1>4. ASSUME NEW s \in In(plan), ServiceFile(s) \notin left \ {f}
      PROVE  LastOfSlug(d, s, plan)
  <2>1. CASE \E t \in In(plan) : f = ServiceFile(t) /\ SlugOf[t] = SlugOf[s]
    <3>1. PICK t \in In(plan) : f = ServiceFile(t) /\ SlugOf[t] = SlugOf[s]
      BY <2>1
    <3>2. f.of = t
      BY <3>1 DEF ServiceFile
    <3>3. d.service[SlugOf[s]] = [id |-> t, host |-> plan[t]]
      BY <1>r, <1>w, <2>1, <3>2
    <3>4. t = s \/ Before(ServiceFile(s), ServiceFile(t))
      <4>1. CASE ServiceFile(s) = f
        BY <4>1, <3>1 DEF ServiceFile
      <4>2. CASE ServiceFile(s) # f
        BY <4>2, <3>1, <1>4, <1>w DEF Orderly
      <4>3. QED
        BY <4>1, <4>2
    <3>5. s \in Nat /\ t \in Nat
      BY <1>w
    <3>6. t >= s
      BY <3>4, <3>5, OrderIs
    <3>7. QED
      BY <3>1, <3>3, <3>6 DEF LastOfSlug
  <2>2. CASE ~\E t \in In(plan) : f = ServiceFile(t) /\ SlugOf[t] = SlugOf[s]
    <3>1. d.service[SlugOf[s]] = docs.service[SlugOf[s]]
      BY <1>r, <1>w, <2>2
    <3>2. ServiceFile(s) \notin left
      BY <1>4, <2>2
    <3>3. LastOfSlug(docs, s, plan)
      BY <3>2 DEF Fits
    <3>4. QED
      BY <3>1, <3>3 DEF LastOfSlug
  <2>3. QED
    BY <2>1, <2>2
<1>5. QED
  BY <1>1, <1>2, <1>3, <1>4 DEF d, Fits

\* Files that say what the indexes say are there.
LEMMA FittingIsThere ==
  ASSUME NEW d, d.services \in Plan, Fits(d, d.services, {})
  PROVE  /\ \A h \in d.hosts : d.host[h] # {}
         /\ \A s \in In(d.services) : d.service[SlugOf[s]] # NoDoc
<1>1. d.hosts = HostsOf(d.services)
      /\ \A h \in HostsOf(d.services) : d.host[h] = OnHost(d.services, h)
  BY DEF Fits
<1>2. \A h \in HostsOf(d.services) : OnHost(d.services, h) # {}
  BY WritesAre
<1>3. \A s \in In(d.services) : s \in Nat /\ s > 0
  BY WritesAre, DocsParameters DEF Service
<1>4. ASSUME NEW s \in In(d.services), d.service[SlugOf[s]] = NoDoc
      PROVE  FALSE
  <2>1. d.service[SlugOf[s]].id = 0
    BY <1>4 DEF NoDoc
  <2>2. LastOfSlug(d, s, d.services)
    BY DEF Fits
  <2>3. d.service[SlugOf[s]].id >= s
    BY <2>2 DEF LastOfSlug
  <2>4. 0 >= s
    BY <2>1, <2>3
  <2>5. QED
    BY <1>3, <2>4
<1>5. QED
  BY <1>1, <1>2, <1>4

\* Each write keeps what the indexes name or is about to write it.
LEMMA WritePromised ==
  ASSUME DocsTypeOK, NEW w \in Writer, sync[w].busy, Promised,
         NEW plan, plan = sync[w].plan, Orderly(sync[w].left, plan), NEW f \in sync[w].left
  PROVE  /\ \A h \in Rendered(f, plan).hosts :
              \/ Rendered(f, plan).host[h] # {}
              \/ ToBeWritten(HostFile(h)) /\ f # HostFile(h)
         /\ \A s \in In(Rendered(f, plan).services) :
              \/ Rendered(f, plan).service[SlugOf[s]] # NoDoc
              \/ ToBeWritten(ServiceFile(s)) /\ f # ServiceFile(s)
<1> DEFINE d == Rendered(f, plan)
<1>p. plan \in Plan /\ docs.services \in Plan /\ docs.hosts \subseteq DocHost
  BY DEF DocsTypeOK
<1>f. f \in WritesOf(plan)
  BY DEF Orderly
<1>r. /\ d.hosts = IF f = HostsFile THEN HostsOf(plan) ELSE docs.hosts
      /\ d.services = IF f = ServicesFile THEN plan ELSE docs.services
      /\ \A h \in DocHost :
            d.host[h] = IF f = HostFile(h) THEN OnHost(plan, h) ELSE docs.host[h]
      /\ \A g \in Slug : d.service[g] =
            IF \E s \in In(plan) : f = ServiceFile(s) /\ SlugOf[s] = g
            THEN [id |-> f.of, host |-> plan[f.of]] ELSE docs.service[g]
  BY <1>p, <1>f, RenderedIs
<1>w. HostsOf(plan) \subseteq DocHost /\ \A h \in HostsOf(plan) : OnHost(plan, h) # {}
  BY <1>p, WritesAre
<1>s. /\ In(plan) \subseteq Service /\ In(docs.services) \subseteq Service
      /\ \A s \in Service : SlugOf[s] \in Slug /\ s # 0
  BY <1>p, WritesAre DEF Slug, Service
<1>n. /\ f = HostsFile => \A h \in HostsOf(plan) : HostFile(h) \in sync[w].left
      /\ f = ServicesFile => \A s \in In(plan) : ServiceFile(s) \in sync[w].left
  BY <1>p, NamedIsLeft
<1>o. \A h : HostFile(h) # HostsFile /\ ServiceFile(h) # ServicesFile
  BY DEF HostFile, HostsFile, ServiceFile, ServicesFile
<1>k. /\ \A h \in DocHost : f = HostFile(h) => h \in HostsOf(plan)
      /\ \A s \in Service : f = ServiceFile(s) => s \in In(plan) /\ f.of = s
  <2>1. \A h, k : HostFile(h) = HostFile(k) => h = k
    BY DEF HostFile
  <2>2. \A s, k : ServiceFile(s) = ServiceFile(k) => s = k
    BY DEF ServiceFile
  <2>3. \A a, b : HostFile(a) # ServiceFile(b) /\ HostFile(a) # HostsFile /\ HostFile(a) # ServicesFile
                  /\ ServiceFile(b) # HostsFile /\ ServiceFile(b) # ServicesFile /\ ServiceFile(b).of = b
    BY DEF HostFile, ServiceFile, HostsFile, ServicesFile
  <2>4. QED
    BY <1>p, <1>f, <2>1, <2>2, <2>3, WritesAre
<1> HIDE DEF d
<1>1. ASSUME NEW h \in d.hosts
      PROVE  d.host[h] # {} \/ (ToBeWritten(HostFile(h)) /\ f # HostFile(h))
  <2>1. h \in DocHost
    BY <1>r, <1>p, <1>w
  <2>2. CASE f = HostFile(h)
    <3>1. d.host[h] = OnHost(plan, h) /\ h \in HostsOf(plan)
      BY <2>1, <2>2, <1>r, <1>k
    <3>2. QED
      BY <3>1, <1>w
  <2>3. CASE f # HostFile(h)
    <3>1. CASE f = HostsFile
      BY <3>1, <2>3, <1>r, <1>n DEF ToBeWritten
    <3>2. CASE f # HostsFile
      BY <3>2, <2>1, <2>3, <1>r DEF Promised
    <3>3. QED
      BY <3>1, <3>2
  <2>4. QED
    BY <2>2, <2>3
<1>2. ASSUME NEW s \in In(d.services)
      PROVE  d.service[SlugOf[s]] # NoDoc \/ (ToBeWritten(ServiceFile(s)) /\ f # ServiceFile(s))
  <2>1. s \in Service /\ SlugOf[s] \in Slug
    BY <1>r, <1>s
  <2>2. CASE \E t \in In(plan) : f = ServiceFile(t) /\ SlugOf[t] = SlugOf[s]
    <3>1. PICK t \in In(plan) : f = ServiceFile(t)
      BY <2>2
    <3>2. f.of = t /\ t # 0
      BY <3>1, <1>s, <1>k
    <3>3. d.service[SlugOf[s]] = [id |-> t, host |-> plan[t]]
      BY <1>r, <2>1, <2>2, <3>2
    <3>4. QED
      BY <3>2, <3>3 DEF NoDoc
  <2>3. CASE ~\E t \in In(plan) : f = ServiceFile(t) /\ SlugOf[t] = SlugOf[s]
    <3>1. d.service[SlugOf[s]] = docs.service[SlugOf[s]]
      BY <1>r, <2>1, <2>3
    <3>2. f # ServiceFile(s)
      BY <2>1, <2>3, <1>k
    <3>3. CASE f = ServicesFile
      BY <3>2, <3>3, <1>r, <1>n DEF ToBeWritten
    <3>4. CASE f # ServicesFile
      BY <3>1, <3>2, <3>4, <1>r DEF Promised
    <3>5. QED
      BY <3>3, <3>4
  <2>4. QED
    BY <2>2, <2>3
<1>3. QED
  BY <1>1, <1>2 DEF d
------------------------------------------------------------------------------
LEMMA DocsInitHolds == DocsInit => DocsInv
<1> SUFFICES ASSUME DocsInit
             PROVE  DocsInv
  OBVIOUS
<1>1. NoServices \in Plan
  BY DocsParameters DEF NoServices, Plan
<1>2. In(NoServices) = {} /\ HostsOf(NoServices) = {}
  BY DEF In, HostsOf, NoServices
<1>3. NoDoc \in ServiceDoc
  BY DocsParameters DEF NoDoc, ServiceDoc
<1>4. DocsTypeOK
  <2>1. docs \in [hosts : SUBSET DocHost, services : Plan,
                  host : [DocHost -> SUBSET Service], service : [Slug -> ServiceDoc]]
    BY <1>1, <1>3 DEF DocsInit
  <2>2. sync \in [Writer -> [busy : BOOLEAN, plan : Plan, left : SUBSET File, alone : BOOLEAN]]
    <3>1. Idle \in [busy : BOOLEAN, plan : Plan, left : SUBSET File, alone : BOOLEAN]
      BY <1>1 DEF Idle
    <3>2. QED
      BY <3>1 DEF DocsInit
  <2>3. QED
    BY <1>1, <2>1, <2>2, DocsParameters DEF DocsInit, DocsTypeOK
<1>5. \A w \in Writer : ~sync[w].busy
  BY DEF DocsInit, Idle
<1>6. docs.hosts = {} /\ docs.services = NoServices
  BY DEF DocsInit
<1>7. Promised
  BY <1>2, <1>6 DEF Promised
<1>8. Fits(docs, docs.services, {})
  BY <1>2, <1>6 DEF Fits
<1>9. QED
  BY <1>4, <1>5, <1>7, <1>8 DEF DocsInv, WriterKnows

LEMMA BeginSyncKeeps ==
  ASSUME DocsInv, NEW w \in Writer, NEW old \in DocHost, NEW new \in DocHost,
         BeginSync(w, old, new)
  PROVE  DocsInv'
<1> DEFINE plan == Renamed(old, new)
           L == WritesOf(plan)
<1>p. plan \in Plan
  BY DocsParameters DEF Renamed, Plan, DocHost, DocsInv, DocsTypeOK
<1>l. L \subseteq File
  BY <1>p, WritesAre
<1>t. sync \in [Writer -> [busy : BOOLEAN, plan : Plan, left : SUBSET File, alone : BOOLEAN]]
  BY DEF DocsInv, DocsTypeOK
<1>b. /\ ~sync[w].busy
      /\ \A s \in In(plan) : SlugOf[s] \notin linkedOut
      /\ sync' = [v \in Writer |->
                   IF v = w THEN [busy |-> TRUE, plan |-> plan, left |-> L, alone |-> ~Others(w)]
                   ELSE [sync[v] EXCEPT !.alone = FALSE]]
      /\ docsState' = IF Others(w) /\ docsState = "sound" THEN "overlapped" ELSE docsState
      /\ UNCHANGED <<registry, docs, linkedOut>>
  BY DEF BeginSync
<1> HIDE DEF plan, L
<1>w. /\ sync'[w].busy /\ sync'[w].plan = plan /\ sync'[w].left = L
      /\ sync'[w].alone <=> ~Others(w)
  BY <1>b
<1>v. \A v \in Writer \ {w} : /\ sync'[v].busy = sync[v].busy /\ sync'[v].plan = sync[v].plan
                              /\ sync'[v].left = sync[v].left /\ ~sync'[v].alone
  BY <1>b, <1>t
<1>1. DocsTypeOK'
  <2>1. Others(w) \in BOOLEAN
    BY DEF Others
  <2>2. sync' \in [Writer -> [busy : BOOLEAN, plan : Plan, left : SUBSET File, alone : BOOLEAN]]
    BY <1>b, <1>p, <1>l, <1>t, <2>1
  <2>3. syncs' \in 0..SyncCap /\ docsState' \in {"sound", "overlapped", "torn"}
    BY DocsParameters DEF BeginSync, DocsInv, DocsTypeOK
  <2>4. QED
    BY <1>b, <2>2, <2>3 DEF DocsInv, DocsTypeOK
<1>2. WriterKnows(w)'
  <2>1. Orderly(L, plan)
    BY DEF Orderly, L
  <2>2. Fits(docs, plan, L)
    BY <1>p, WritesAre DEF Fits, L
  <2>3. ~Others(w) => Undisturbed(w)'
    BY <1>v DEF Others, Undisturbed
  <2>4. docsState' = "sound" => ~Others(w)
    BY <1>b
  <2>5. QED
    BY <1>b, <1>w, <2>1, <2>2, <2>3, <2>4 DEF WriterKnows
<1>3. ASSUME NEW v \in Writer \ {w}, sync[v].busy
      PROVE  WriterKnows(v)'
  <2>1. Others(w)
    BY <1>3 DEF Others
  <2>2. docsState' # "sound" /\ (docsState' # "torn" => docsState # "torn")
    BY <1>b, <2>1
  <2>3. Orderly(sync[v].left, sync[v].plan)
        /\ (docsState # "torn" => \A s \in In(sync[v].plan) : SlugOf[s] \notin linkedOut)
    BY <1>3 DEF DocsInv, WriterKnows
  <2>4. QED
    BY <1>b, <1>v, <2>2, <2>3 DEF WriterKnows
<1>4. \A v \in Writer : WriterKnows(v)'
  BY <1>2, <1>3, <1>v DEF WriterKnows
<1>5. docsState' # "torn" => Promised'
  <2>1. \A file : ToBeWritten(file) => ToBeWritten(file)'
    BY <1>b, <1>v, <1>w DEF ToBeWritten
  <2>2. docsState' # "torn" => docsState # "torn"
    BY <1>b
  <2>3. QED
    BY <1>b, <2>1, <2>2 DEF DocsInv, Promised
<1>6. ~NobodyWrites'
  BY <1>w DEF NobodyWrites
<1>7. QED
  BY <1>1, <1>4, <1>5, <1>6 DEF DocsInv

\* The write of a file that is not the last one of its command.
LEMMA EarlierWriteKeeps ==
  ASSUME DocsInv, NEW w \in Writer, sync[w].busy, NEW f \in sync[w].left, IsNext(w, f),
         docs' = Rendered(f, sync[w].plan),
         sync' = [sync EXCEPT ![w].left = sync[w].left \ {f}],
         UNCHANGED <<docsState, registry, linkedOut, syncs>>
  PROVE  DocsInv'
<1> DEFINE plan == sync[w].plan
           rest == sync[w].left \ {f}
<1>t. /\ sync \in [Writer -> [busy : BOOLEAN, plan : Plan, left : SUBSET File, alone : BOOLEAN]]
      /\ plan \in Plan /\ DocsTypeOK
  BY DEF DocsInv, DocsTypeOK
<1>k. /\ Orderly(sync[w].left, plan)
      /\ sync[w].alone => Undisturbed(w) /\ Fits(docs, plan, sync[w].left)
      /\ docsState = "sound" => sync[w].alone
      /\ docsState # "torn" => \A s \in In(plan) : SlugOf[s] \notin linkedOut
  BY DEF DocsInv, WriterKnows
<1>n. \A g \in sync[w].left \ {f} : Before(f, g)
  BY DEF IsNext
<1>w. sync'[w].busy /\ sync'[w].plan = plan /\ sync'[w].left = rest
      /\ sync'[w].alone = sync[w].alone
  BY <1>t
<1>v. \A v \in Writer \ {w} : sync'[v] = sync[v]
  BY <1>t
<1>1. DocsTypeOK'
  <2>1. sync' \in [Writer -> [busy : BOOLEAN, plan : Plan, left : SUBSET File, alone : BOOLEAN]]
    BY <1>t
  <2>2. f \in WritesOf(plan)
    BY <1>k DEF Orderly
  <2>3. docs' \in [hosts : SUBSET DocHost, services : Plan,
                   host : [DocHost -> SUBSET Service], service : [Slug -> ServiceDoc]]
    BY <1>t, <2>2, RenderedIs
  <2>4. QED
    BY <1>t, <2>1, <2>3 DEF DocsTypeOK
<1>2. WriterKnows(w)'
  <2>1. Orderly(rest, plan)
    BY <1>k, <1>n, <1>t, OrderlyWrite
  <2>2. sync[w].alone => Fits(docs', plan, rest)
    BY <1>k, <1>n, <1>t, WriteFits
  <2>3. Undisturbed(w) => Undisturbed(w)'
    BY <1>v DEF Undisturbed
  <2>4. QED
    BY <1>k, <1>w, <2>1, <2>2, <2>3 DEF WriterKnows
<1>3. ASSUME NEW v \in Writer \ {w}, sync[v].busy
      PROVE  WriterKnows(v)'
  <2>1. /\ Orderly(sync[v].left, sync[v].plan)
        /\ sync[v].alone => Undisturbed(v)
        /\ docsState = "sound" => sync[v].alone
        /\ docsState # "torn" => \A s \in In(sync[v].plan) : SlugOf[s] \notin linkedOut
    BY <1>3 DEF DocsInv, WriterKnows
  <2>2. ~sync[v].alone
    BY <1>3, <2>1 DEF Undisturbed
  <2>3. QED
    BY <1>v, <2>1, <2>2 DEF WriterKnows
<1>4. \A v \in Writer : WriterKnows(v)'
  BY <1>2, <1>3, <1>v DEF WriterKnows
<1>5. ASSUME docsState' # "torn"
      PROVE  Promised'
  <2>1. Promised
    BY <1>5 DEF DocsInv
  <2>2. /\ \A h \in docs'.hosts :
             \/ docs'.host[h] # {}
             \/ ToBeWritten(HostFile(h)) /\ f # HostFile(h)
        /\ \A s \in In(docs'.services) :
             \/ docs'.service[SlugOf[s]] # NoDoc
             \/ ToBeWritten(ServiceFile(s)) /\ f # ServiceFile(s)
    BY <1>t, <1>k, <2>1, WritePromised
  <2>3. \A file : ToBeWritten(file) /\ f # file => ToBeWritten(file)'
    BY <1>v, <1>w DEF ToBeWritten
  <2>4. QED
    BY <2>2, <2>3 DEF Promised
<1>6. ~NobodyWrites'
  BY <1>w DEF NobodyWrites
<1>7. QED
  BY <1>1, <1>4, <1>5, <1>6 DEF DocsInv

\* The last write of a command.
LEMMA LastWriteKeeps ==
  ASSUME DocsInv, NEW w \in Writer, sync[w].busy, NEW f \in sync[w].left, IsNext(w, f),
         docs' = Rendered(f, sync[w].plan), sync[w].left \ {f} = {},
         sync' = [sync EXCEPT ![w] = Idle],
         docsState' = IF sync[w].alone THEN "sound" ELSE docsState,
         UNCHANGED <<registry, linkedOut, syncs>>
  PROVE  DocsInv'
<1> DEFINE plan == sync[w].plan
<1>t. /\ sync \in [Writer -> [busy : BOOLEAN, plan : Plan, left : SUBSET File, alone : BOOLEAN]]
      /\ plan \in Plan /\ DocsTypeOK
  BY DEF DocsInv, DocsTypeOK
<1>k. /\ Orderly(sync[w].left, plan)
      /\ sync[w].alone => Undisturbed(w) /\ Fits(docs, plan, sync[w].left)
      /\ docsState = "sound" => sync[w].alone
  BY DEF DocsInv, WriterKnows
<1>n. \A g \in sync[w].left \ {f} : Before(f, g)
  BY DEF IsNext
<1>w. ~sync'[w].busy
  BY <1>t DEF Idle
<1>v. \A v \in Writer \ {w} : sync'[v] = sync[v]
  BY <1>t
<1>1. DocsTypeOK'
  <2>1. sync' \in [Writer -> [busy : BOOLEAN, plan : Plan, left : SUBSET File, alone : BOOLEAN]]
    <3>1. Idle \in [busy : BOOLEAN, plan : Plan, left : SUBSET File, alone : BOOLEAN]
      BY DocsParameters DEF Idle, NoServices, Plan
    <3>2. QED
      BY <1>t, <3>1
  <2>2. f \in WritesOf(plan)
    BY <1>k DEF Orderly
  <2>3. docs' \in [hosts : SUBSET DocHost, services : Plan,
                   host : [DocHost -> SUBSET Service], service : [Slug -> ServiceDoc]]
    BY <1>t, <2>2, RenderedIs
  <2>4. docsState' \in {"sound", "overlapped", "torn"}
    BY DEF DocsInv, DocsTypeOK
  <2>5. QED
    BY <1>t, <2>1, <2>3, <2>4 DEF DocsTypeOK
<1>2. ASSUME NEW v \in Writer, sync'[v].busy
      PROVE  WriterKnows(v)' /\ ~sync[w].alone
  <2>1. v # w /\ sync[v].busy /\ sync'[v] = sync[v]
    BY <1>2, <1>v, <1>w
  <2>2. /\ Orderly(sync[v].left, sync[v].plan)
        /\ sync[v].alone => Undisturbed(v)
        /\ docsState = "sound" => sync[v].alone
        /\ docsState # "torn" => \A s \in In(sync[v].plan) : SlugOf[s] \notin linkedOut
    BY <2>1 DEF DocsInv, WriterKnows
  <2>3. ~sync[v].alone /\ ~sync[w].alone
    BY <1>k, <2>1, <2>2 DEF Undisturbed
  <2>4. QED
    BY <2>1, <2>2, <2>3 DEF WriterKnows
<1>3. \A v \in Writer : WriterKnows(v)'
  BY <1>2 DEF WriterKnows
<1>4. ASSUME sync[w].alone
      PROVE  Fits(docs', docs'.services, {})
  <2>1. Fits(docs', plan, {})
    BY <1>k, <1>n, <1>t, <1>4, WriteFits
  <2>2. docs'.services = plan
    BY <2>1 DEF Fits
  <2>3. QED
    BY <2>1, <2>2
<1>5. ASSUME docsState' # "torn"
      PROVE  Promised'
  <2>1. CASE sync[w].alone
    <3>1. docs'.services \in Plan
      BY <1>1 DEF DocsTypeOK
    <3>2. /\ \A h \in docs'.hosts : docs'.host[h] # {}
          /\ \A s \in In(docs'.services) : docs'.service[SlugOf[s]] # NoDoc
      BY <1>4, <2>1, <3>1, FittingIsThere
    <3>3. QED
      BY <3>2 DEF Promised
  <2>2. CASE ~sync[w].alone
    <3>1. Promised
      BY <1>5, <2>2 DEF DocsInv
    <3>2. /\ \A h \in docs'.hosts :
               \/ docs'.host[h] # {}
               \/ ToBeWritten(HostFile(h)) /\ f # HostFile(h)
          /\ \A s \in In(docs'.services) :
               \/ docs'.service[SlugOf[s]] # NoDoc
               \/ ToBeWritten(ServiceFile(s)) /\ f # ServiceFile(s)
      BY <1>t, <1>k, <3>1, WritePromised
    <3>3. \A file : ToBeWritten(file) /\ f # file => ToBeWritten(file)'
      BY <1>v DEF ToBeWritten
    <3>4. QED
      BY <3>2, <3>3 DEF Promised
  <2>3. QED
    BY <2>1, <2>2
<1>6. docsState' = "sound" /\ NobodyWrites' => Fits(docs, docs.services, {})'
  BY <1>k, <1>4
<1>7. QED
  BY <1>1, <1>3, <1>5, <1>6 DEF DocsInv

LEMMA WriteDocKeeps ==
  ASSUME DocsInv, NEW w \in Writer, WriteDoc(w)
  PROVE  DocsInv'
<1>1. PICK f \in sync[w].left :
        /\ sync[w].busy /\ IsNext(w, f)
        /\ docs' = Rendered(f, sync[w].plan)
        /\ \/ /\ sync' = [sync EXCEPT ![w].left = sync[w].left \ {f}]
              /\ docsState' = docsState
           \/ /\ sync[w].left \ {f} = {}
              /\ sync' = [sync EXCEPT ![w] = Idle]
              /\ docsState' = IF sync[w].alone THEN "sound" ELSE docsState
        /\ UNCHANGED <<registry, linkedOut, syncs>>
  BY DEF WriteDoc
<1>2. CASE sync' = [sync EXCEPT ![w].left = sync[w].left \ {f}] /\ docsState' = docsState
  BY <1>1, <1>2, EarlierWriteKeeps
<1>3. CASE /\ sync[w].left \ {f} = {}
           /\ sync' = [sync EXCEPT ![w] = Idle]
           /\ docsState' = IF sync[w].alone THEN "sound" ELSE docsState
  BY <1>1, <1>3, LastWriteKeeps
<1>4. QED
  BY <1>1, <1>2, <1>3

\* A command that ends before its last write leaves a torn tree, or ends because a
\* directory was linked away, and then the tree was torn before.
LEMMA EndsTorn ==
  ASSUME DocsInv, NEW w \in Writer, sync' = [sync EXCEPT ![w] = Idle], docsState' = "torn",
         UNCHANGED <<registry, docs, linkedOut, syncs>>
  PROVE  DocsInv'
<1>t. sync \in [Writer -> [busy : BOOLEAN, plan : Plan, left : SUBSET File, alone : BOOLEAN]]
  BY DEF DocsInv, DocsTypeOK
<1>w. ~sync'[w].busy /\ \A v \in Writer \ {w} : sync'[v] = sync[v]
  BY <1>t DEF Idle
<1>1. DocsTypeOK'
  <2>1. Idle \in [busy : BOOLEAN, plan : Plan, left : SUBSET File, alone : BOOLEAN]
    BY DocsParameters DEF Idle, NoServices, Plan
  <2>2. sync' \in [Writer -> [busy : BOOLEAN, plan : Plan, left : SUBSET File, alone : BOOLEAN]]
    BY <1>t, <2>1
  <2>3. QED
    BY <2>2 DEF DocsInv, DocsTypeOK
<1>2. ASSUME NEW v \in Writer, sync'[v].busy
      PROVE  WriterKnows(v)'
  <2>1. v # w /\ sync'[v] = sync[v]
    BY <1>2, <1>w
  <2>2. Orderly(sync[v].left, sync[v].plan)
        /\ (sync[v].alone => Undisturbed(v) /\ Fits(docs, sync[v].plan, sync[v].left))
    BY <1>2, <2>1 DEF DocsInv, WriterKnows
  <2>3. Undisturbed(v) => Undisturbed(v)'
    BY <1>w DEF Undisturbed
  <2>4. QED
    BY <2>1, <2>2, <2>3 DEF WriterKnows
<1>3. \A v \in Writer : WriterKnows(v)'
  BY <1>2 DEF WriterKnows
<1>4. QED
  BY <1>1, <1>3 DEF DocsInv

LEMMA SyncEscapesKeeps ==
  ASSUME DocsInv, NEW w \in Writer, SyncEscapes(w)
  PROVE  DocsInv'
<1>1. PICK f \in sync[w].left : sync[w].busy /\ Escapes(f)
  BY DEF SyncEscapes
<1>2. docsState = "torn"
  <2>1. f \in WritesOf(sync[w].plan)
    BY <1>1 DEF DocsInv, WriterKnows, Orderly
  <2>2. f.of \in In(sync[w].plan)
    BY <1>1, <2>1 DEF Escapes, WritesOf
  <2>3. QED
    BY <1>1, <2>2 DEF DocsInv, WriterKnows, Escapes
<1>3. QED
  BY <1>2, EndsTorn DEF SyncEscapes

LEMMA LinkOutKeeps ==
  ASSUME DocsInv, NEW g \in Slug, LinkOut(g)
  PROVE  DocsInv'
<1>1. UNCHANGED <<registry, docs, sync, syncs>>
  BY DEF LinkOut
<1>2. DocsTypeOK'
  BY <1>1 DEF LinkOut, DocsInv, DocsTypeOK
<1>3. ASSUME NEW v \in Writer, sync[v].busy
      PROVE  WriterKnows(v)'
  <2>1. docsState' = "torn"
    BY <1>3 DEF LinkOut
  <2>2. Orderly(sync[v].left, sync[v].plan)
        /\ (sync[v].alone => Undisturbed(v) /\ Fits(docs, sync[v].plan, sync[v].left))
    BY <1>3 DEF DocsInv, WriterKnows
  <2>3. QED
    BY <1>1, <2>1, <2>2 DEF WriterKnows, Undisturbed
<1>4. \A v \in Writer : WriterKnows(v)'
  BY <1>1, <1>3 DEF WriterKnows
<1>5. docsState' # "torn" => docsState' = docsState
  BY DEF LinkOut
<1>6. Promised => Promised'
  BY <1>1 DEF Promised, ToBeWritten
<1>7. NobodyWrites' <=> NobodyWrites
  BY <1>1 DEF NobodyWrites
<1>8. QED
  BY <1>1, <1>2, <1>4, <1>5, <1>6, <1>7 DEF DocsInv

\* Steps that touch neither the tree nor a command.
LEMMA DocsUntouched ==
  ASSUME DocsInv, registry' \in Plan, UNCHANGED <<docs, sync, linkedOut, syncs, docsState>>
  PROVE  DocsInv'
BY DEF DocsInv, DocsTypeOK, WriterKnows, Undisturbed, Promised, ToBeWritten, NobodyWrites

LEMMA DocsStepKeeps == DocsInv /\ [DocsNext]_docsVars => DocsInv'
<1> SUFFICES ASSUME DocsInv, [DocsNext]_docsVars
             PROVE  DocsInv'
  OBVIOUS
<1>1. ASSUME NEW w \in Writer, WriteDoc(w)
      PROVE  DocsInv'
  BY <1>1, WriteDocKeeps
<1>2. ASSUME NEW w \in Writer, SyncEscapes(w)
      PROVE  DocsInv'
  BY <1>2, SyncEscapesKeeps
<1>3. ASSUME NEW w \in Writer, SyncDies(w)
      PROVE  DocsInv'
  BY <1>3, EndsTorn DEF SyncDies
<1>4. ASSUME NEW w \in Writer, NEW old \in DocHost, NEW new \in DocHost, BeginSync(w, old, new)
      PROVE  DocsInv'
  BY <1>4, BeginSyncKeeps
<1>5. ASSUME NEW s \in Service, NEW h \in DocHost, Register(s, h)
      PROVE  DocsInv'
  <2>1. registry' \in Plan
    BY <1>5, DocsParameters DEF Register, DocsInv, DocsTypeOK, Plan, DocHost
  <2>2. QED
    BY <1>5, <2>1, DocsUntouched DEF Register
<1>6. ASSUME NEW g \in Slug, LinkOut(g)
      PROVE  DocsInv'
  BY <1>6, LinkOutKeeps
<1>7. CASE UNCHANGED docsVars
  <2>1. registry' \in Plan
    BY <1>7 DEF docsVars, DocsInv, DocsTypeOK
  <2>2. QED
    BY <1>7, <2>1, DocsUntouched DEF docsVars
<1>8. QED
  BY <1>1, <1>2, <1>3, <1>4, <1>5, <1>6, <1>7 DEF DocsNext

\* The inductive invariant of docs sync holds.
THEOREM DocsInvariance == DocsSpec => []DocsInv
BY DocsInitHolds, DocsStepKeeps, PTL DEF DocsSpec

\* The documentation tree and the state of its commands keep their types.
THEOREM DocsTypeCorrect == DocsSpec => []DocsTypeOK
BY DocsInvariance, PTL DEF DocsInv

\* Whatever the indexes name has a document once no sync is writing, also after syncs
\* that wrote over each other, and after an undisturbed sync the documents say what the
\* indexes say (apply_docs_sync_from_registry).
THEOREM DocumentsAgree == DocsSpec => []DocsAgree
<1>1. DocsInv => DocsAgree
  <2> SUFFICES ASSUME DocsInv, NobodyWrites, docsState # "torn"
               PROVE  /\ \A h \in docs.hosts : docs.host[h] # {}
                      /\ \A s \in In(docs.services) : docs.service[SlugOf[s]] # NoDoc
                      /\ docsState = "sound" =>
                           /\ docs.hosts = HostsOf(docs.services)
                           /\ \A h \in docs.hosts : docs.host[h] = OnHost(docs.services, h)
                           /\ \A s \in In(docs.services) : LastOfSlug(docs, s, docs.services)
    BY DEF DocsAgree, NobodyWrites, LastOfSlug
  <2>1. \A file : ~ToBeWritten(file)
    BY DEF NobodyWrites, ToBeWritten
  <2>2. Promised
    BY DEF DocsInv
  <2>3. ASSUME docsState = "sound"
        PROVE  /\ docs.hosts = HostsOf(docs.services)
               /\ \A h \in docs.hosts : docs.host[h] = OnHost(docs.services, h)
               /\ \A s \in In(docs.services) : LastOfSlug(docs, s, docs.services)
    <3>1. Fits(docs, docs.services, {})
      BY <2>3 DEF DocsInv
    <3>2. QED
      BY <3>1 DEF Fits
  <2>4. QED
    BY <2>1, <2>2, <2>3 DEF Promised
<1>2. QED
  BY <1>1, DocsInvariance, PTL
-------------------------------------------------------------------------------
(* The operations side by side.  OpsSpec follows one component and lets the    *)
(* others rest, so each of them behaves as its own specification says, and     *)
(* what is proved of a component is true where TLC checks it.                  *)

opsVars == <<focus, apprVars, gwVars, sshVars, compVars, rbVars, docsVars, wtVars>>

\* A step of the one that is followed is no step of the others.
LEMMA StepOfOne ==
  ASSUME [OpsNext]_opsVars
  PROVE  /\ [ApprNext]_apprVars /\ [GwNext]_gwVars /\ [SshNext]_sshVars
         /\ [CompNext]_compVars /\ [RbNext]_rbVars
         /\ [DocsNext]_docsVars /\ [WtNext]_wtVars
BY DEF OpsNext, opsVars

\* Every behaviour of MCOperations is one of each component: the run checks the
\* components themselves and not a mixture of them.
THEOREM OperationsSideBySide ==
  OpsSpec => /\ ApprSpec /\ GwSpec /\ SshSpec /\ CompSpec /\ RbSpec
             /\ DocsSpec /\ WtSpec
<1>1. OpsInit => /\ ApprInit /\ GwInit /\ SshInit /\ CompInit /\ RbInit
                 /\ DocsInit /\ WtInit
  BY DEF OpsInit
<1>2. [OpsNext]_opsVars => /\ [ApprNext]_apprVars /\ [GwNext]_gwVars /\ [SshNext]_sshVars
                           /\ [CompNext]_compVars /\ [RbNext]_rbVars
                           /\ [DocsNext]_docsVars /\ [WtNext]_wtVars
  BY StepOfOne
<1>3. OpsSpec <=> OpsInit /\ [][OpsNext]_opsVars
  BY DEF OpsSpec, opsVars
<1> QED
  BY <1>1, <1>2, <1>3, PTL
     DEF ApprSpec, GwSpec, SshSpec, CompSpec, RbSpec, DocsSpec, WtSpec

\* No operation of the seven components ever stores a status, a verdict or a field that
\* the dataclass of its row does not know, whatever commands overlap, repeat and die.
THEOREM OperationsTypeCorrect == OpsSpec => []OperationsTypeOK
BY OperationsSideBySide, ApprTypeCorrect, GwTypeCorrect, SshTypeCorrect, CompTypeCorrect,
   RbTypeCorrect, DocsTypeCorrect, WtTypeCorrect, PTL
   DEF OperationsTypeOK
===============================================================================
