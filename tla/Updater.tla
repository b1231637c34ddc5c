------------------------------- MODULE Updater -------------------------------
(***************************************************************************)
(* The `update` command: updater.Update and DownloadAndReplace.  A run     *)
(* works on three files, the executable, its backup and a temporary file,  *)
(* and may be killed between any two of its calls.  Nothing keeps an       *)
(* operator from starting a second run while the first is under way.       *)
(***************************************************************************)
EXTENDS Integers

CONSTANTS
  Run,          \* runs of `update`, each may be started again
  MaxVersion    \* released versions are 1 .. MaxVersion

ASSUME UpdaterAssumption ==
  MaxVersion \in Nat \ {0}

\* The content of a file is the version of a complete binary, or one of these.
Absent == -1
Partial == -2                   \* its writing was not completed

SourceBuild == 0                \* a build whose version has no number
Release == 1 .. MaxVersion
Binary == {SourceBuild} \union Release

VARIABLES
  exe, bak, tmp,   \* contents of <exe>, <exe>.bak and <exe>.tmp
  latest,          \* the latest release on GitHub
  at,              \* where each run is
  current,         \* the version a run was started from
  target,          \* the latest release a run has found
  lastExe,         \* history: the last complete binary at <exe>
  overlapped       \* history: a run was started while another was under way

files == <<exe, bak, tmp>>
updateVars == <<files, latest, at, current, target, lastExe, overlapped>>

GoOn(u, label) == at' = [at EXCEPT ![u] = label]
Ends(u) == GoOn(u, "ended")

-----------------------------------------------------------------------------
(* Update.                                                                 *)

Begin(u) ==
  /\ at[u] = "ended"
  /\ exe \in Binary
  /\ current' = [current EXCEPT ![u] = exe]
  /\ overlapped' = (overlapped \/ \E v \in Run : at[v] # "ended")
  /\ GoOn(u, "compare")
  /\ UNCHANGED <<files, latest, target, lastExe>>

\* Mutant of Newer: any other release is installed.
Different(version, than) == version # than

\* CompareVersion, and the refusal of builds without a version number.
Newer(version, than) == than # SourceBuild /\ version > than

FindsNewer(u) ==
  /\ at[u] = "compare"
  /\ Newer(latest, current[u])
  /\ target' = [target EXCEPT ![u] = latest]
  /\ GoOn(u, "write")
  /\ UNCHANGED <<files, latest, current, lastExe, overlapped>>

\* Nothing newer, a source build, or a request, up to the download, has failed.
NothingToDo(u) ==
  /\ at[u] \in {"compare", "write"}
  /\ Ends(u)
  /\ UNCHANGED <<files, latest, current, target, lastExe, overlapped>>

-----------------------------------------------------------------------------
(* DownloadAndReplace, once the body has been read.                        *)

UpdateRest == UNCHANGED <<latest, current, target, overlapped>>

\* os.WriteFile truncates the file before it writes.
Truncate(u) ==
  /\ at[u] = "write"
  /\ tmp' = Partial
  /\ GoOn(u, "writing")
  /\ UNCHANGED <<exe, bak, lastExe>> /\ UpdateRest

Written(u) ==
  /\ at[u] = "writing"
  /\ tmp' = target[u]
  /\ GoOn(u, "unbackup")
  /\ UNCHANGED <<exe, bak, lastExe>> /\ UpdateRest

\* Mutant of WriteFails: the error is overlooked.
WriteFailsGoOn(u) ==
  /\ at[u] = "writing"
  /\ GoOn(u, "unbackup")
  /\ UNCHANGED <<files, lastExe>> /\ UpdateRest

\* The temporary file stays as it is.
WriteFails(u) ==
  /\ at[u] = "writing"
  /\ Ends(u)
  /\ UNCHANGED <<files, lastExe>> /\ UpdateRest

\* The old backup is removed, if there is one.
RemoveBackup(u) ==
  /\ at[u] = "unbackup"
  /\ bak' = Absent
  /\ GoOn(u, "backup")
  /\ UNCHANGED <<exe, tmp, lastExe>> /\ UpdateRest

BackupExe(u) ==
  /\ at[u] = "backup"
  /\ exe # Absent
  /\ bak' = exe /\ exe' = Absent
  /\ GoOn(u, "install")
  /\ UNCHANGED <<tmp, lastExe>> /\ UpdateRest

\* Either call fails: the temporary file is removed, best effort.
BackupFails(u) ==
  /\ at[u] \in {"unbackup", "backup"}
  /\ tmp' \in {tmp, Absent}
  /\ Ends(u)
  /\ UNCHANGED <<exe, bak, lastExe>> /\ UpdateRest

\* Mutant of Install: the backup is tidied away.
InstallAndTidy(u) ==
  /\ at[u] = "install"
  /\ tmp # Absent
  /\ exe' = tmp /\ tmp' = Absent /\ bak' = Absent
  /\ lastExe' = IF tmp \in Binary THEN tmp ELSE lastExe
  /\ Ends(u)
  /\ UpdateRest

Install(u) ==
  /\ at[u] = "install"
  /\ tmp # Absent
  /\ exe' = tmp /\ tmp' = Absent
  /\ lastExe' = IF tmp \in Binary THEN tmp ELSE lastExe
  /\ Ends(u)
  /\ UNCHANGED bak /\ UpdateRest

\* Best-effort restore: the second rename may fail as well.
InstallFails(u) ==
  /\ at[u] = "install"
  /\ \/ bak # Absent /\ exe' = bak /\ bak' = Absent
     \/ UNCHANGED <<exe, bak>>
  /\ Ends(u)
  /\ UNCHANGED <<tmp, lastExe>> /\ UpdateRest

UpdateStep(u) ==
  \/ FindsNewer(u) \/ NothingToDo(u)
  \/ Truncate(u) \/ Written(u) \/ WriteFails(u)
  \/ RemoveBackup(u) \/ BackupExe(u) \/ BackupFails(u)
  \/ Install(u) \/ InstallFails(u)

-----------------------------------------------------------------------------
(* The surroundings.                                                       *)

Idle == \A u \in Run : at[u] = "ended"

\* The process is killed, between any two of its file operations.
KillUpdate(u) ==
  /\ at[u] # "ended"
  /\ Ends(u)
  /\ UNCHANGED <<files, latest, current, target, lastExe, overlapped>>

Publish ==
  /\ latest < MaxVersion
  /\ latest' = latest + 1
  /\ UNCHANGED <<files, at, current, target, lastExe, overlapped>>

\* The operator moves the backup to its place: to repair, or to roll back.
MoveBackup ==
  /\ Idle
  /\ bak \in Binary
  /\ exe' = bak /\ bak' = Absent
  /\ lastExe' = bak
  /\ UNCHANGED <<tmp, latest, at, current, target, overlapped>>

UpdateInit ==
  /\ exe \in Binary /\ lastExe = exe
  /\ bak = Absent /\ tmp = Absent
  /\ latest = 1
  /\ at = [u \in Run |-> "ended"]
  /\ current = [u \in Run |-> SourceBuild]
  /\ target = [u \in Run |-> SourceBuild]
  /\ overlapped = FALSE

UpdateTypeOK ==
  /\ {exe, bak, tmp} \subseteq {Absent, Partial} \union Binary
  /\ latest \in Binary /\ lastExe \in Binary
  /\ at \in [Run -> {"ended", "compare", "write", "writing", "unbackup",
                     "backup", "install"}]
  /\ current \in [Run -> Binary] /\ target \in [Run -> Binary]
  /\ \A u \in Run : at[u] \notin {"ended", "compare"} => target[u] > current[u]
  /\ overlapped \in BOOLEAN

-----------------------------------------------------------------------------
(* Properties.                                                             *)

\* However a run ends, by success, by an error of any call or by being killed
\* between two calls: the executable is complete or absent, and when it is absent
\* the backup is the binary that was there, unless two runs have overlapped.
BinarySurvives ==
  ~overlapped => exe = lastExe \/ (exe = Absent /\ bak = lastExe)

\* A run that gets to the end replaces the executable by a strictly newer release
\* only, never a source build, and leaves the binary that was there before as the
\* backup the operator can go back to.
UpgradesOnly ==
  [][ ~overlapped' /\ tmp # Absent /\ tmp' = Absent /\ exe' = tmp =>
        lastExe # SourceBuild /\ exe' > lastExe /\ bak' = lastExe ]_<<exe, tmp>>
==============================================================================
