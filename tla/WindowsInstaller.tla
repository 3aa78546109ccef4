-------------------------- MODULE WindowsInstaller --------------------------
(***************************************************************************)
(* packaging/windows/LicenseLens.Installer.psm1: install, update, rollback *)
(* and uninstall of side-by-side versions, one action per change on disk,  *)
(* with a crash possible between any two of them.                          *)
(*                                                                         *)
(* A version's directory holds its exe once the staging directory has been *)
(* renamed into place; a recursive delete may stop with the exe gone and   *)
(* the directory left.  Write-LicenseLensAtomicFile is one step, File      *)
(* .WriteAllText is two.  The .license copy of the record is left out.     *)
(***************************************************************************)
EXTENDS Naturals, FiniteSets

CONSTANTS Version, None,
          AllowForce,    \* may -Force be given?
          Foreign,       \* may the user own a file in the root or a PATH entry?
          MaxOps,        \* bound on the operations started
          MaxCrashes     \* bound on the crashes

\* state.json
Record == [version : Version, versions : SUBSET Version, pathEntry : BOOLEAN]

ASSUME InstallerAssumption == /\ None \notin Version \cup Record
                              /\ AllowForce \in BOOLEAN /\ Foreign \in BOOLEAN
                              /\ MaxOps \in Nat /\ MaxCrashes \in Nat

VARIABLES disk,      \* what is on disk and in the user's environment: see Disk
          op, pc,    \* the operation running and its next step
          outcome,   \* how the last operation ended
          ops, crashes,
          wiped      \* history: versions whose exe was deleted and not put back

history == <<ops, crashes, wiped>>
vars == <<disk, op, pc, outcome, history>>

\* root: the install root; foreign: a file of the user's in it; dirs, exes:
\* versions/<v> and its exe; staging: .staging-*; current, previous: the markers;
\* launcher: licenselens.cmd; state: state.json; path: whose entry is on the PATH
Disk == [root : BOOLEAN, foreign : BOOLEAN, dirs : SUBSET Version, exes : SUBSET Version,
         staging : BOOLEAN, current : Version \cup {None}, previous : Version \cup {None},
         launcher : {"none", "torn", "whole"}, state : Record \cup {None},
         path : {"absent", "ours", "theirs"}]

Steps == {"idle", "check", "remove_exe", "remove_dir", "extract", "verify", "previous",
          "current", "truncate", "launcher", "path", "record", "clean",
          "switch_back", "record_back", "ask", "drop_path", "drop_exes", "drop_dirs",
          "drop_previous", "drop_shim", "drop_record", "drop_root"}

UserOwns(file, entry) ==
  [root |-> file, foreign |-> file, dirs |-> {}, exes |-> {}, staging |-> FALSE, current |-> None,
   previous |-> None, launcher |-> "none", state |-> None, path |-> entry]

NothingInstalled == UserOwns(FALSE, "absent")

Init == /\ disk \in IF Foreign THEN {UserOwns(f, e) : f \in BOOLEAN, e \in {"absent", "theirs"}}
                                ELSE {NothingInstalled}
        /\ op = None /\ pc = "idle" /\ outcome = "none"
        /\ ops = 0 /\ crashes = 0 /\ wiped = {}

-----------------------------------------------------------------------------
Step(at, d, next) == /\ pc = at /\ disk' = d /\ pc' = next
                     /\ UNCHANGED <<op, outcome>>
Last(at, d, result) == /\ pc = at /\ disk' = d /\ pc' = "idle" /\ outcome' = result
                       /\ UNCHANGED op

Start(o, step) == /\ pc = "idle" /\ ops < MaxOps
                  /\ op' = o /\ pc' = step
                  /\ ops' = ops + 1
                  /\ UNCHANGED <<disk, outcome, crashes, wiped>>

\* Install-LicenseLens and Update-LicenseLens, which is an install without
\* -Force; the archive has been fetched and its checksum has matched
StartInstall ==
  \E v \in Version, f, a \in BOOLEAN :
    /\ f => AllowForce
    /\ Start([kind |-> "install", version |-> v, force |-> f, addToPath |-> a], "check")

AlreadyCurrent == disk.state # None /\ disk.state.version = op.version

\* the root is created before anything is refused
Check ==
  LET made == [disk EXCEPT !.root = TRUE] IN
  /\ pc = "check"
  /\ \/ /\ ~op.force /\ (AlreadyCurrent \/ op.version \in disk.dirs)
        /\ Last("check", made, "refused")
     \/ /\ op.force /\ op.version \in disk.dirs
        /\ Step("check", made, "remove_exe")
     \/ /\ op.force \/ ~AlreadyCurrent
        /\ op.version \notin disk.dirs
        /\ Step("check", made, "extract")
  /\ UNCHANGED history

RemoveExe == /\ Step("remove_exe", [disk EXCEPT !.exes = @ \ {op.version}], "remove_dir")
             /\ wiped' = wiped \cup {op.version}
             /\ UNCHANGED <<ops, crashes>>
RemoveDir == /\ Step("remove_dir", [disk EXCEPT !.dirs = @ \ {op.version}], "extract")
             /\ UNCHANGED history

Extract == /\ Step("extract", [disk EXCEPT !.staging = TRUE], "verify")
           /\ UNCHANGED history

\* Mutant of VerifyAndMove: the exe is not looked for before the rename
MoveUnverified ==
  /\ Step("verify", [disk EXCEPT !.staging = FALSE, !.dirs = @ \cup {op.version}], "previous")
  /\ wiped' = wiped \ {op.version}
  /\ UNCHANGED <<ops, crashes>>

\* the exe is there and its promised signature is valid: the staging directory
\* is renamed into versions/; otherwise it is deleted
VerifyAndMove ==
  /\ \/ /\ Step("verify", [disk EXCEPT !.staging = FALSE, !.dirs = @ \cup {op.version},
                                       !.exes = @ \cup {op.version}], "previous")
        /\ wiped' = wiped \ {op.version}
     \/ /\ Last("verify", [disk EXCEPT !.staging = FALSE], "failed")
        /\ UNCHANGED wiped
  /\ UNCHANGED <<ops, crashes>>

SetPrevious ==
  /\ Step("previous",
          IF disk.current \in {None, op.version} THEN disk
          ELSE [disk EXCEPT !.previous = disk.current], "current")
  /\ UNCHANGED history

SetCurrent == /\ Step("current", [disk EXCEPT !.current = op.version], "truncate")
              /\ UNCHANGED history

TruncateLauncher == /\ Step("truncate", [disk EXCEPT !.launcher = "torn"], "launcher")
                    /\ UNCHANGED history
WriteLauncher == /\ Step("launcher", [disk EXCEPT !.launcher = "whole"], "path")
                 /\ UNCHANGED history

AddToPath ==
  /\ Step("path", IF op.addToPath /\ disk.path = "absent"
                  THEN [disk EXCEPT !.path = "ours"] ELSE disk, "record")
  /\ UNCHANGED history

\* Mutant of Recorded: the record keeps the version it was created with
RecordedOnce(s) ==
  IF s = None
  THEN [version |-> op.version, versions |-> {op.version}, pathEntry |-> op.addToPath]
  ELSE [s EXCEPT !.versions = @ \cup {op.version}, !.pathEntry = @ \/ op.addToPath]

\* Mutant of Recorded: path_entry is overwritten by an install without -AddToPath
RecordedLastConsent(s) ==
  IF s = None
  THEN [version |-> op.version, versions |-> {op.version}, pathEntry |-> op.addToPath]
  ELSE [s EXCEPT !.version = op.version, !.versions = @ \cup {op.version},
                 !.pathEntry = op.addToPath]

\* path_entry is recorded whether or not the entry was added
Recorded(s) ==
  IF s = None
  THEN [version |-> op.version, versions |-> {op.version}, pathEntry |-> op.addToPath]
  ELSE [s EXCEPT !.version = op.version, !.versions = @ \cup {op.version},
                 !.pathEntry = @ \/ op.addToPath]

WriteRecord == /\ Step("record", [disk EXCEPT !.state = Recorded(@)], "clean")
               /\ UNCHANGED history

ClearStaleTemp == /\ Last("clean", [disk EXCEPT !.staging = FALSE], "installed")
                  /\ UNCHANGED history

-----------------------------------------------------------------------------
StartRollback == Start([kind |-> "rollback"], "switch_back")

SwitchBack ==
  /\ \/ /\ disk.previous \notin disk.exes
        /\ Last("switch_back", disk, "refused")
     \/ /\ disk.previous \in disk.exes
        /\ Step("switch_back", [disk EXCEPT !.current = disk.previous], "record_back")
  /\ UNCHANGED history

RecordBack ==
  /\ Last("record_back", IF disk.state = None THEN disk
                         ELSE [disk EXCEPT !.state.version = disk.previous], "rolled_back")
  /\ UNCHANGED history

-----------------------------------------------------------------------------
StartUninstall == Start([kind |-> "uninstall"], "ask")

Ask ==
  \/ /\ ~disk.root
     /\ Last("ask", disk, "uninstalled")
     /\ UNCHANGED history
  \/ /\ disk.root /\ disk.state = None
     /\ Last("ask", disk, "refused")
     /\ UNCHANGED history
  \/ /\ disk.root /\ disk.state # None
     /\ Step("ask", disk, "drop_path")
     /\ UNCHANGED history

DropPath ==
  /\ Step("drop_path", IF disk.state.pathEntry THEN [disk EXCEPT !.path = "absent"] ELSE disk,
          "drop_exes")
  /\ UNCHANGED history

\* the owned paths, the longest first: versions, previous, then current
DropExes == /\ Step("drop_exes", [disk EXCEPT !.exes = {}], "drop_dirs")
            /\ wiped' = wiped \cup disk.exes
            /\ UNCHANGED <<ops, crashes>>

\* Mutant of DropDirs: only the recorded versions are deleted
DropRecordedDirs ==
  /\ Step("drop_dirs", [disk EXCEPT !.dirs = @ \ disk.state.versions], "drop_previous")
  /\ UNCHANGED history

DropDirs == /\ Step("drop_dirs", [disk EXCEPT !.dirs = {}], "drop_previous")
            /\ UNCHANGED history

DropPrevious == /\ Step("drop_previous", [disk EXCEPT !.previous = None], "drop_shim")
                /\ UNCHANGED history

DropShim ==
  /\ Step("drop_shim", [disk EXCEPT !.current = None, !.launcher = "none"], "drop_record")
  /\ wiped' = {}
  /\ UNCHANGED <<ops, crashes>>

\* the record goes last, so that an interrupted uninstall can be repeated
DropRecord == /\ Step("drop_record", [disk EXCEPT !.state = None], "drop_root")
              /\ UNCHANGED history

\* stale temporaries go, and the root if that leaves it empty
DropRoot ==
  LET cleared == [disk EXCEPT !.staging = FALSE] IN
  /\ Last("drop_root", [cleared EXCEPT !.root = cleared.foreign \/ cleared.dirs # {}],
          "uninstalled")
  /\ UNCHANGED history

-----------------------------------------------------------------------------
\* the process dies, or the machine does, between two steps
Crash == /\ pc # "idle" /\ crashes < MaxCrashes
         /\ pc' = "idle" /\ outcome' = "crashed"
         /\ crashes' = crashes + 1
         /\ UNCHANGED <<disk, op, ops, wiped>>

Install == \/ StartInstall \/ Check \/ RemoveExe \/ RemoveDir \/ Extract \/ VerifyAndMove
           \/ SetPrevious \/ SetCurrent \/ TruncateLauncher \/ WriteLauncher
           \/ AddToPath \/ WriteRecord \/ ClearStaleTemp
Rollback == StartRollback \/ SwitchBack \/ RecordBack
Uninstall == \/ StartUninstall \/ Ask \/ DropPath \/ DropExes \/ DropDirs
             \/ DropPrevious \/ DropShim \/ DropRecord \/ DropRoot

Next == Install \/ Rollback \/ Uninstall \/ Crash

Spec == Init /\ [][Next]_vars

-----------------------------------------------------------------------------
(* The current marker and the rollback target name versions whose exe is     *)
(* there, whatever crashed or failed, and so does every rollback, unless a   *)
(* forced reinstall or an uninstall has deleted that very version.           *)
MarkersAreRunnable ==
  {disk.current, disk.previous} \subseteq disk.exes \cup wiped \cup {None}

(* "an interrupted update leaves either the old or the new version": an      *)
(* install that crashed or failed leaves a current version that can run.     *)
OldOrNewVersionRuns ==
  outcome \in {"crashed", "failed"} /\ pc = "idle" /\ op.kind = "install" =>
    disk.current \in disk.exes \cup {None}

(* Without a crash, the marker and the record name the same version between  *)
(* operations, through every sequence of installs, failed verifications,     *)
(* rollbacks and uninstalls.                                                 *)
MarkerAndRecordAgree ==
  pc = "idle" /\ crashes = 0 =>
    /\ disk.state = None <=> disk.current = None
    /\ disk.state # None => /\ disk.state.version = disk.current
                            /\ disk.current \in disk.state.versions

(* An uninstall that reports success leaves nothing behind, also when an     *)
(* install, a rollback or an earlier uninstall was interrupted before it.    *)
UninstallLeavesNothing ==
  outcome = "uninstalled" /\ pc = "idle" =>
    [disk EXCEPT !.path = "absent"] = UserOwns(disk.foreign, "absent")

(* Unless a crash came between adding and recording it, the PATH entry an    *)
(* install added goes with the uninstall, whatever was installed after it.   *)
AddedEntryGoes ==
  outcome = "uninstalled" /\ pc = "idle" /\ crashes = 0 => disk.path # "ours"
=============================================================================
