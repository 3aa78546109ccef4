----------------------- MODULE WindowsInstaller_proof -----------------------
(***************************************************************************)
(* The promises of the installer, for any number of versions, operations   *)
(* and crashes.                                                            *)
(***************************************************************************)
EXTENDS WindowsInstaller, TLAPS

InstallOp == [kind : {"install"}, version : Version, force : BOOLEAN, addToPath : BOOLEAN]
InstallSteps == {"check", "remove_exe", "remove_dir", "extract", "verify", "previous", "current",
                 "truncate", "launcher", "path", "record", "clean"}

\* The shape of the state: an install step has an install to do, a rollback a version
\* to go to.
Shape == /\ disk \in Disk
         /\ pc \in Steps
         /\ crashes \in Nat
         /\ pc \in InstallSteps => op \in InstallOp
         /\ pc = "record_back" => disk.previous \in Version

\* What the markers name can run; the version about to be made current does.
Runnable == /\ MarkersAreRunnable
            /\ pc \in {"previous", "current"} => op.version \in disk.exes
            /\ pc = "drop_shim" => disk.previous = None

\* Nothing of the installer's is on the disk.
Bare(d) == /\ d.dirs = {} /\ d.exes = {} /\ ~d.staging
           /\ d.current = None /\ d.previous = None
           /\ d.launcher = "none" /\ d.state = None

\* An uninstall has deleted what lies behind its next step; without a root there
\* is nothing, and only steps that begin an operation run without one.
Cleared == /\ disk.foreign => disk.root
           /\ ~disk.root => Bare(disk)
           /\ pc \notin {"idle", "check", "switch_back", "ask"} => disk.root
           /\ pc \in {"drop_dirs", "drop_previous", "drop_shim", "drop_record", "drop_root"} =>
                disk.exes = {}
           /\ pc \in {"drop_previous", "drop_shim", "drop_record", "drop_root"} => disk.dirs = {}
           /\ pc \in {"drop_shim", "drop_record", "drop_root"} => disk.previous = None
           /\ pc \in {"drop_record", "drop_root"} => disk.current = None /\ disk.launcher = "none"
           /\ pc = "drop_root" => disk.state = None
           /\ outcome = "uninstalled" /\ pc = "idle" =>
                Bare(disk) /\ disk.root = disk.foreign

\* Marker and record name the same version.
Agree(d) == /\ d.state = None <=> d.current = None
            /\ d.state # None => d.state.version = d.current /\ d.current \in d.state.versions

\* Until a crash they agree but between the two writes that change them; a rollback
\* goes to a version on record.
Agreement ==
  crashes = 0 =>
    /\ pc \notin {"truncate", "launcher", "path", "record", "record_back", "drop_record"} =>
         Agree(disk)
    /\ pc \in {"truncate", "launcher", "path", "record"} => disk.current = op.version
    /\ pc = "record_back" => disk.current = disk.previous /\ disk.previous # None
    /\ disk.previous # None => disk.state # None /\ disk.previous \in disk.state.versions

\* Until a crash the entry that was added is on record, or about to be.
EntryRecorded ==
  crashes = 0 =>
    /\ disk.path = "ours" => \/ disk.state # None /\ disk.state.pathEntry
                             \/ pc = "record" /\ op.addToPath
    /\ pc \in {"drop_exes", "drop_dirs", "drop_previous", "drop_shim", "drop_record",
               "drop_root"} => disk.path # "ours"
    /\ outcome = "uninstalled" /\ pc = "idle" => disk.path # "ours"

InstallerInv == Shape /\ Runnable /\ Cleared /\ Agreement /\ EntryRecorded

-----------------------------------------------------------------------------
(* The initial states.                                                      *)

LEMMA SameDisk ==
  ASSUME NEW d \in Disk, NEW e \in Disk,
         d.root = e.root, d.foreign = e.foreign, d.dirs = e.dirs, d.exes = e.exes,
         d.staging = e.staging, d.current = e.current, d.previous = e.previous,
         d.launcher = e.launcher, d.state = e.state, d.path = e.path
  PROVE  d = e
BY SMTT(30) DEF Disk

LEMMA Starts == Init => InstallerInv
<1> SUFFICES ASSUME Init PROVE InstallerInv
  OBVIOUS
<1>1. PICK f \in BOOLEAN, e \in {"absent", "theirs"} : disk = UserOwns(f, e)
  <2>1. CASE Foreign
    BY <2>1 DEF Init
  <2>2. CASE ~Foreign
    <3>1. disk = UserOwns(FALSE, "absent")
      BY <2>2 DEF Init, NothingInstalled
    <3> QED
      BY <3>1
  <2> QED
    BY <2>1, <2>2
<1>2. /\ disk = [root |-> f, foreign |-> f, dirs |-> {}, exes |-> {}, staging |-> FALSE,
                 current |-> None, previous |-> None, launcher |-> "none", state |-> None,
                 path |-> e]
      /\ pc = "idle" /\ outcome = "none" /\ crashes = 0
  BY <1>1 DEF Init, UserOwns
<1>3. Shape
  BY <1>2 DEF Shape, Disk, Steps, InstallSteps
<1>4. Runnable
  BY <1>2 DEF Runnable, MarkersAreRunnable
<1>5. Cleared
  BY <1>2 DEF Cleared, Bare
<1>6. Agreement /\ EntryRecorded
  BY <1>2 DEF Agreement, Agree, EntryRecorded
<1> QED
  BY <1>3, <1>4, <1>5, <1>6 DEF InstallerInv

-----------------------------------------------------------------------------
(* The steps with the most to say.                                          *)

LEMMA RecordedFacts ==
  ASSUME op \in InstallOp, NEW s \in Record \cup {None}
  PROVE  /\ Recorded(s) \in Record /\ Recorded(s) # None
         /\ Recorded(s).version = op.version /\ op.version \in Recorded(s).versions
         /\ op.addToPath => Recorded(s).pathEntry
         /\ s # None => /\ s.versions \subseteq Recorded(s).versions
                        /\ s.pathEntry => Recorded(s).pathEntry
<1>1. /\ op.version \in Version /\ op.addToPath \in BOOLEAN
      /\ None \notin Record
  BY InstallerAssumption DEF InstallOp
<1>2. CASE s = None
  BY <1>1, <1>2 DEF Recorded, Record
<1>3. CASE s # None
  BY <1>1, <1>3 DEF Recorded, Record
<1> QED
  BY <1>2, <1>3

LEMMA VerifyFacts ==
  ASSUME Shape, VerifyAndMove
  PROVE  /\ pc = "verify" /\ op \in InstallOp /\ disk' \in Disk
         /\ \/ /\ pc' = "previous"
               /\ disk'.exes = disk.exes \cup {op.version}
               /\ wiped' = wiped \ {op.version}
            \/ /\ pc' = "idle"
               /\ disk'.exes = disk.exes /\ wiped' = wiped
         /\ disk'.current = disk.current /\ disk'.previous = disk.previous
         /\ UNCHANGED <<op, crashes>>
<1>1. pc = "verify" /\ op \in InstallOp /\ disk \in Disk /\ op.version \in Version
  BY DEF VerifyAndMove, Step, Last, Shape, InstallSteps, InstallOp
<1>2. CASE /\ Step("verify", [disk EXCEPT !.staging = FALSE, !.dirs = @ \cup {op.version},
                                        !.exes = @ \cup {op.version}], "previous")
           /\ wiped' = wiped \ {op.version}
           /\ UNCHANGED <<ops, crashes>>
  <2>1. /\ disk' = [disk EXCEPT !.staging = FALSE, !.dirs = @ \cup {op.version},
                                !.exes = @ \cup {op.version}]
        /\ pc' = "previous" /\ UNCHANGED op
    BY <1>2 DEF Step
  <2>2. disk' \in Disk
    BY <1>1, <2>1 DEF Disk
  <2> QED
    BY <1>1, <1>2, <2>1, <2>2 DEF Disk
<1>3. CASE /\ Last("verify", [disk EXCEPT !.staging = FALSE], "failed")
           /\ UNCHANGED <<ops, crashes, wiped>>
  BY <1>1, <1>3 DEF Last, Disk
<1> QED
  BY <1>2, <1>3 DEF VerifyAndMove

LEMMA WriteRecordFacts ==
  ASSUME Shape, WriteRecord
  PROVE  /\ pc = "record" /\ pc' = "clean" /\ op \in InstallOp
         /\ disk' \in Disk /\ disk' = [disk EXCEPT !.state = Recorded(disk.state)]
         /\ disk'.state = Recorded(disk.state) /\ disk.state \in Record \cup {None}
         /\ UNCHANGED <<op, outcome, history>>
<1>1. pc = "record" /\ op \in InstallOp /\ disk.state \in Record \cup {None}
  BY DEF Shape, WriteRecord, Step, InstallSteps, Disk
<1>2. disk' = [disk EXCEPT !.state = Recorded(disk.state)]
  BY DEF WriteRecord, Step
<1>3. Recorded(disk.state) \in Record
  BY <1>1, RecordedFacts
<1> QED
  BY <1>1, <1>2, <1>3 DEF Shape, WriteRecord, Step, Disk

LEMMA RecordBackFacts ==
  ASSUME Shape, RecordBack
  PROVE  /\ pc = "record_back" /\ pc' = "idle" /\ outcome' = "rolled_back"
         /\ disk' \in Disk
         /\ disk.state = None => disk' = disk
         /\ disk.state # None =>
              /\ disk' = [disk EXCEPT !.state = disk'.state]
              /\ disk'.state \in Record /\ disk'.state # None
              /\ disk'.state.version = disk.previous
              /\ disk'.state.versions = disk.state.versions
              /\ disk'.state.pathEntry = disk.state.pathEntry
         /\ UNCHANGED <<op, history>>
<1>1. /\ pc = "record_back" /\ pc' = "idle" /\ outcome' = "rolled_back"
      /\ UNCHANGED <<op, history>>
      /\ disk' = IF disk.state = None THEN disk
                 ELSE [disk EXCEPT !.state.version = disk.previous]
  BY DEF RecordBack, Last
<1>2. /\ disk \in Disk /\ disk.previous \in Version
      /\ None \notin Record
  BY <1>1, InstallerAssumption DEF Shape
<1>3. CASE disk.state = None
  BY <1>1, <1>2, <1>3
<1>4. CASE disk.state # None
  <2> DEFINE r == [disk.state EXCEPT !.version = disk.previous]
  <2>1. disk.state \in Record
    BY <1>2, <1>4 DEF Disk
  <2>2. /\ r \in Record /\ r.version = disk.previous
        /\ r.versions = disk.state.versions /\ r.pathEntry = disk.state.pathEntry
    BY <1>2, <2>1 DEF Record
  <2>3. disk' = [disk EXCEPT !.state = r]
    BY <1>1, <1>4
  <2>4. disk' \in Disk /\ disk'.state = r
    BY <1>2, <2>2, <2>3 DEF Disk
  <2> HIDE DEF r
  <2> QED
    BY <1>1, <1>2, <1>4, <2>2, <2>3, <2>4
<1> QED
  BY <1>3, <1>4

-----------------------------------------------------------------------------
(* The shape of the state.                                                  *)

LEMMA ShapeKept ==
  ASSUME Shape, [Next]_vars
  PROVE  Shape'
<1>1. CASE UNCHANGED vars
  BY <1>1 DEF vars, history, Shape, Disk, Record, Steps, InstallSteps, InstallOp
<1>2. CASE StartInstall
  BY <1>2 DEF StartInstall, Start, Shape, Disk, Record, Steps, InstallSteps, InstallOp
<1>3. CASE Check
  BY <1>3
     DEF Check, Step, Last, AlreadyCurrent, history, Shape, Disk, Record, Steps,
         InstallSteps, InstallOp
<1>4. CASE RemoveExe
  BY <1>4 DEF RemoveExe, Step, history, Shape, Disk, Record, Steps, InstallSteps, InstallOp
<1>5. CASE RemoveDir
  BY <1>5 DEF RemoveDir, Step, history, Shape, Disk, Record, Steps, InstallSteps, InstallOp
<1>6. CASE Extract
  BY <1>6 DEF Extract, Step, history, Shape, Disk, Record, Steps, InstallSteps, InstallOp
<1>7. CASE VerifyAndMove
  BY <1>7, VerifyFacts DEF Shape, Steps, InstallSteps
<1>8. CASE SetPrevious
  BY <1>8 DEF SetPrevious, Step, history, Shape, Disk, Record, Steps, InstallSteps, InstallOp
<1>9. CASE SetCurrent
  BY <1>9 DEF SetCurrent, Step, history, Shape, Disk, Record, Steps, InstallSteps, InstallOp
<1>10. CASE TruncateLauncher
  BY <1>10
     DEF TruncateLauncher, Step, history, Shape, Disk, Record, Steps, InstallSteps,
         InstallOp
<1>11. CASE WriteLauncher
  BY <1>11 DEF WriteLauncher, Step, history, Shape, Disk, Record, Steps, InstallSteps, InstallOp
<1>12. CASE AddToPath
  BY <1>12 DEF AddToPath, Step, history, Shape, Disk, Record, Steps, InstallSteps, InstallOp
<1>13. CASE WriteRecord
  BY <1>13, WriteRecordFacts DEF Shape, Steps, history
<1>14. CASE ClearStaleTemp
  BY <1>14 DEF ClearStaleTemp, Last, history, Shape, Disk, Record, Steps, InstallSteps, InstallOp
<1>15. CASE StartRollback
  BY <1>15 DEF StartRollback, Start, Shape, Disk, Record, Steps, InstallSteps, InstallOp
<1>16. CASE SwitchBack
  BY <1>16
     DEF SwitchBack, Step, Last, history, Shape, Disk, Record, Steps, InstallSteps,
         InstallOp
<1>17. CASE RecordBack
  BY <1>17, RecordBackFacts DEF Shape, Steps, InstallSteps, history
<1>18. CASE StartUninstall
  BY <1>18 DEF StartUninstall, Start, Shape, Disk, Record, Steps, InstallSteps, InstallOp
<1>19. CASE Ask
  BY <1>19 DEF Ask, Step, Last, history, Shape, Disk, Record, Steps, InstallSteps, InstallOp
<1>20. CASE DropPath
  BY <1>20 DEF DropPath, Step, history, Shape, Disk, Record, Steps, InstallSteps, InstallOp
<1>21. CASE DropExes
  BY <1>21 DEF DropExes, Step, history, Shape, Disk, Record, Steps, InstallSteps, InstallOp
<1>22. CASE DropDirs
  BY <1>22 DEF DropDirs, Step, history, Shape, Disk, Record, Steps, InstallSteps, InstallOp
<1>23. CASE DropPrevious
  BY <1>23 DEF DropPrevious, Step, history, Shape, Disk, Record, Steps, InstallSteps, InstallOp
<1>24. CASE DropShim
  BY <1>24 DEF DropShim, Step, history, Shape, Disk, Record, Steps, InstallSteps, InstallOp
<1>25. CASE DropRecord
  BY <1>25 DEF DropRecord, Step, history, Shape, Disk, Record, Steps, InstallSteps, InstallOp
<1>26. CASE DropRoot
  BY <1>26 DEF DropRoot, Last, history, Shape, Disk, Record, Steps, InstallSteps, InstallOp
<1>27. CASE Crash
  BY <1>27 DEF Crash, Shape, Disk, Record, Steps, InstallSteps, InstallOp
<1> QED
  BY <1>1, <1>2, <1>3, <1>4, <1>5, <1>6, <1>7, <1>8, <1>9, <1>10, <1>11, <1>12, <1>13, <1>14,
     <1>15, <1>16, <1>17, <1>18, <1>19, <1>20, <1>21, <1>22, <1>23, <1>24, <1>25, <1>26,
     <1>27
     DEF Next, Install, Rollback, Uninstall

-----------------------------------------------------------------------------
(* The markers.                                                             *)

LEMMA RunnableKept ==
  ASSUME Shape, Runnable, [Next]_vars
  PROVE  Runnable'
<1>1. CASE UNCHANGED vars
  BY <1>1 DEF vars, history, Shape, Disk, InstallSteps, InstallOp, Runnable, MarkersAreRunnable
<1>2. CASE StartInstall
  BY <1>2
     DEF StartInstall, Start, Shape, Disk, InstallSteps, InstallOp, Runnable,
         MarkersAreRunnable
<1>3. CASE Check
  BY <1>3
     DEF Check, Step, Last, AlreadyCurrent, history, Shape, Disk, InstallSteps, InstallOp,
         Runnable, MarkersAreRunnable
<1>4. CASE RemoveExe
  BY <1>4
     DEF RemoveExe, Step, history, Shape, Disk, InstallSteps, InstallOp, Runnable,
         MarkersAreRunnable
<1>5. CASE RemoveDir
  BY <1>5
     DEF RemoveDir, Step, history, Shape, Disk, InstallSteps, InstallOp, Runnable,
         MarkersAreRunnable
<1>6. CASE Extract
  BY <1>6
     DEF Extract, Step, history, Shape, Disk, InstallSteps, InstallOp, Runnable,
         MarkersAreRunnable
<1>7. CASE VerifyAndMove
  BY <1>7, VerifyFacts DEF Shape, Disk, Runnable, MarkersAreRunnable
<1>8. CASE SetPrevious
  BY <1>8
     DEF SetPrevious, Step, history, Shape, Disk, InstallSteps, InstallOp, Runnable,
         MarkersAreRunnable
<1>9. CASE SetCurrent
  BY <1>9
     DEF SetCurrent, Step, history, Shape, Disk, InstallSteps, InstallOp, Runnable,
         MarkersAreRunnable
<1>10. CASE TruncateLauncher
  BY <1>10
     DEF TruncateLauncher, Step, history, Shape, Disk, InstallSteps, InstallOp, Runnable,
         MarkersAreRunnable
<1>11. CASE WriteLauncher
  BY <1>11
     DEF WriteLauncher, Step, history, Shape, Disk, InstallSteps, InstallOp, Runnable,
         MarkersAreRunnable
<1>12. CASE AddToPath
  BY <1>12
     DEF AddToPath, Step, history, Shape, Disk, InstallSteps, InstallOp, Runnable,
         MarkersAreRunnable
<1>13. CASE WriteRecord
  BY <1>13
     DEF WriteRecord, Step, Recorded, history, Shape, Disk, InstallSteps, InstallOp,
         Runnable, MarkersAreRunnable
<1>14. CASE ClearStaleTemp
  BY <1>14
     DEF ClearStaleTemp, Last, history, Shape, Disk, InstallSteps, InstallOp, Runnable,
         MarkersAreRunnable
<1>15. CASE StartRollback
  BY <1>15
     DEF StartRollback, Start, Shape, Disk, InstallSteps, InstallOp, Runnable,
         MarkersAreRunnable
<1>16. CASE SwitchBack
  BY <1>16
     DEF SwitchBack, Step, Last, history, Shape, Disk, InstallSteps, InstallOp, Runnable,
         MarkersAreRunnable
<1>17. CASE RecordBack
  BY <1>17
     DEF RecordBack, Last, history, Shape, Disk, InstallSteps, InstallOp, Runnable,
         MarkersAreRunnable
<1>18. CASE StartUninstall
  BY <1>18
     DEF StartUninstall, Start, Shape, Disk, InstallSteps, InstallOp, Runnable,
         MarkersAreRunnable
<1>19. CASE Ask
  BY <1>19
     DEF Ask, Step, Last, history, Shape, Disk, InstallSteps, InstallOp, Runnable,
         MarkersAreRunnable
<1>20. CASE DropPath
  BY <1>20
     DEF DropPath, Step, history, Shape, Disk, InstallSteps, InstallOp, Runnable,
         MarkersAreRunnable
<1>21. CASE DropExes
  BY <1>21
     DEF DropExes, Step, history, Shape, Disk, InstallSteps, InstallOp, Runnable,
         MarkersAreRunnable
<1>22. CASE DropDirs
  BY <1>22
     DEF DropDirs, Step, history, Shape, Disk, InstallSteps, InstallOp, Runnable,
         MarkersAreRunnable
<1>23. CASE DropPrevious
  BY <1>23
     DEF DropPrevious, Step, history, Shape, Disk, InstallSteps, InstallOp, Runnable,
         MarkersAreRunnable
<1>24. CASE DropShim
  BY <1>24
     DEF DropShim, Step, history, Shape, Disk, InstallSteps, InstallOp, Runnable,
         MarkersAreRunnable
<1>25. CASE DropRecord
  BY <1>25
     DEF DropRecord, Step, history, Shape, Disk, InstallSteps, InstallOp, Runnable,
         MarkersAreRunnable
<1>26. CASE DropRoot
  BY <1>26
     DEF DropRoot, Last, history, Shape, Disk, InstallSteps, InstallOp, Runnable,
         MarkersAreRunnable
<1>27. CASE Crash
  BY <1>27 DEF Crash, Shape, Disk, InstallSteps, InstallOp, Runnable, MarkersAreRunnable
<1> QED
  BY <1>1, <1>2, <1>3, <1>4, <1>5, <1>6, <1>7, <1>8, <1>9, <1>10, <1>11, <1>12, <1>13, <1>14,
     <1>15, <1>16, <1>17, <1>18, <1>19, <1>20, <1>21, <1>22, <1>23, <1>24, <1>25, <1>26,
     <1>27
     DEF Next, Install, Rollback, Uninstall

-----------------------------------------------------------------------------
(* What an uninstall leaves.                                                *)

LEMMA ClearedKept ==
  ASSUME Shape, Cleared, [Next]_vars
  PROVE  Cleared'
<1>1. CASE UNCHANGED vars
  BY <1>1 DEF vars, history, Shape, Disk, Cleared, Bare
<1>2. CASE StartInstall
  BY <1>2 DEF StartInstall, Start, Shape, Disk, Cleared, Bare
<1>3. CASE Check
  BY <1>3 DEF Check, Step, Last, AlreadyCurrent, history, Shape, Disk, Cleared, Bare
<1>4. CASE RemoveExe
  BY <1>4 DEF RemoveExe, Step, history, Shape, Disk, Cleared, Bare
<1>5. CASE RemoveDir
  BY <1>5 DEF RemoveDir, Step, history, Shape, Disk, Cleared, Bare
<1>6. CASE Extract
  BY <1>6 DEF Extract, Step, history, Shape, Disk, Cleared, Bare
<1>7. CASE VerifyAndMove
  BY <1>7 DEF VerifyAndMove, Step, Last, history, Shape, Disk, Cleared, Bare
<1>8. CASE SetPrevious
  BY <1>8 DEF SetPrevious, Step, history, Shape, Disk, Cleared, Bare
<1>9. CASE SetCurrent
  BY <1>9 DEF SetCurrent, Step, history, Shape, Disk, Cleared, Bare
<1>10. CASE TruncateLauncher
  BY <1>10 DEF TruncateLauncher, Step, history, Shape, Disk, Cleared, Bare
<1>11. CASE WriteLauncher
  BY <1>11 DEF WriteLauncher, Step, history, Shape, Disk, Cleared, Bare
<1>12. CASE AddToPath
  BY <1>12 DEF AddToPath, Step, history, Shape, Disk, Cleared, Bare
<1>13. CASE WriteRecord
  BY <1>13 DEF WriteRecord, Step, Recorded, history, Shape, Disk, Cleared, Bare
<1>14. CASE ClearStaleTemp
  BY <1>14 DEF ClearStaleTemp, Last, history, Shape, Disk, Cleared, Bare
<1>15. CASE StartRollback
  BY <1>15 DEF StartRollback, Start, Shape, Disk, Cleared, Bare
<1>16. CASE SwitchBack
  BY <1>16 DEF SwitchBack, Step, Last, history, Shape, Disk, Cleared, Bare
<1>17. CASE RecordBack
  BY <1>17 DEF RecordBack, Last, history, Shape, Disk, Cleared, Bare
<1>18. CASE StartUninstall
  BY <1>18 DEF StartUninstall, Start, Shape, Disk, Cleared, Bare
<1>19. CASE Ask
  BY <1>19 DEF Ask, Step, Last, history, Shape, Disk, Cleared, Bare
<1>20. CASE DropPath
  BY <1>20 DEF DropPath, Step, history, Shape, Disk, Cleared, Bare
<1>21. CASE DropExes
  BY <1>21 DEF DropExes, Step, history, Shape, Disk, Cleared, Bare
<1>22. CASE DropDirs
  BY <1>22 DEF DropDirs, Step, history, Shape, Disk, Cleared, Bare
<1>23. CASE DropPrevious
  BY <1>23 DEF DropPrevious, Step, history, Shape, Disk, Cleared, Bare
<1>24. CASE DropShim
  BY <1>24 DEF DropShim, Step, history, Shape, Disk, Cleared, Bare
<1>25. CASE DropRecord
  BY <1>25 DEF DropRecord, Step, history, Shape, Disk, Cleared, Bare
<1>26. CASE DropRoot
  BY <1>26 DEF DropRoot, Last, history, Shape, Disk, Cleared, Bare
<1>27. CASE Crash
  BY <1>27 DEF Crash, Shape, Disk, Cleared, Bare
<1> QED
  BY <1>1, <1>2, <1>3, <1>4, <1>5, <1>6, <1>7, <1>8, <1>9, <1>10, <1>11, <1>12, <1>13, <1>14,
     <1>15, <1>16, <1>17, <1>18, <1>19, <1>20, <1>21, <1>22, <1>23, <1>24, <1>25, <1>26,
     <1>27
     DEF Next, Install, Rollback, Uninstall

-----------------------------------------------------------------------------
(* Marker and record.                                                       *)

LEMMA AgreementKept ==
  ASSUME Shape, Cleared, Agreement, [Next]_vars
  PROVE  Agreement'
<1>1. CASE UNCHANGED vars
  BY <1>1 DEF vars, history, Shape, Disk, Record, InstallSteps, InstallOp, Cleared, Agreement, Agree
<1>2. CASE StartInstall
  BY <1>2, InstallerAssumption
     DEF StartInstall, Start, Shape, Disk, Record, InstallSteps, InstallOp, Cleared,
         Agreement, Agree
<1>3. CASE Check
  BY <1>3, InstallerAssumption
     DEF Check, Step, Last, AlreadyCurrent, history, Shape, Disk, Record, InstallSteps,
         InstallOp, Cleared, Agreement, Agree
<1>4. CASE RemoveExe
  BY <1>4, InstallerAssumption
     DEF RemoveExe, Step, history, Shape, Disk, Record, InstallSteps, InstallOp, Cleared,
         Agreement, Agree
<1>5. CASE RemoveDir
  BY <1>5, InstallerAssumption
     DEF RemoveDir, Step, history, Shape, Disk, Record, InstallSteps, InstallOp, Cleared,
         Agreement, Agree
<1>6. CASE Extract
  BY <1>6, InstallerAssumption
     DEF Extract, Step, history, Shape, Disk, Record, InstallSteps, InstallOp, Cleared,
         Agreement, Agree
<1>7. CASE VerifyAndMove
  BY <1>7, InstallerAssumption
     DEF VerifyAndMove, Step, Last, history, Shape, Disk, Record, InstallSteps, InstallOp,
         Cleared, Agreement, Agree
<1>8. CASE SetPrevious
  BY <1>8, InstallerAssumption
     DEF SetPrevious, Step, history, Shape, Disk, Record, InstallSteps, InstallOp, Cleared,
         Agreement, Agree
<1>9. CASE SetCurrent
  BY <1>9, InstallerAssumption
     DEF SetCurrent, Step, history, Shape, Disk, Record, InstallSteps, InstallOp, Cleared,
         Agreement, Agree
<1>10. CASE TruncateLauncher
  BY <1>10, InstallerAssumption
     DEF TruncateLauncher, Step, history, Shape, Disk, Record, InstallSteps, InstallOp,
         Cleared, Agreement, Agree
<1>11. CASE WriteLauncher
  BY <1>11, InstallerAssumption
     DEF WriteLauncher, Step, history, Shape, Disk, Record, InstallSteps, InstallOp, Cleared,
         Agreement, Agree
<1>12. CASE AddToPath
  BY <1>12, InstallerAssumption
     DEF AddToPath, Step, history, Shape, Disk, Record, InstallSteps, InstallOp, Cleared,
         Agreement, Agree
<1>13. CASE WriteRecord
  <2>1. /\ disk'.current = disk.current /\ disk'.previous = disk.previous
        /\ disk.current = None => crashes # 0
    BY <1>13, WriteRecordFacts, InstallerAssumption DEF Shape, Disk, InstallOp, Agreement
  <2> QED
    BY <1>13, <2>1, WriteRecordFacts, RecordedFacts DEF history, Agreement, Agree
<1>14. CASE ClearStaleTemp
  BY <1>14, InstallerAssumption
     DEF ClearStaleTemp, Last, history, Shape, Disk, Record, InstallSteps, InstallOp,
         Cleared, Agreement, Agree
<1>15. CASE StartRollback
  BY <1>15, InstallerAssumption
     DEF StartRollback, Start, Shape, Disk, Record, InstallSteps, InstallOp, Cleared,
         Agreement, Agree
<1>16. CASE SwitchBack
  BY <1>16, InstallerAssumption
     DEF SwitchBack, Step, Last, history, Shape, Disk, Record, InstallSteps, InstallOp,
         Cleared, Agreement, Agree
<1>17. CASE RecordBack
  <2>1. disk'.current = disk.current /\ disk'.previous = disk.previous
    BY <1>17, RecordBackFacts DEF Shape, Disk
  <2> QED
    BY <1>17, <2>1, RecordBackFacts DEF history, Agreement, Agree
<1>18. CASE StartUninstall
  BY <1>18, InstallerAssumption
     DEF StartUninstall, Start, Shape, Disk, Record, InstallSteps, InstallOp, Cleared,
         Agreement, Agree
<1>19. CASE Ask
  BY <1>19, InstallerAssumption
     DEF Ask, Step, Last, history, Shape, Disk, Record, InstallSteps, InstallOp, Cleared,
         Agreement, Agree
<1>20. CASE DropPath
  BY <1>20, InstallerAssumption
     DEF DropPath, Step, history, Shape, Disk, Record, InstallSteps, InstallOp, Cleared,
         Agreement, Agree
<1>21. CASE DropExes
  BY <1>21, InstallerAssumption
     DEF DropExes, Step, history, Shape, Disk, Record, InstallSteps, InstallOp, Cleared,
         Agreement, Agree
<1>22. CASE DropDirs
  BY <1>22, InstallerAssumption
     DEF DropDirs, Step, history, Shape, Disk, Record, InstallSteps, InstallOp, Cleared,
         Agreement, Agree
<1>23. CASE DropPrevious
  BY <1>23, InstallerAssumption
     DEF DropPrevious, Step, history, Shape, Disk, Record, InstallSteps, InstallOp, Cleared,
         Agreement, Agree
<1>24. CASE DropShim
  BY <1>24, InstallerAssumption
     DEF DropShim, Step, history, Shape, Disk, Record, InstallSteps, InstallOp, Cleared,
         Agreement, Agree
<1>25. CASE DropRecord
  BY <1>25, InstallerAssumption
     DEF DropRecord, Step, history, Shape, Disk, Record, InstallSteps, InstallOp, Cleared,
         Agreement, Agree
<1>26. CASE DropRoot
  BY <1>26, InstallerAssumption
     DEF DropRoot, Last, history, Shape, Disk, Record, InstallSteps, InstallOp, Cleared,
         Agreement, Agree
<1>27. CASE Crash
  BY <1>27, InstallerAssumption
     DEF Crash, Shape, Disk, Record, InstallSteps, InstallOp, Cleared, Agreement, Agree
<1> QED
  BY <1>1, <1>2, <1>3, <1>4, <1>5, <1>6, <1>7, <1>8, <1>9, <1>10, <1>11, <1>12, <1>13, <1>14,
     <1>15, <1>16, <1>17, <1>18, <1>19, <1>20, <1>21, <1>22, <1>23, <1>24, <1>25, <1>26,
     <1>27
     DEF Next, Install, Rollback, Uninstall

-----------------------------------------------------------------------------
(* The PATH entry.                                                          *)

LEMMA EntryRecordedKept ==
  ASSUME Shape, Cleared, EntryRecorded, [Next]_vars
  PROVE  EntryRecorded'
<1>1. CASE UNCHANGED vars
  BY <1>1 DEF vars, history, Shape, Disk, Record, InstallSteps, InstallOp, Cleared, Bare, EntryRecorded
<1>2. CASE StartInstall
  BY <1>2
     DEF StartInstall, Start, Shape, Disk, Record, InstallSteps, InstallOp, Cleared, Bare,
         EntryRecorded
<1>3. CASE Check
  BY <1>3
     DEF Check, Step, Last, AlreadyCurrent, history, Shape, Disk, Record, InstallSteps,
         InstallOp, Cleared, Bare, EntryRecorded
<1>4. CASE RemoveExe
  BY <1>4
     DEF RemoveExe, Step, history, Shape, Disk, Record, InstallSteps, InstallOp, Cleared,
         Bare, EntryRecorded
<1>5. CASE RemoveDir
  BY <1>5
     DEF RemoveDir, Step, history, Shape, Disk, Record, InstallSteps, InstallOp, Cleared,
         Bare, EntryRecorded
<1>6. CASE Extract
  BY <1>6
     DEF Extract, Step, history, Shape, Disk, Record, InstallSteps, InstallOp, Cleared, Bare,
         EntryRecorded
<1>7. CASE VerifyAndMove
  BY <1>7
     DEF VerifyAndMove, Step, Last, history, Shape, Disk, Record, InstallSteps, InstallOp,
         Cleared, Bare, EntryRecorded
<1>8. CASE SetPrevious
  BY <1>8
     DEF SetPrevious, Step, history, Shape, Disk, Record, InstallSteps, InstallOp, Cleared,
         Bare, EntryRecorded
<1>9. CASE SetCurrent
  BY <1>9
     DEF SetCurrent, Step, history, Shape, Disk, Record, InstallSteps, InstallOp, Cleared,
         Bare, EntryRecorded
<1>10. CASE TruncateLauncher
  BY <1>10
     DEF TruncateLauncher, Step, history, Shape, Disk, Record, InstallSteps, InstallOp,
         Cleared, Bare, EntryRecorded
<1>11. CASE WriteLauncher
  BY <1>11
     DEF WriteLauncher, Step, history, Shape, Disk, Record, InstallSteps, InstallOp, Cleared,
         Bare, EntryRecorded
<1>12. CASE AddToPath
  BY <1>12
     DEF AddToPath, Step, history, Shape, Disk, Record, InstallSteps, InstallOp, Cleared,
         Bare, EntryRecorded
<1>13. CASE WriteRecord
  <2>1. disk'.path = disk.path
    BY <1>13, WriteRecordFacts DEF Shape, Disk
  <2> QED
    BY <1>13, <2>1, WriteRecordFacts, RecordedFacts DEF history, EntryRecorded
<1>14. CASE ClearStaleTemp
  BY <1>14
     DEF ClearStaleTemp, Last, history, Shape, Disk, Record, InstallSteps, InstallOp,
         Cleared, Bare, EntryRecorded
<1>15. CASE StartRollback
  BY <1>15
     DEF StartRollback, Start, Shape, Disk, Record, InstallSteps, InstallOp, Cleared, Bare,
         EntryRecorded
<1>16. CASE SwitchBack
  BY <1>16
     DEF SwitchBack, Step, Last, history, Shape, Disk, Record, InstallSteps, InstallOp,
         Cleared, Bare, EntryRecorded
<1>17. CASE RecordBack
  <2>1. disk'.path = disk.path
    BY <1>17, RecordBackFacts DEF Shape, Disk
  <2> QED
    BY <1>17, <2>1, RecordBackFacts DEF history, EntryRecorded
<1>18. CASE StartUninstall
  BY <1>18
     DEF StartUninstall, Start, Shape, Disk, Record, InstallSteps, InstallOp, Cleared, Bare,
         EntryRecorded
<1>19. CASE Ask
  BY <1>19
     DEF Ask, Step, Last, history, Shape, Disk, Record, InstallSteps, InstallOp, Cleared,
         Bare, EntryRecorded
<1>20. CASE DropPath
  BY <1>20
     DEF DropPath, Step, history, Shape, Disk, Record, InstallSteps, InstallOp, Cleared,
         Bare, EntryRecorded
<1>21. CASE DropExes
  BY <1>21
     DEF DropExes, Step, history, Shape, Disk, Record, InstallSteps, InstallOp, Cleared,
         Bare, EntryRecorded
<1>22. CASE DropDirs
  BY <1>22
     DEF DropDirs, Step, history, Shape, Disk, Record, InstallSteps, InstallOp, Cleared,
         Bare, EntryRecorded
<1>23. CASE DropPrevious
  BY <1>23
     DEF DropPrevious, Step, history, Shape, Disk, Record, InstallSteps, InstallOp, Cleared,
         Bare, EntryRecorded
<1>24. CASE DropShim
  BY <1>24
     DEF DropShim, Step, history, Shape, Disk, Record, InstallSteps, InstallOp, Cleared,
         Bare, EntryRecorded
<1>25. CASE DropRecord
  BY <1>25
     DEF DropRecord, Step, history, Shape, Disk, Record, InstallSteps, InstallOp, Cleared,
         Bare, EntryRecorded
<1>26. CASE DropRoot
  BY <1>26
     DEF DropRoot, Last, history, Shape, Disk, Record, InstallSteps, InstallOp, Cleared,
         Bare, EntryRecorded
<1>27. CASE Crash
  BY <1>27 DEF Crash, Shape, Disk, Record, InstallSteps, InstallOp, Cleared, Bare, EntryRecorded
<1> QED
  BY <1>1, <1>2, <1>3, <1>4, <1>5, <1>6, <1>7, <1>8, <1>9, <1>10, <1>11, <1>12, <1>13, <1>14,
     <1>15, <1>16, <1>17, <1>18, <1>19, <1>20, <1>21, <1>22, <1>23, <1>24, <1>25, <1>26,
     <1>27
     DEF Next, Install, Rollback, Uninstall

-----------------------------------------------------------------------------
(* The results.                                                             *)

LEMMA InvariantKept == InstallerInv /\ [Next]_vars => InstallerInv'
BY ShapeKept, RunnableKept, ClearedKept, AgreementKept, EntryRecordedKept DEF InstallerInv

\* The strengthening of all four promises.
THEOREM InstallerInvariant == Spec => []InstallerInv
BY Starts, InvariantKept, PTL DEF Spec

\* Markers name versions that can run, after any crash and any failed check, except
\* versions that were deleted on purpose.
THEOREM MarkersAreRunnableHolds == Spec => []MarkersAreRunnable
<1>1. InstallerInv => MarkersAreRunnable
  BY DEF InstallerInv, Runnable
<1> QED
  BY <1>1, InstallerInvariant, PTL

\* Until a crash, marker and record agree between operations.
THEOREM MarkerAndRecordAgreeHolds == Spec => []MarkerAndRecordAgree
<1>1. InstallerInv => MarkerAndRecordAgree
  BY DEF InstallerInv, Agreement, Agree, MarkerAndRecordAgree
<1> QED
  BY <1>1, InstallerInvariant, PTL

\* An uninstall that reports success leaves nothing of the installer's, whatever was
\* interrupted before it.
THEOREM UninstallLeavesNothingHolds == Spec => []UninstallLeavesNothing
<1>1. InstallerInv => UninstallLeavesNothing
  <2> SUFFICES ASSUME InstallerInv, outcome = "uninstalled", pc = "idle"
               PROVE  [disk EXCEPT !.path = "absent"] = UserOwns(disk.foreign, "absent")
    BY DEF UninstallLeavesNothing
  <2> DEFINE bare == [root |-> disk.foreign, foreign |-> disk.foreign, dirs |-> {}, exes |-> {},
                      staging |-> FALSE, current |-> None, previous |-> None,
                      launcher |-> "none", state |-> None, path |-> "absent"]
  <2>1. /\ disk \in Disk /\ Bare(disk) /\ disk.root = disk.foreign
        /\ disk.foreign \in BOOLEAN
    BY DEF InstallerInv, Shape, Cleared, Disk
  <2>2. UserOwns(disk.foreign, "absent") = bare
    BY DEF UserOwns
  <2>3. [disk EXCEPT !.path = "absent"] = bare
    <3> DEFINE d == [disk EXCEPT !.path = "absent"]
    <3>1. d \in Disk
      BY <2>1 DEF Disk
    <3>2. /\ d.root = bare.root /\ d.foreign = bare.foreign /\ d.dirs = bare.dirs
          /\ d.exes = bare.exes /\ d.staging = bare.staging /\ d.current = bare.current
          /\ d.previous = bare.previous /\ d.launcher = bare.launcher
          /\ d.state = bare.state /\ d.path = bare.path
      BY <2>1 DEF Disk, Bare
    <3>3. bare \in Disk
      BY <2>1 DEF Disk
    <3> HIDE DEF d, bare
    <3>4. d = bare
      BY <3>1, <3>2, <3>3, SameDisk
    <3> QED
      BY <3>4 DEF d
  <2> QED
    BY <2>2, <2>3
<1> QED
  BY <1>1, InstallerInvariant, PTL

\* Until a crash, the PATH entry an install added goes with the uninstall.
THEOREM AddedEntryGoesHolds == Spec => []AddedEntryGoes
<1>1. InstallerInv => AddedEntryGoes
  BY DEF InstallerInv, EntryRecorded, AddedEntryGoes
<1> QED
  BY <1>1, InstallerInvariant, PTL
=============================================================================
