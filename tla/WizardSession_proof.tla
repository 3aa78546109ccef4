------------------------- MODULE WizardSession_proof -------------------------
(***************************************************************************)
(* One worker at a time, no half report and no report overwritten, for any *)
(* number of requests and any clock.                                       *)
(***************************************************************************)
EXTENDS WizardSession, FiniteSetTheorems, TLAPS

Directory == Nat \X Nat
File == [dir : Directory, file : Artifacts, by : Threads \X {1, 2}]

\* The shape of the state.
Shape == /\ status \in {"idle", "scanning", "complete", "failed"}
         /\ reports \in [Artifacts -> Directory]
         /\ worker \in DemoRequests \cup {None}
         /\ pc \in [Threads -> ScanSteps \cup DiffSteps \cup
                                 {"idle", "posted", "ignored", "raised", "done"}]
         /\ profile \in [Threads -> Profiles \cup {None}]
         /\ defaultProfile \in Profiles
         /\ leg \in [Threads -> {1, 2}]
         /\ dir \in [Threads -> Directory]
         /\ before \in [Threads -> Directory]
         /\ written \in SUBSET File /\ IsFiniteSet(written)
         /\ clock \in Nat

\* Only the last worker can still be running.
OnlyTheWorkerRuns == \A r \in DemoRequests : Running(r) => worker = r

\* A directory that holds a whole report.
WholeReport(d) == d # Nowhere /\ Has(d, "html") /\ Has(d, "json")

\* What a thread has written when it is at a step.
Frame(t) ==
  /\ pc[t] \in {"html", "json"} => dir[t] # Nowhere
  /\ pc[t] = "json" => Has(dir[t], "html")
  /\ pc[t] \in {"record_html", "record_json", "complete"} => WholeReport(dir[t])
  /\ pc[t] \in {"record_json", "complete"} => reports["html"] # Nowhere
  /\ pc[t] = "complete" => reports["json"] # Nowhere
  /\ pc[t] \in DiffSteps => leg[t] = 2
  /\ leg[t] = 2 => WholeReport(before[t])
FramesTellTheTruth == \A t \in Threads : Frame(t)

\* The files of demo scans, and whose they are while a worker writes.
ByDemo == {x \in written : x.file # "diff" /\ x.by[1] \in DemoRequests}
DirectoryIsTheWorkers ==
  \A t \in DemoRequests :
    /\ pc[t] = "html" => \A x \in ByDemo : x.dir # dir[t]
    /\ pc[t] = "json" => \A x \in ByDemo : x.dir = dir[t] => x.by = <<t, leg[t]>>

WizardInv == /\ Shape /\ OnlyTheWorkerRuns /\ FramesTellTheTruth /\ DirectoryIsTheWorkers
             /\ CompleteMeansReport /\ DemoScansPreserved

-----------------------------------------------------------------------------
(* The name of a directory.                                                 *)

\* A set of naturals that is not empty has a least element.
LEMMA MinIsMember ==
  ASSUME NEW S \in SUBSET Nat, S # {}
  PROVE  Min(S) \in S
<1> DEFINE Less == {p \in Nat \X Nat : p[1] < p[2]}
<1>1. IsWellFoundedOn(OpToRel(<, Nat), Nat)
  BY NatLessThanWellFounded
<1>2. OpToRel(<, Nat) = Less
  BY DEF OpToRel
<1>3. PICK x \in S : \A y \in S : <<y, x>> \notin Less
  <2>1. IsWellFoundedOn(Less, Nat)
    BY <1>1, <1>2
  <2> QED
    BY <2>1, WFMin
<1>4. ASSUME NEW y \in S PROVE x =< y
  <2>1. <<y, x>> \in Nat \X Nat /\ <<y, x>>[1] = y /\ <<y, x>>[2] = x
    OBVIOUS
  <2>2. ~(y < x)
    BY <1>3, <2>1
  <2> QED
    BY <2>2
<1> QED
  BY <1>4 DEF Min

\* A fresh directory is new, and never the one that stands for none.
LEMMA FreshIsNew ==
  ASSUME Shape
  PROVE  /\ FreshScanDir \in Directory
         /\ FreshScanDir # Nowhere
         /\ \A w \in written : w.dir # FreshScanDir
<1> DEFINE today == {x \in written : x.dir[1] = clock}
           taken == {w.dir[2] : w \in today}
           free == {c \in 1..Cardinality(taken) + 1 : c \notin taken}
           f == [w \in today |-> w.dir[2]]
<1>1. IsFiniteSet(today)
  BY FS_Subset DEF Shape
<1>2. IsFiniteSet(taken)
  <2>1. f \in Surjection(today, taken)
    BY DEF Surjection
  <2> QED
    BY <1>1, <2>1, FS_Surjection
<1>3. Cardinality(taken) \in Nat
  BY <1>2, FS_CardinalityType
<1>4. free # {}
  <2>1. SUFFICES ASSUME 1..Cardinality(taken) + 1 \subseteq taken
                 PROVE  FALSE
    OBVIOUS
  <2>2. Cardinality(1..Cardinality(taken) + 1) <= Cardinality(taken)
    BY <1>2, <2>1, FS_Subset
  <2>3. Cardinality(1..Cardinality(taken) + 1) = Cardinality(taken) + 1
    BY <1>3, FS_Interval
  <2> QED
    BY <1>3, <2>2, <2>3
<1>5. Min(free) \in free
  <2>1. free \in SUBSET Nat
    BY <1>3
  <2> HIDE DEF free
  <2> QED
    BY <1>4, <2>1, MinIsMember
<1>6. FreshScanDir = <<clock, Min(free)>>
  BY DEF FreshScanDir
<1>7. Min(free) \in Nat /\ Min(free) # 0 /\ Min(free) \notin taken
  <2>1. \A c \in free : c \in Nat /\ c # 0 /\ c \notin taken
    BY <1>3
  <2> HIDE DEF free, taken
  <2> QED
    BY <1>5, <2>1
<1>8. ASSUME NEW w \in written, w.dir = FreshScanDir
      PROVE  FALSE
  <2> HIDE DEF free
  <2>1. w.dir[1] = clock /\ w.dir[2] = Min(free)
    BY <1>6, <1>8
  <2>2. w.dir[2] \in taken
    BY <2>1
  <2> QED
    BY <1>7, <2>1, <2>2
<1> QED
  BY <1>6, <1>7, <1>8 DEF Shape, Directory, Nowhere

-----------------------------------------------------------------------------
(* The initial states.                                                      *)

LEMMA Starts == Init => WizardInv
<1> SUFFICES ASSUME Init PROVE WizardInv
  OBVIOUS
<1>1. Shape
  BY FS_EmptySet DEF Init, Shape, Directory, Nowhere, Artifacts
<1>2. OnlyTheWorkerRuns /\ FramesTellTheTruth /\ DirectoryIsTheWorkers
  BY WizardAssumption DEF Init, OnlyTheWorkerRuns, Running, ScanSteps, DiffSteps,
     FramesTellTheTruth, Frame, DirectoryIsTheWorkers, Threads
<1>3. CompleteMeansReport /\ DemoScansPreserved
  BY DEF Init, CompleteMeansReport, DemoScansPreserved
<1> QED
  BY <1>1, <1>2, <1>3 DEF WizardInv

-----------------------------------------------------------------------------
(* The shape of the state.                                                  *)

LEMMA WriteKeepsShape ==
  ASSUME Shape, NEW t \in Threads, NEW d \in Directory, NEW file \in Artifacts,
         Write(t, d, file)
  PROVE  written' \in SUBSET File /\ IsFiniteSet(written')
<1>1. [dir |-> d, file |-> file, by |-> <<t, leg[t]>>] \in File
  BY DEF Shape, File
<1> QED
  BY <1>1, FS_AddElement DEF Shape, Write

LEMMA ShapeKept == Shape /\ [Next]_vars => Shape'
<1> SUFFICES ASSUME Shape, [Next]_vars PROVE Shape'
  OBVIOUS
<1>1. CASE UNCHANGED vars
  BY <1>1 DEF vars, frames, Shape
<1>2. ASSUME NEW r \in DemoRequests, PostDemo(r) \/ StartWorker(r)
      PROVE  Shape'
  <2>1. r \in Threads
    BY DEF Threads
  <2>2. CASE PostDemo(r)
    BY <2>1, <2>2 DEF PostDemo, Goto, Shape
  <2>3. CASE StartWorker(r)
    BY <2>1, <2>3 DEF StartWorker, Goto, Shape, ScanSteps
  <2> QED
    BY <1>2, <2>2, <2>3
<1>3. ASSUME NEW d \in DiffRequests, PostDiff(d)
      PROVE  Shape'
  BY <1>3 DEF PostDiff, Goto, Shape, ScanSteps, Threads
<1>4. ASSUME NEW t \in Threads, ThreadStep(t)
      PROVE  Shape'
  <2>1. CASE Resolve(t)
    BY <2>1 DEF Resolve, Goto, Shape, ScanSteps
  <2>2. CASE Scan(t)
    BY <2>2 DEF Scan, Goto, Shape, ScanSteps
  <2>3. CASE Fail(t)
    BY <2>3 DEF Fail, Goto, Shape, ScanSteps
  <2>4. CASE PickDirectory(t)
    BY <2>4, FreshIsNew DEF PickDirectory, Goto, Shape, ScanSteps
  <2>5. CASE WriteHtml(t) \/ WriteJson(t)
    <3>1. PICK file \in {"html", "json"}, next \in {"json", "record_html"} :
            WriteReport(t, file, next)
      BY <2>5 DEF WriteHtml, WriteJson
    <3>2. written' \in SUBSET File /\ IsFiniteSet(written')
      BY <3>1, WriteKeepsShape DEF WriteReport, Shape, Artifacts
    <3> QED
      BY <3>1, <3>2 DEF WriteReport, Goto, Shape, ScanSteps
  <2>6. CASE RecordHtml(t)
    BY <2>6 DEF RecordHtml, Record, Goto, Shape, ScanSteps
  <2>7. CASE RecordJson(t)
    BY <2>7 DEF RecordJson, Record, Goto, Shape, ScanSteps
  <2>8. CASE Complete(t)
    BY <2>8 DEF Complete, Goto, Shape, ScanSteps, DiffSteps
  <2>9. CASE WriteDiff(t)
    <3>1. written' \in SUBSET File /\ IsFiniteSet(written')
      BY <2>9, WriteKeepsShape DEF WriteDiff, Shape, Artifacts
    <3> QED
      BY <2>9, <3>1 DEF WriteDiff, Goto, Shape, DiffSteps
  <2>10. CASE RecordDiff(t)
    BY <2>10 DEF RecordDiff, Record, Goto, Shape
  <2> QED
    BY <1>4, <2>1, <2>2, <2>3, <2>4, <2>5, <2>6, <2>7, <2>8, <2>9, <2>10 DEF ThreadStep
<1>5. CASE Tick
  BY <1>5 DEF Tick, frames, Shape
<1> QED
  BY <1>1, <1>2, <1>3, <1>4, <1>5 DEF Next

-----------------------------------------------------------------------------
(* One worker.                                                              *)

LEMMA OneWorkerKept ==
  ASSUME Shape, OnlyTheWorkerRuns, [Next]_vars
  PROVE  OnlyTheWorkerRuns'
<1>1. CASE UNCHANGED vars
  BY <1>1 DEF vars, frames, OnlyTheWorkerRuns, Running
<1>2. ASSUME NEW r \in DemoRequests, PostDemo(r)
      PROVE  OnlyTheWorkerRuns'
  BY <1>2 DEF PostDemo, Goto, OnlyTheWorkerRuns, Running, ScanSteps, DiffSteps, Shape, Threads
<1>3. ASSUME NEW r \in DemoRequests, StartWorker(r)
      PROVE  OnlyTheWorkerRuns'
  <2>1. CASE WorkerAlive
    BY <1>3, <2>1
       DEF StartWorker, Goto, OnlyTheWorkerRuns, Running, ScanSteps, DiffSteps, Shape, Threads
  <2>2. CASE ~WorkerAlive
    <3>1. \A s \in DemoRequests : ~Running(s)
      BY <2>2, WizardAssumption DEF WorkerAlive, OnlyTheWorkerRuns, None
    <3> QED
      BY <1>3, <2>2, <3>1 DEF StartWorker, Goto, OnlyTheWorkerRuns, Running, Shape, Threads
  <2> QED
    BY <2>1, <2>2
<1>4. ASSUME NEW d \in DiffRequests, PostDiff(d)
      PROVE  OnlyTheWorkerRuns'
  BY <1>4, WizardAssumption DEF PostDiff, Goto, OnlyTheWorkerRuns, Running, Shape, Threads
<1>5. ASSUME NEW t \in Threads, ThreadStep(t)
      PROVE  OnlyTheWorkerRuns'
  <2>1. worker' = worker
    BY <1>5 DEF ThreadStep, Resolve, Scan, Fail, PickDirectory, WriteHtml, WriteJson,
       WriteReport, RecordHtml, RecordJson, Complete, WriteDiff, RecordDiff
  <2>2. Running(t)
    BY <1>5 DEF ThreadStep, Resolve, Scan, Fail, PickDirectory, WriteHtml, WriteJson,
       WriteReport, RecordHtml, RecordJson, Complete, WriteDiff, RecordDiff,
       Running, ScanSteps, DiffSteps
  <2>3. \A s \in Threads : s # t => pc'[s] = pc[s]
    BY <1>5 DEF ThreadStep, Resolve, Scan, Fail, PickDirectory, WriteHtml, WriteJson,
       WriteReport, RecordHtml, RecordJson, Complete, WriteDiff, RecordDiff, Goto, Shape
  <2> QED
    BY <2>1, <2>2, <2>3 DEF OnlyTheWorkerRuns, Running, Threads
<1>6. CASE Tick
  BY <1>6 DEF Tick, frames, OnlyTheWorkerRuns, Running
<1> QED
  BY <1>1, <1>2, <1>3, <1>4, <1>5, <1>6 DEF Next

-----------------------------------------------------------------------------
(* The frames.                                                              *)

\* Files stay, and a recorded report is only replaced by another.
LEMMA NothingIsLost ==
  ASSUME Shape, FramesTellTheTruth, [Next]_vars
  PROVE  /\ written \subseteq written'
         /\ \A a \in Artifacts : reports[a] # Nowhere => reports'[a] # Nowhere
<1>1. CASE UNCHANGED vars
  BY <1>1 DEF vars
<1>2. CASE \/ \E r \in DemoRequests : PostDemo(r) \/ StartWorker(r)
           \/ \E d \in DiffRequests : PostDiff(d)
           \/ Tick
  BY <1>2 DEF PostDemo, StartWorker, PostDiff, Tick
<1>3. ASSUME NEW t \in Threads, ThreadStep(t)
      PROVE  /\ written \subseteq written'
             /\ \A a \in Artifacts : reports[a] # Nowhere => reports'[a] # Nowhere
  <2>1. CASE Resolve(t) \/ Scan(t) \/ Fail(t) \/ PickDirectory(t) \/ Complete(t)
    BY <2>1 DEF Resolve, Scan, Fail, PickDirectory, Complete
  <2>2. CASE WriteHtml(t) \/ WriteJson(t) \/ WriteDiff(t)
    BY <2>2 DEF WriteHtml, WriteJson, WriteReport, WriteDiff, Write
  <2>3. CASE RecordHtml(t) \/ RecordJson(t)
    <3>1. dir[t] # Nowhere
      BY <2>3 DEF RecordHtml, RecordJson, FramesTellTheTruth, Frame, WholeReport
    <3> QED
      BY <2>3, <3>1 DEF RecordHtml, RecordJson, Record, Shape
  <2>4. CASE RecordDiff(t)
    <3>1. before[t] # Nowhere
      BY <2>4 DEF RecordDiff, FramesTellTheTruth, Frame, WholeReport, DiffSteps
    <3> QED
      BY <2>4, <3>1 DEF RecordDiff, Record, Shape
  <2> QED
    BY <1>3, <2>1, <2>2, <2>3, <2>4 DEF ThreadStep
<1> QED
  BY <1>1, <1>2, <1>3 DEF Next

\* A thread that does not move keeps its frame, whatever the others write.
LEMMA FrameStays ==
  ASSUME written \subseteq written',
         \A a \in Artifacts : reports[a] # Nowhere => reports'[a] # Nowhere,
         NEW t, Frame(t),
         pc'[t] = pc[t] \/ pc'[t] \in {"idle", "posted", "ignored", "raised", "done",
                                       "resolve", "scan", "pick"},
         dir'[t] = dir[t], leg'[t] = leg[t], before'[t] = before[t]
  PROVE  Frame(t)'
BY DEF Frame, WholeReport, Has, DiffSteps, Artifacts

LEMMA FramesKept ==
  ASSUME Shape, FramesTellTheTruth, [Next]_vars
  PROVE  FramesTellTheTruth'
<1> SUFFICES ASSUME NEW s \in Threads PROVE Frame(s)'
  BY DEF FramesTellTheTruth
<1>1. Frame(s)
  BY DEF FramesTellTheTruth
<1>2. /\ written \subseteq written'
      /\ \A a \in Artifacts : reports[a] # Nowhere => reports'[a] # Nowhere
  BY NothingIsLost
<1>3. CASE UNCHANGED vars \/ Tick
  BY <1>1, <1>2, <1>3, FrameStays DEF vars, frames, Tick
<1>4. ASSUME NEW r \in DemoRequests, PostDemo(r)
      PROVE  Frame(s)'
  BY <1>1, <1>2, <1>4, FrameStays DEF PostDemo, Goto, Shape
<1>5. ASSUME NEW r \in DemoRequests, StartWorker(r)
      PROVE  Frame(s)'
  BY <1>1, <1>2, <1>5, FrameStays DEF StartWorker, Goto, Shape
<1>6. ASSUME NEW d \in DiffRequests, PostDiff(d)
      PROVE  Frame(s)'
  BY <1>1, <1>2, <1>6, FrameStays DEF PostDiff, Goto, Shape
<1>7. ASSUME NEW t \in Threads, ThreadStep(t)
      PROVE  Frame(s)'
  <2>1. CASE s # t
    <3>1. /\ pc'[s] = pc[s] /\ dir'[s] = dir[s]
          /\ leg'[s] = leg[s] /\ before'[s] = before[s]
      BY <1>7, <2>1 DEF ThreadStep, Resolve, Scan, Fail, PickDirectory, WriteHtml, WriteJson,
         WriteReport, RecordHtml, RecordJson, Complete, WriteDiff, RecordDiff, Goto, Shape
    <3> QED
      BY <1>1, <1>2, <3>1, FrameStays
  <2>2. CASE s = t
    <3>1. CASE Resolve(t) \/ Scan(t) \/ Fail(t)
      BY <1>1, <1>2, <2>2, <3>1, FrameStays DEF Resolve, Scan, Fail, Goto, Shape
    <3>2. CASE PickDirectory(t)
      BY <1>1, <1>2, <2>2, <3>2, FreshIsNew
         DEF PickDirectory, Goto, Shape, Frame, WholeReport, Has, DiffSteps
    <3>3. CASE WriteHtml(t) \/ WriteJson(t)
      <4>1. PICK file \in {"html", "json"}, next \in {"json", "record_html"} :
              /\ WriteReport(t, file, next)
              /\ \/ file = "html" /\ next = "json"
                 \/ file = "json" /\ next = "record_html"
        <5>1. CASE WriteHtml(t)
          <6>1. WriteReport(t, "html", "json")
            BY <5>1 DEF WriteHtml
          <6> QED
            BY <6>1
        <5>2. CASE WriteJson(t)
          <6>1. WriteReport(t, "json", "record_html")
            BY <5>2 DEF WriteJson
          <6> QED
            BY <6>1
        <5> QED
          BY <3>3, <5>1, <5>2
      <4>2. /\ pc[t] = file /\ pc'[t] = next
            /\ UNCHANGED <<dir, leg, before, reports>>
        BY <4>1 DEF WriteReport, Goto, Shape
      <4>3. [dir |-> dir[t], file |-> file, by |-> <<t, leg[t]>>] \in written'
        BY <4>1 DEF WriteReport, Write
      <4>4. \E w \in written' : w.dir = dir[t] /\ w.file = file
        BY <4>3
      <4>5. Has(dir[t], file)'
        BY <4>2, <4>4 DEF Has
      <4>6. \A d : Has(d, "html") => Has(d, "html")'
        BY <1>2 DEF Has
      <4>7. \A d : WholeReport(d) => WholeReport(d)'
        BY <1>2 DEF WholeReport, Has
      <4>8. CASE file = "html"
        BY <1>1, <2>2, <4>1, <4>2, <4>5, <4>7, <4>8 DEF Frame, DiffSteps
      <4>9. CASE file = "json"
        <5>1. dir[t] # Nowhere /\ Has(dir[t], "html")
          BY <1>1, <2>2, <4>2, <4>9 DEF Frame
        <5>2. WholeReport(dir[t])'
          BY <4>2, <4>5, <4>6, <4>9, <5>1 DEF WholeReport
        <5> QED
          BY <1>1, <2>2, <4>1, <4>2, <4>7, <4>9, <5>2 DEF Frame, DiffSteps
      <4> QED
        BY <4>8, <4>9
    <3>5. CASE RecordHtml(t)
      BY <1>1, <1>2, <2>2, <3>5
         DEF RecordHtml, Record, Goto, Shape, Frame, WholeReport, Has, DiffSteps, Artifacts
    <3>6. CASE RecordJson(t)
      BY <1>1, <1>2, <2>2, <3>6
         DEF RecordJson, Record, Goto, Shape, Frame, WholeReport, Has, DiffSteps, Artifacts
    <3>7. CASE Complete(t)
      <4>1. \A d : WholeReport(d) => WholeReport(d)'
        BY <3>7 DEF Complete, WholeReport, Has
      <4>2. WholeReport(dir[t])
        BY <1>1, <2>2, <3>7 DEF Complete, Frame
      <4>3. CASE pc'[t] = "done" \/ pc'[t] = "resolve"
        BY <1>1, <2>2, <3>7, <4>1, <4>2, <4>3 DEF Complete, Goto, Shape, Frame, DiffSteps
      <4>4. CASE pc'[t] = "diff"
        BY <1>1, <2>2, <3>7, <4>1, <4>2, <4>4 DEF Complete, Goto, Shape, Frame, DiffSteps
      <4> QED
        BY <3>7, <4>3, <4>4 DEF Complete, Goto, Shape
    <3>8. CASE WriteDiff(t) \/ RecordDiff(t)
      <4>1. \A d : WholeReport(d) => WholeReport(d)'
        BY <1>2 DEF WholeReport, Has
      <4>2. /\ leg[t] = 2 /\ leg'[t] = 2 /\ before'[t] = before[t]
            /\ pc'[t] \in {"record_diff", "raised", "done"}
        BY <1>1, <2>2, <3>8 DEF WriteDiff, RecordDiff, Goto, Shape, Frame, DiffSteps
      <4> QED
        BY <1>1, <2>2, <4>1, <4>2 DEF Frame, DiffSteps
    <3> QED
      BY <1>7, <3>1, <3>2, <3>3, <3>5, <3>6, <3>7, <3>8 DEF ThreadStep
  <2> QED
    BY <2>1, <2>2
<1> QED
  BY <1>3, <1>4, <1>5, <1>6, <1>7 DEF Next

-----------------------------------------------------------------------------
(* What the user sees.                                                      *)

LEMMA CompleteKept ==
  ASSUME Shape, FramesTellTheTruth, CompleteMeansReport, [Next]_vars
  PROVE  CompleteMeansReport'
<1>1. /\ written \subseteq written'
      /\ \A a \in Artifacts : reports[a] # Nowhere => reports'[a] # Nowhere
  BY NothingIsLost
<1>2. \A d : Has(d, "html") /\ Has(d, "json") => Has(d, "html")' /\ Has(d, "json")'
  BY <1>1 DEF Has
<1>3. status' = "complete" => reports'["html"] # Nowhere /\ reports'["json"] # Nowhere
  <2>1. CASE status' = status \/ status' # "complete"
    BY <1>1, <2>1 DEF CompleteMeansReport, Artifacts
  <2>2. CASE \E t \in Threads : Complete(t)
    BY <1>1, <2>2 DEF Complete, FramesTellTheTruth, Frame, Artifacts
  <2>3. ASSUME status' # status, status' = "complete"
        PROVE  \E t \in Threads : Complete(t)
    BY <2>3 DEF Next, vars, PostDemo, StartWorker, PostDiff, ThreadStep, Resolve, Scan, Fail,
       PickDirectory, WriteHtml, WriteJson, WriteReport, RecordHtml, RecordJson, WriteDiff,
       RecordDiff, Tick
  <2> QED
    BY <2>1, <2>2, <2>3
<1>4. ASSUME NEW a \in Artifacts, reports'[a] # Nowhere
      PROVE  Has(reports'[a], "html") /\ Has(reports'[a], "json")
  <2>1. CASE reports'[a] = reports[a]
    BY <1>4, <2>1 DEF CompleteMeansReport
  <2>2. CASE \E t \in Threads : RecordHtml(t) \/ RecordJson(t) \/ RecordDiff(t)
    <3>1. PICK t \in Threads : RecordHtml(t) \/ RecordJson(t) \/ RecordDiff(t)
      BY <2>2
    <3>2. \/ reports'[a] = reports[a]
          \/ reports'[a] = dir[t] /\ pc[t] \in {"record_html", "record_json"}
          \/ reports'[a] = before[t] /\ pc[t] = "record_diff"
      BY <3>1 DEF RecordHtml, RecordJson, RecordDiff, Record, Shape
    <3> QED
      BY <1>4, <3>2
         DEF CompleteMeansReport, FramesTellTheTruth, Frame, WholeReport, DiffSteps
  <2>3. ASSUME reports' # reports
        PROVE  \E t \in Threads : RecordHtml(t) \/ RecordJson(t) \/ RecordDiff(t)
    BY <2>3 DEF Next, vars, PostDemo, StartWorker, PostDiff, ThreadStep, Resolve, Scan, Fail,
       PickDirectory, WriteHtml, WriteJson, WriteReport, Complete, WriteDiff, Tick
  <2> QED
    BY <2>1, <2>2, <2>3
<1> QED
  BY <1>1, <1>3, <1>4 DEF CompleteMeansReport, Has

-----------------------------------------------------------------------------
(* The directories of demo scans.                                           *)

LEMMA DirectoriesKept ==
  ASSUME Shape, OnlyTheWorkerRuns, DirectoryIsTheWorkers, DemoScansPreserved, [Next]_vars
  PROVE  DirectoryIsTheWorkers' /\ DemoScansPreserved'
<1>1. DemoScansPreserved <=> \A v, w \in ByDemo : v.dir = w.dir => v.by = w.by
  BY DEF DemoScansPreserved, ByDemo
<1>2. DemoScansPreserved' <=> \A v, w \in ByDemo' : v.dir = w.dir => v.by = w.by
  BY DEF DemoScansPreserved, ByDemo
<1>3. ASSUME ByDemo' = ByDemo,
             \A r \in DemoRequests : pc'[r] \in {"html", "json"} =>
               pc'[r] = pc[r] /\ dir'[r] = dir[r] /\ leg'[r] = leg[r]
      PROVE  DirectoryIsTheWorkers' /\ DemoScansPreserved'
  <2>1. DemoScansPreserved'
    BY <1>1, <1>2, <1>3
  <2>2. DirectoryIsTheWorkers'
    BY <1>3 DEF DirectoryIsTheWorkers
  <2> QED
    BY <2>1, <2>2
<1>4. CASE UNCHANGED vars \/ Tick
  BY <1>3, <1>4 DEF vars, frames, Tick, ByDemo
<1>5. ASSUME NEW r \in DemoRequests, PostDemo(r) \/ StartWorker(r)
      PROVE  DirectoryIsTheWorkers' /\ DemoScansPreserved'
  <2>1. ByDemo' = ByDemo
    BY <1>5 DEF PostDemo, StartWorker, ByDemo
  <2>2. \A s \in DemoRequests : pc'[s] \in {"html", "json"} =>
          pc'[s] = pc[s] /\ dir'[s] = dir[s] /\ leg'[s] = leg[s]
    BY <1>5 DEF PostDemo, StartWorker, Goto, Shape, Threads
  <2> QED
    BY <1>3, <2>1, <2>2
<1>6. ASSUME NEW d \in DiffRequests, PostDiff(d)
      PROVE  DirectoryIsTheWorkers' /\ DemoScansPreserved'
  <2>1. ByDemo' = ByDemo
    BY <1>6 DEF PostDiff, ByDemo
  <2>2. \A s \in DemoRequests : pc'[s] \in {"html", "json"} =>
          pc'[s] = pc[s] /\ dir'[s] = dir[s] /\ leg'[s] = leg[s]
    BY <1>6 DEF PostDiff, Goto, Shape, Threads
  <2> QED
    BY <1>3, <2>1, <2>2
<1>7. ASSUME NEW t \in Threads, ThreadStep(t)
      PROVE  DirectoryIsTheWorkers' /\ DemoScansPreserved'
  <2>1. \A s \in Threads : s # t => pc'[s] = pc[s] /\ dir'[s] = dir[s] /\ leg'[s] = leg[s]
    BY <1>7 DEF ThreadStep, Resolve, Scan, Fail, PickDirectory, WriteHtml, WriteJson,
       WriteReport, RecordHtml, RecordJson, Complete, WriteDiff, RecordDiff, Goto, Shape
  <2>2. CASE Resolve(t) \/ Scan(t) \/ Fail(t) \/ RecordHtml(t) \/ RecordJson(t) \/ Complete(t)
             \/ RecordDiff(t)
    <3>1. written' = written /\ pc'[t] \notin {"html", "json"}
      BY <2>2 DEF Resolve, Scan, Fail, RecordHtml, RecordJson, Complete, RecordDiff, Goto, Shape
    <3>2. ByDemo' = ByDemo
      BY <3>1 DEF ByDemo
    <3> QED
      BY <1>3, <2>1, <3>1, <3>2 DEF Threads
  <2>3. CASE WriteDiff(t)
    <3>1. pc'[t] \notin {"html", "json"}
      BY <2>3 DEF WriteDiff, Goto, Shape
    <3>2. ByDemo' = ByDemo
      <4>1. \/ written' = written
            \/ written' = written \cup
                            {[dir |-> before[t], file |-> "diff", by |-> <<t, leg[t]>>]}
        BY <2>3 DEF WriteDiff, Write
      <4> QED
        BY <4>1 DEF ByDemo
    <3> QED
      BY <1>3, <2>1, <3>1, <3>2 DEF Threads
  <2>4. CASE PickDirectory(t)
    <3>1. /\ ByDemo' = ByDemo
          /\ dir'[t] = FreshScanDir /\ pc'[t] = "html"
      BY <2>4 DEF PickDirectory, ByDemo, Goto, Shape
    <3>2. \A x \in ByDemo : x.dir # dir'[t]
      BY <3>1, FreshIsNew DEF ByDemo
    <3>3. DirectoryIsTheWorkers'
      <4> SUFFICES ASSUME NEW s \in DemoRequests
                   PROVE  /\ pc'[s] = "html" => \A x \in ByDemo' : x.dir # dir'[s]
                          /\ pc'[s] = "json" => \A x \in ByDemo' :
                               x.dir = dir'[s] => x.by = <<s, leg'[s]>>
        BY DEF DirectoryIsTheWorkers
      <4>1. CASE s = t
        BY <3>1, <3>2, <4>1
      <4>2. CASE s # t
        BY <2>1, <3>1, <4>2 DEF DirectoryIsTheWorkers, Threads
      <4> QED
        BY <4>1, <4>2
    <3> QED
      BY <1>1, <1>2, <3>1, <3>3
  <2>5. CASE WriteHtml(t) \/ WriteJson(t)
    <3>1. /\ pc[t] \in {"html", "json"} /\ pc'[t] \in {"json", "record_html"}
          /\ pc[t] = "json" => pc'[t] = "record_html"
          /\ dir' = dir /\ leg' = leg
          /\ written' = written \cup
                          {[dir |-> dir[t], file |-> pc[t], by |-> <<t, leg[t]>>]}
      BY <2>5 DEF WriteHtml, WriteJson, WriteReport, Write, Goto, Shape
    <3>2. CASE t \notin DemoRequests
      <4>1. ByDemo' = ByDemo
        BY <3>1, <3>2 DEF ByDemo
      <4> QED
        BY <1>3, <2>1, <3>2, <4>1 DEF Threads
    <3>3. CASE t \in DemoRequests
      <4>1. \A s \in DemoRequests : s # t => pc'[s] \notin {"html", "json"}
        <5>1. worker = t
          BY <3>1, <3>3 DEF OnlyTheWorkerRuns, Running, ScanSteps
        <5> QED
          BY <2>1, <5>1 DEF OnlyTheWorkerRuns, Running, ScanSteps, Threads
      <4>2. \A x \in ByDemo' :
              x \in ByDemo \/ (x.dir = dir[t] /\ x.by = <<t, leg[t]>>)
        BY <3>1 DEF ByDemo
      <4>3. \A x \in ByDemo : x.dir = dir[t] => x.by = <<t, leg[t]>>
        BY <3>1, <3>3 DEF DirectoryIsTheWorkers
      <4>4. DemoScansPreserved'
        BY <1>1, <1>2, <4>2, <4>3
      <4>5. DirectoryIsTheWorkers'
        BY <3>1, <4>1, <4>2, <4>3 DEF DirectoryIsTheWorkers
      <4> QED
        BY <4>4, <4>5
    <3> QED
      BY <3>2, <3>3
  <2> QED
    BY <1>7, <2>2, <2>3, <2>4, <2>5 DEF ThreadStep
<1> QED
  BY <1>4, <1>5, <1>6, <1>7 DEF Next

-----------------------------------------------------------------------------
(* The results.                                                             *)

LEMMA InvariantKept == WizardInv /\ [Next]_vars => WizardInv'
BY ShapeKept, OneWorkerKept, FramesKept, CompleteKept, DirectoriesKept DEF WizardInv

\* What the state looks like and what the frames say is so in every reachable state.
THEOREM WizardInvariant == Spec => []WizardInv
BY Starts, InvariantKept, PTL DEF Spec

\* At most one worker scans at a time, however many requests race: a second one
\* is started only when the last has ended.
THEOREM AtMostOneWorkerHolds == Spec => []AtMostOneWorker
<1>1. WizardInv => AtMostOneWorker
  <2> SUFFICES ASSUME WizardInv PROVE AtMostOneWorker
    OBVIOUS
  <2> DEFINE running == {r \in DemoRequests : Running(r)}
  <2>1. running \subseteq {worker}
    BY DEF WizardInv, OnlyTheWorkerRuns
  <2>2. IsFiniteSet({worker}) /\ Cardinality({worker}) = 1
    BY FS_Singleton
  <2> QED
    BY <2>1, <2>2, FS_Subset DEF AtMostOneWorker
<1> QED
  BY <1>1, WizardInvariant, PTL

\* A page that sees "complete" finds a report, and no report is served half.
THEOREM CompleteMeansReportHolds == Spec => []CompleteMeansReport
<1>1. WizardInv => CompleteMeansReport
  BY DEF WizardInv
<1> QED
  BY <1>1, WizardInvariant, PTL

\* Demo scans never write into each other's directories.
THEOREM DemoScansPreservedHolds == Spec => []DemoScansPreserved
<1>1. WizardInv => DemoScansPreserved
  BY DEF WizardInv
<1> QED
  BY <1>1, WizardInvariant, PTL
=============================================================================
