--------------------------- MODULE WizardSession ---------------------------
(* The local wizard (src/licenselens/ui): request threads of the loopback    *)
(* server, the worker thread a POST /demo starts, and the UiState they all   *)
(* write.  A POST /demo runs one scan on a worker thread, unless a worker is *)
(* alive; a POST /diff runs two scans and their diff on its request thread,  *)
(* whatever else is running.                                                 *)
(*                                                                           *)
(* A thread is named after the request that caused it.  A directory is a     *)
(* pair <<second, counter>>: scan-<stamp> and scan-<stamp>-<counter>.  The   *)
(* progress list, the device code and the bytes of the reports are left out. *)
EXTENDS Naturals, FiniteSets, FiniteSetsExt

CONSTANTS DemoRequests,   \* POST /demo requests
          DiffRequests,   \* POST /diff requests
          Profiles,       \* profile ids a form or --profile may carry
          KnownProfiles,  \* the ids compose_profile accepts
          LastSecond      \* bound on the clock

ASSUME WizardAssumption == /\ DemoRequests \cap DiffRequests = {}
                           /\ "none" \notin DemoRequests
                           /\ KnownProfiles \subseteq Profiles
                           /\ LastSecond \in Nat

VARIABLES status,          \* UiState._status
          reports,         \* UiState._report_paths: artifact -> directory
          defaultProfile,  \* WizardApp.default_profile
          worker,          \* WizardApp._worker: the last worker started
          pc, profile, leg, dir, before,   \* per thread: its frame
          written,         \* the files on disk, with the scan that wrote them
          clock            \* the current second

frames == <<pc, profile, leg, dir, before>>
vars == <<status, reports, defaultProfile, worker, frames, written, clock>>

Threads == DemoRequests \cup DiffRequests
None == "none"
Nowhere == <<0, 0>>
Artifacts == {"html", "json", "diff"}

ScanSteps == {"resolve", "scan", "pick", "html", "json",
              "record_html", "record_json", "complete"}
DiffSteps == {"diff", "record_diff"}
Running(t) == pc[t] \in ScanSteps \cup DiffSteps

Init == /\ status = "idle"
        /\ reports = [a \in Artifacts |-> Nowhere]
        /\ defaultProfile \in Profiles
        /\ worker = None
        /\ pc = [t \in Threads |-> "idle"]
        /\ profile = [t \in Threads |-> None]
        /\ leg = [t \in Threads |-> 1]
        /\ dir = [t \in Threads |-> Nowhere]
        /\ before = [t \in Threads |-> Nowhere]
        /\ written = {}
        /\ clock = 0

Goto(t, step) == pc' = [pc EXCEPT ![t] = step]
Has(d, file) == \E w \in written : w.dir = d /\ w.file = file

----------------------------------------------------------------------------
(* handle_start_demo: the posted profile becomes the default before the lock *)
(* is taken, and is not checked against the profiles that exist.             *)
PostDemo(r) ==
  /\ pc[r] = "idle"
  /\ \E p \in Profiles : /\ profile' = [profile EXCEPT ![r] = p]
                         /\ defaultProfile' = p
  /\ Goto(r, "posted")
  /\ UNCHANGED <<status, reports, worker, leg, dir, before, written, clock>>

WorkerAlive == worker # None /\ Running(worker)

(* Mutant of StartWorker: a second worker is started beside a live one.      *)
StartSecondWorker(r) ==
  /\ pc[r] = "posted"
  /\ status' = "scanning"
  /\ worker' = r
  /\ Goto(r, "resolve")
  /\ UNCHANGED <<reports, defaultProfile, profile, leg, dir, before, written, clock>>

StartWorker(r) ==
  /\ pc[r] = "posted"
  /\ \/ /\ ~WorkerAlive
        /\ status' = "scanning"
        /\ worker' = r
        /\ Goto(r, "resolve")
     \/ /\ WorkerAlive
        /\ Goto(r, "ignored")
        /\ UNCHANGED <<status, worker>>
  /\ UNCHANGED <<reports, defaultProfile, profile, leg, dir, before, written, clock>>

(* handle_diff: the first of its two start_demo calls.                       *)
PostDiff(d) ==
  /\ pc[d] = "idle"
  /\ profile' = [profile EXCEPT ![d] = defaultProfile]
  /\ Goto(d, "resolve")
  /\ UNCHANGED <<status, reports, defaultProfile, worker, leg, dir, before, written, clock>>

----------------------------------------------------------------------------
(* ScanSession._run, one action per call.  An unknown profile raises before  *)
(* the try statement, so no status is set.                                   *)
Resolve(t) ==
  /\ pc[t] = "resolve"
  /\ \/ /\ profile[t] \in KnownProfiles
        /\ status' = "scanning"
        /\ Goto(t, "scan")
     \/ /\ profile[t] \notin KnownProfiles
        /\ Goto(t, "raised")
        /\ UNCHANGED status
  /\ UNCHANGED <<reports, defaultProfile, worker, profile, leg, dir, before, written, clock>>

(* run_scan returns.                                                         *)
Scan(t) ==
  /\ pc[t] = "scan"
  /\ Goto(t, "pick")
  /\ UNCHANGED <<status, reports, defaultProfile, worker, profile, leg, dir, before,
                 written, clock>>

(* Mutant of Fail: the handler re-raises without setting the status.         *)
FailSilently(t) ==
  /\ pc[t] \in {"scan", "html", "json"}
  /\ Goto(t, "raised")
  /\ UNCHANGED <<status, reports, defaultProfile, worker, profile, leg, dir, before,
                 written, clock>>

(* An exception of run_scan or of a report writer.                           *)
Fail(t) ==
  /\ pc[t] \in {"scan", "html", "json"}
  /\ status' = "failed"
  /\ Goto(t, "raised")
  /\ UNCHANGED <<reports, defaultProfile, worker, profile, leg, dir, before, written, clock>>

(* Mutant of FreshScanDir: the stamp alone names the directory.              *)
StampedDir == <<clock, 1>>

FreshScanDir ==
  LET taken == {w.dir[2] : w \in {x \in written : x.dir[1] = clock}}
  IN  <<clock, Min({c \in 1..Cardinality(taken) + 1 : c \notin taken})>>

(* The name is chosen here; the directory appears with its first file.       *)
PickDirectory(t) ==
  /\ pc[t] = "pick"
  /\ dir' = [dir EXCEPT ![t] = FreshScanDir]
  /\ Goto(t, "html")
  /\ UNCHANGED <<status, reports, defaultProfile, worker, profile, leg, before, written, clock>>

Write(t, d, file) == written' = written \cup {[dir |-> d, file |-> file, by |-> <<t, leg[t]>>]}

WriteReport(t, file, next) ==
  /\ pc[t] = file
  /\ Write(t, dir[t], file)
  /\ Goto(t, next)
  /\ UNCHANGED <<status, reports, defaultProfile, worker, profile, leg, dir, before, clock>>

(* Mutant of WriteHtml: the report is recorded before the JSON is written.   *)
WriteHtmlOnly(t) == WriteReport(t, "html", "record_html")

WriteHtml(t) == WriteReport(t, "html", "json")
WriteJson(t) == WriteReport(t, "json", "record_html")

Record(file, d) == reports' = [reports EXCEPT ![file] = d]

RecordHtml(t) ==
  /\ pc[t] = "record_html"
  /\ Record("html", dir[t])
  /\ Goto(t, "record_json")
  /\ UNCHANGED <<status, defaultProfile, worker, profile, leg, dir, before, written, clock>>

RecordJson(t) ==
  /\ pc[t] = "record_json"
  /\ Record("json", dir[t])
  /\ Goto(t, "complete")
  /\ UNCHANGED <<status, defaultProfile, worker, profile, leg, dir, before, written, clock>>

(* set_status("complete"), and the return of start_demo: a worker ends, the  *)
(* first scan of a diff is followed by the second, which reads the default   *)
(* profile again, and the second by the diff.                                *)
Complete(t) ==
  /\ pc[t] = "complete"
  /\ status' = "complete"
  /\ \/ /\ t \in DemoRequests
        /\ Goto(t, "done")
        /\ UNCHANGED <<profile, leg, before>>
     \/ /\ t \in DiffRequests /\ leg[t] = 1
        /\ before' = [before EXCEPT ![t] = dir[t]]
        /\ profile' = [profile EXCEPT ![t] = defaultProfile]
        /\ leg' = [leg EXCEPT ![t] = 2]
        /\ Goto(t, "resolve")
     \/ /\ t \in DiffRequests /\ leg[t] = 2
        /\ Goto(t, "diff")
        /\ UNCHANGED <<profile, leg, before>>
  /\ UNCHANGED <<reports, defaultProfile, worker, dir, written, clock>>

----------------------------------------------------------------------------
(* run_demo_diff: the report goes next to the first scan.                    *)
WriteDiff(t) ==
  /\ pc[t] = "diff"
  /\ \/ Write(t, before[t], "diff") /\ Goto(t, "record_diff")
     \/ UNCHANGED written /\ Goto(t, "raised")
  /\ UNCHANGED <<status, reports, defaultProfile, worker, profile, leg, dir, before, clock>>

RecordDiff(t) ==
  /\ pc[t] = "record_diff"
  /\ Record("diff", before[t])
  /\ Goto(t, "done")
  /\ UNCHANGED <<status, defaultProfile, worker, profile, leg, dir, before, written, clock>>

Tick == /\ clock < LastSecond
        /\ clock' = clock + 1
        /\ UNCHANGED <<status, reports, defaultProfile, worker, frames, written>>

ThreadStep(t) == \/ Resolve(t) \/ Scan(t) \/ Fail(t) \/ PickDirectory(t)
                 \/ WriteHtml(t) \/ WriteJson(t) \/ RecordHtml(t) \/ RecordJson(t)
                 \/ Complete(t) \/ WriteDiff(t) \/ RecordDiff(t)

Next == \/ \E r \in DemoRequests : PostDemo(r) \/ StartWorker(r)
        \/ \E d \in DiffRequests : PostDiff(d)
        \/ \E t \in Threads : ThreadStep(t)
        \/ Tick

Spec == Init /\ [][Next]_vars

(* A thread that runs is scheduled; nothing obliges a request to arrive.     *)
FairSpec == Spec /\ \A t \in Threads : WF_vars(ThreadStep(t))

----------------------------------------------------------------------------
(* At most one worker scans at a time, however many POST /demo race.         *)
AtMostOneWorker == Cardinality({r \in DemoRequests : Running(r)}) <= 1

(* A page that sees "complete" finds a report to open, and what /report and  *)
(* the diff serve is never half a scan: both files of its directory exist.   *)
CompleteMeansReport ==
  /\ status = "complete" => reports["html"] # Nowhere /\ reports["json"] # Nowhere
  /\ \A a \in Artifacts : reports[a] # Nowhere => Has(reports[a], "html") /\ Has(reports[a], "json")

(* Demo scans, one after another however fast, never share a directory.      *)
DemoScansPreserved ==
  \A v, w \in {x \in written : x.file # "diff" /\ x.by[1] \in DemoRequests} :
    v.dir = w.dir => v.by = w.by

(* The page polls until the status is complete or failed: a scan that shows  *)
(* as scanning ends, unless its profile does not exist.                      *)
ScanEnds ==
  status = "scanning" ~> \/ status \in {"complete", "failed"}
                         \/ \E t \in Threads : pc[t] = "raised" /\ profile[t] \notin KnownProfiles
=============================================================================
