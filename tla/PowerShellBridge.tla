--------------------------- MODULE PowerShellBridge ---------------------------
(***************************************************************************)
(* One call of invoke_powershell_adapter from end to end: the guards of    *)
(* collectors/powershell.py, the child process (BoundedProcess), what the  *)
(* entry script powershell/.../Invoke-LicenseLensBridge.ps1 makes of the   *)
(* adapter it hosts, and the envelope collectors/powershell_result.py      *)
(* reads off the finished process.                                         *)
(***************************************************************************)
EXTENDS BoundedProcess, EvidenceHealth

CONSTANTS Calls  \* the calls that are made, records of Call

\* What the guards look at: the cloud, whether the module with its entry script
\* and the adapter in it exist, whether there is a PowerShell, and whether the
\* encoded request stays below max_stdin_bytes.
Call == [cloud : {"public", "national"}, module : BOOLEAN, adapter : BOOLEAN,
         executable : BOOLEAN, fits : BOOLEAN]

ASSUME CallAssumption == Calls \subseteq Call

VARIABLES
  call,      \* the request
  fate,      \* how the adapter ended inside the child, once its answer is read
  phase,     \* "guards", "running", "done" or "raised"
  envelope   \* the EvidenceEnvelope, once there is one

vars == <<procVars, call, fate, phase, envelope>>

-----------------------------------------------------------------------------
(***************************************************************************)
(* The entry script.  An adapter returns data or throws an exception with  *)
(* one of the codes of New-LicenseLensAdapterError or with none; two more  *)
(* fates are PowerShell's own: "noise" is output that is no JSON object    *)
(* (a module that writes to the host), "late_crash" an answer followed by  *)
(* an exit code other than the script's.                                   *)
(***************************************************************************)

Thrown == {"denied", "disconnected", "unavailable", "unsupported",
           "module_missing", "adapter_failed"}

Fates == Thrown \cup {"data", "noise", "late_crash"}

\* error.code of the response: the catch block renames a lost session
ErrorCode(f) ==
  CASE f = "disconnected" -> "unavailable"
    [] f \in Thrown \ {"disconnected"} -> f
    [] OTHER -> "none"

\* typed failures exit 0, so that error.code counts and not the exit code
ExitCode(f) ==
  IF f = "late_crash" \/ (f \in Thrown /\ ErrorCode(f) = "adapter_failed") THEN 1 ELSE 0

-----------------------------------------------------------------------------
(***************************************************************************)
(* The Python side.                                                        *)
(***************************************************************************)

Envelope(h, r) == [health |-> h, reason |-> r]

NoEnvelope == Envelope("missing", "")

\* The guards of invoke_powershell_adapter, in their order.
Refusal(c) ==
  IF c.cloud # "public" THEN Envelope("unsupported", "unsupported cloud")
  ELSE IF ~c.module     THEN Envelope("unavailable", "module not found")
  ELSE IF ~c.adapter    THEN Envelope("error", "adapter not allowlisted")
  ELSE IF ~c.executable THEN Envelope("unavailable", "executable not found")
  ELSE IF ~c.fits       THEN Envelope("error", "exceeded stdin cap")
  ELSE NoEnvelope

Admitted(c) == Refusal(c) = NoEnvelope

\* _map_parsed_payload, for a response of the script's own protocol version
MapParsedPayload(f) ==
  LET code == ErrorCode(f)
  IN  CASE f \in {"data", "late_crash"} -> Envelope("ok", "")
        [] code = "denied" -> Envelope("denied", code)
        [] code = "unsupported" -> Envelope("unsupported", code)
        [] code \in {"module_missing", "unavailable"} -> Envelope("unavailable", code)
        [] OTHER -> Envelope("error", code)

\* A part of a JSON object is no JSON, and nor is noise.
Parses(r, f) == f # "noise" /\ r.bytes["stdout"] = job.emits["stdout"]

\* Mutant of MapProcessResult: the exit code is not looked at
MapAnyExit(r, f) ==
  IF r.timedOut THEN Envelope("error", "timed out")
  ELSE IF \E s \in Streams : r.truncated[s] THEN Envelope("error", "exceeded cap")
  ELSE IF ~Parses(r, f) THEN Envelope("error", "malformed JSON")
  ELSE MapParsedPayload(f)

MapProcessResult(r, f) ==
  IF r.timedOut THEN Envelope("error", "timed out")
  ELSE IF \E s \in Streams : r.truncated[s] THEN Envelope("error", "exceeded cap")
  ELSE IF r.exit # 0 THEN Envelope("error", "nonzero exit")
  ELSE IF ~Parses(r, f) THEN Envelope("error", "malformed JSON")
  ELSE MapParsedPayload(f)

-----------------------------------------------------------------------------
Init ==
  /\ \E j \in Jobs : StartedFor(j)
  /\ call \in Calls
  /\ fate = "unread"
  /\ phase = "guards"
  /\ envelope = NoEnvelope

Refuse ==
  /\ phase = "guards" /\ ~Admitted(call)
  /\ envelope' = Refusal(call)
  /\ phase' = "done"
  /\ UNCHANGED <<procVars, call, fate>>

Start ==
  /\ phase = "guards" /\ Admitted(call)
  /\ phase' = "running"
  /\ UNCHANGED <<procVars, call, fate, envelope>>

Running(step) == phase = "running" /\ step /\ UNCHANGED <<call, fate, phase, envelope>>

Run == Running(Process)

\* The answer is looked at here and nowhere before, so its content is chosen
\* here: any that goes with the exit code.
Map ==
  /\ phase = "running" /\ main = "returned"
  /\ \E f \in Fates :
       /\ ExitCode(f) = job.code
       /\ fate' = f
       /\ envelope' = MapProcessResult(result, f)
  /\ phase' = "done"
  /\ UNCHANGED <<procVars, call>>

\* TimeoutExpired is nobody's here: the planner makes an error envelope of it.
Escape ==
  /\ phase = "running" /\ main = "raised"
  /\ phase' = "raised"
  /\ UNCHANGED <<procVars, call, fate, envelope>>

Next == Refuse \/ Start \/ Run \/ Map \/ Escape

Spec == Init /\ [][Next]_vars

\* The calling thread goes on, and so do the clock, the readers and a child that
\* reads its input.  Nothing else is asked of the child, nothing of its heir.
Fairness ==
  /\ WF_vars(Refuse \/ Start \/ Map \/ Escape \/ Running(Main))
  /\ WF_vars(Running(DeadlinePasses))
  /\ WF_vars(Running(ChildReads))
  /\ \A s \in Streams : WF_vars(Running(Reader(s)))

FairSpec == Spec /\ Fairness

-----------------------------------------------------------------------------
\* What the response says of each fate, the reference for the whole round trip.
HealthOfFate(f) ==
  CASE f = "data" -> "ok"
    [] f = "denied" -> "denied"
    [] f = "unsupported" -> "unsupported"
    [] f \in {"disconnected", "unavailable", "module_missing"} -> "unavailable"
    [] OTHER -> "error"

Answered == phase = "done" /\ Admitted(call)

\* A healthy or typed envelope tells what the adapter did, and comes from a child
\* that ended by itself, was not cut and had its whole answer read: no prefix of
\* an answer, no answer of a killed child and no answer contradicted by the exit
\* code gets past _drain_process and map_process_result.
TypedAnswerIsWhole ==
  Answered /\ envelope.health # "error" =>
    /\ envelope.health = HealthOfFate(fate)
    /\ child = "ended"
    /\ result.bytes["stdout"] = job.emits["stdout"]

\* An error names the limit that was hit: the deadline really passed, a stream
\* really outgrew its cap, the exit code is the child's own and never the signal
\* _terminate_tree sent.  The readers' flags, the clock and the end of the child
\* are looked at by one loop in whatever order they happen.
ReasonNamesItsCause ==
  Answered =>
    CASE envelope.reason = "timed out" -> deadline = "passed"
      [] envelope.reason = "exceeded cap" ->
           ~timedOut /\ \E s \in Streams : wrote[s] > Cap[s]
      [] envelope.reason = "nonzero exit" -> child = "ended" /\ job.code # 0
      [] envelope.reason = "malformed JSON" -> fate = "noise" \/ job.heir
      [] OTHER -> TRUE

\* A child that ended by itself in time, wrote no more than the caps and left no
\* heir gets its answer through, an answer of exactly the cap included.
AnswerIsNotLost ==
  Answered /\ ~timedOut /\ child = "ended" /\ ~job.heir
           /\ (\A s \in Streams : wrote[s] <= Cap[s])
    => envelope.health = HealthOfFate(fate)

\* run() gives a result only of a child that has ended: an envelope never leaves a
\* collector process behind it, however the signals and the waits interleave.
NoChildIsLeftBehind == Answered => child # "running"

\* Every call ends, whatever the child does: hangs, floods both streams, ignores
\* SIGTERM, survives SIGKILL or leaves an heir on its pipes.  The request must fit
\* the pipe or be read: main writes it before it looks at the clock.
CallEnds ==
  (job.request <= PipeSize \/ job.reads) => <>(phase \in {"done", "raised"})
=============================================================================
