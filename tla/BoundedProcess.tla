---------------------------- MODULE BoundedProcess ----------------------------
(***************************************************************************)
(* collectors/powershell_process.py: a child process with a deadline and a *)
(* limit on each of its two output streams.                                *)
(*                                                                         *)
(* Four actors share the pipes.  The thread of the scan ("main") writes    *)
(* the request, polls the child and, when the deadline has passed or a     *)
(* stream has outgrown its limit, climbs the ladder of _terminate_tree.    *)
(* Two daemon threads drain stdout and stderr.  The child does what its    *)
(* job says: it may leave its input unread, write more than it should,     *)
(* hang, outlive SIGTERM or SIGKILL, and leave an heir that keeps its      *)
(* pipes open.                                                             *)
(*                                                                         *)
(* Data is counted in units.  Time is an action: the deadline may pass at  *)
(* any moment once it is set, and a wait for a process may run out whenever *)
(* the process has not ended yet.                                          *)
(***************************************************************************)
EXTENDS Integers

CONSTANTS Jobs,      \* the jobs a child may be started for, records of Job
          PipeSize,  \* units a pipe holds
          Chunk,     \* units of _READ_CHUNK
          Cap        \* Cap[s]: max_stdout_bytes, max_stderr_bytes in units

Streams == {"stdout", "stderr"}

\* request: units main writes.  reads: the child reads its input to the end
\* before it answers.  emits: units it writes.  ends: it ends by itself, with
\* code.  dies: the signal it does not survive.  heir: it leaves a process that
\* holds the other ends of the pipes.
Job == [request : Nat, reads : BOOLEAN, emits : [Streams -> Nat], ends : BOOLEAN,
        code : Nat, dies : {"TERM", "KILL", "never"}, heir : BOOLEAN]

ASSUME ProcessAssumption ==
  /\ Jobs \subseteq Job
  /\ PipeSize \in Nat \ {0}
  /\ Chunk \in Nat \ {0}
  /\ Cap \in [Streams -> Nat]

VARIABLES
  job,       \* what the child does, never changed
  main,      \* where the thread of _drain_process is
  joined,    \* whether the two join() calls are behind it
  unsent,    \* units of the request that are not in the pipe yet
  deadline,  \* "unset", "set" or "passed"
  timedOut,  \* timed_out
  signal,    \* the last signal sent to the process group
  child,     \* "running", "ended" by itself or "killed"
  heir,      \* whether another process holds the child's ends of the pipes
  pipe,      \* units in the pipe of each stream
  wrote,     \* units the child has written on each stream
  reader,    \* the two threads: "reading" or "done"
  held,      \* units inside a reader's unfinished read(_READ_CHUNK)
  buf,       \* units in stdout_buf and stderr_buf
  truncated, \* stdout_truncated and stderr_truncated
  result     \* the BridgeProcessResult, once there is one

procVars == <<job, main, joined, unsent, deadline, timedOut, signal, child, heir,
              pipe, wrote, reader, held, buf, truncated, result>>

Pipes == Streams \cup {"stdin"}

NoResult == [exit |-> "none"]

StartedFor(j) ==
  /\ job = j
  /\ main = "write"
  /\ joined = FALSE
  /\ unsent = j.request
  /\ deadline = "unset"
  /\ timedOut = FALSE
  /\ signal = "none"
  /\ child = "running"
  /\ heir = j.heir
  /\ pipe = [p \in Pipes |-> 0]
  /\ wrote = [s \in Streams |-> 0]
  /\ reader = [s \in Streams |-> "reading"]
  /\ held = [s \in Streams |-> 0]
  /\ buf = [s \in Streams |-> 0]
  /\ truncated = [s \in Streams |-> FALSE]
  /\ result = NoResult

-----------------------------------------------------------------------------
(***************************************************************************)
(* The child, its heir and the clock.                                      *)
(***************************************************************************)

EndsAreHeld == child = "running" \/ heir

ChildReads ==
  /\ child = "running" /\ job.reads
  /\ pipe["stdin"] > 0
  /\ pipe' = [pipe EXCEPT !["stdin"] = @ - 1]
  /\ UNCHANGED <<job, main, joined, unsent, deadline, timedOut, signal, child, heir,
                 wrote, reader, held, buf, truncated, result>>

\* stdin is closed when main has left the write, so the end of the input shows
InputIsRead == job.reads => main # "write" /\ pipe["stdin"] = 0

ChildWrites(s) ==
  /\ child = "running" /\ InputIsRead
  /\ wrote[s] < job.emits[s]
  /\ pipe[s] < PipeSize
  /\ pipe' = [pipe EXCEPT ![s] = @ + 1]
  /\ wrote' = [wrote EXCEPT ![s] = @ + 1]
  /\ UNCHANGED <<job, main, joined, unsent, deadline, timedOut, signal, child, heir,
                 reader, held, buf, truncated, result>>

ChildEnds ==
  /\ child = "running" /\ InputIsRead
  /\ job.ends /\ wrote = job.emits
  /\ child' = "ended"
  /\ UNCHANGED <<job, main, joined, unsent, deadline, timedOut, signal, heir, pipe,
                 wrote, reader, held, buf, truncated, result>>

ChildIsKilled ==
  /\ child = "running"
  /\ \/ signal = "TERM" /\ job.dies = "TERM"
     \/ signal = "KILL" /\ job.dies \in {"TERM", "KILL"}
  /\ child' = "killed"
  /\ UNCHANGED <<job, main, joined, unsent, deadline, timedOut, signal, heir, pipe,
                 wrote, reader, held, buf, truncated, result>>

HeirEnds ==
  /\ heir /\ child # "running"
  /\ heir' = FALSE
  /\ UNCHANGED <<job, main, joined, unsent, deadline, timedOut, signal, child, pipe,
                 wrote, reader, held, buf, truncated, result>>

DeadlinePasses ==
  /\ deadline = "set"
  /\ deadline' = "passed"
  /\ UNCHANGED <<job, main, joined, unsent, timedOut, signal, child, heir, pipe,
                 wrote, reader, held, buf, truncated, result>>

-----------------------------------------------------------------------------
(***************************************************************************)
(* The reader threads: _read_stream.                                       *)
(***************************************************************************)

\* The buffered read(_READ_CHUNK) goes on until it has a chunk or the stream ends.
Fetch(s) ==
  /\ reader[s] = "reading"
  /\ pipe[s] > 0 /\ held[s] < Chunk
  /\ pipe' = [pipe EXCEPT ![s] = @ - 1]
  /\ held' = [held EXCEPT ![s] = @ + 1]
  /\ UNCHANGED <<job, main, joined, unsent, deadline, timedOut, signal, child, heir,
                 wrote, reader, buf, truncated, result>>

StreamEnded(s) == pipe[s] = 0 /\ ~EndsAreHeld

\* Mutant of Deliver: a buffer that is exactly full counts as cut
DeliverFlagsFull(s) ==
  /\ reader[s] = "reading"
  /\ held[s] > 0
  /\ held[s] = Chunk \/ StreamEnded(s)
  /\ LET room == Cap[s] - buf[s]
     IN  IF held[s] >= room
         THEN /\ buf' = [buf EXCEPT ![s] = Cap[s]]
              /\ truncated' = [truncated EXCEPT ![s] = TRUE]
              /\ reader' = [reader EXCEPT ![s] = "done"]
         ELSE /\ buf' = [buf EXCEPT ![s] = @ + held[s]]
              /\ UNCHANGED <<truncated, reader>>
  /\ held' = [held EXCEPT ![s] = 0]
  /\ UNCHANGED <<job, main, joined, unsent, deadline, timedOut, signal, child, heir,
                 pipe, wrote, result>>

\* A chunk that does not fit is cut, flagged, and the last one that is read.
Deliver(s) ==
  /\ reader[s] = "reading"
  /\ held[s] > 0
  /\ held[s] = Chunk \/ StreamEnded(s)
  /\ LET room == Cap[s] - buf[s]
     IN  IF held[s] > room
         THEN /\ buf' = [buf EXCEPT ![s] = Cap[s]]
              /\ truncated' = [truncated EXCEPT ![s] = TRUE]
              /\ reader' = [reader EXCEPT ![s] = "done"]
         ELSE /\ buf' = [buf EXCEPT ![s] = @ + held[s]]
              /\ UNCHANGED <<truncated, reader>>
  /\ held' = [held EXCEPT ![s] = 0]
  /\ UNCHANGED <<job, main, joined, unsent, deadline, timedOut, signal, child, heir,
                 pipe, wrote, result>>

EndOfStream(s) ==
  /\ reader[s] = "reading"
  /\ held[s] = 0 /\ StreamEnded(s)
  /\ reader' = [reader EXCEPT ![s] = "done"]
  /\ UNCHANGED <<job, main, joined, unsent, deadline, timedOut, signal, child, heir,
                 pipe, wrote, held, buf, truncated, result>>

Reader(s) == Fetch(s) \/ Deliver(s) \/ EndOfStream(s)

\* The reader waits for data that nobody has written.
Starved(s) == reader[s] = "reading" /\ pipe[s] = 0 /\ held[s] < Chunk /\ EndsAreHeld

-----------------------------------------------------------------------------
(***************************************************************************)
(* The thread of _drain_process.  None of its steps touches what the child *)
(* and the readers own.                                                    *)
(***************************************************************************)

OthersUnchanged == UNCHANGED <<job, child, heir, wrote, reader, held, buf, truncated>>

\* proc.stdin.write: blocks while the pipe is full and somebody may read it.
WriteRequest ==
  /\ main = "write"
  /\ unsent > 0 /\ EndsAreHeld /\ pipe["stdin"] < PipeSize
  /\ unsent' = unsent - 1
  /\ pipe' = [pipe EXCEPT !["stdin"] = @ + 1]
  /\ OthersUnchanged
  /\ UNCHANGED <<main, joined, deadline, timedOut, signal, result>>

\* All written and stdin closed, or BrokenPipeError.  Only now does the
\* deadline exist.
StartClock ==
  /\ main = "write"
  /\ unsent = 0 \/ ~EndsAreHeld
  /\ deadline' = "set"
  /\ main' = "poll"
  /\ OthersUnchanged
  /\ UNCHANGED <<joined, unsent, timedOut, signal, pipe, result>>

Poll ==
  /\ main = "poll"
  /\ main' = IF child = "running" THEN "check" ELSE "join"
  /\ OthersUnchanged
  /\ UNCHANGED <<joined, unsent, deadline, timedOut, signal, pipe, result>>

\* Mutant of Check: whatever ends the loop is called a timeout
CheckBlamesTheClock ==
  /\ main = "check"
  /\ timedOut' = (deadline = "passed" \/ \E s \in Streams : truncated[s])
  /\ main' = IF timedOut' THEN "term" ELSE "poll"
  /\ OthersUnchanged
  /\ UNCHANGED <<joined, unsent, deadline, signal, pipe, result>>

\* The body of the loop: the deadline first, the flags of the readers after it.
Check ==
  /\ main = "check"
  /\ timedOut' = (deadline = "passed")
  /\ main' = IF timedOut' \/ \E s \in Streams : truncated[s] THEN "term" ELSE "poll"
  /\ OthersUnchanged
  /\ UNCHANGED <<joined, unsent, deadline, signal, pipe, result>>

\* Where _terminate_tree returns to.
Resume == IF joined THEN "wait" ELSE "join"

\* _terminate_tree: nothing for a child that has ended, SIGTERM for another.
Terminate ==
  /\ main = "term"
  /\ IF child = "running"
     THEN signal' = "TERM" /\ main' = "grace"
     ELSE UNCHANGED signal /\ main' = Resume
  /\ OthersUnchanged
  /\ UNCHANGED <<joined, unsent, deadline, timedOut, pipe, result>>

\* The first wait sees the end of the child, or runs out and sends SIGKILL.
Grace ==
  /\ main = "grace"
  /\ IF child = "running"
     THEN signal' = "KILL" /\ main' = "kill"
     ELSE UNCHANGED signal /\ main' = Resume
  /\ OthersUnchanged
  /\ UNCHANGED <<joined, unsent, deadline, timedOut, pipe, result>>

\* The second wait may run out too: the ladder ends either way.
GiveUp ==
  /\ main = "kill"
  /\ main' = Resume
  /\ OthersUnchanged
  /\ UNCHANGED <<joined, unsent, deadline, timedOut, signal, pipe, result>>

\* Mutant of Join: without a timeout
JoinForEver ==
  /\ main = "join"
  /\ \A s \in Streams : reader[s] = "done"
  /\ joined' = TRUE
  /\ main' = "collect"
  /\ OthersUnchanged
  /\ UNCHANGED <<unsent, deadline, timedOut, signal, pipe, result>>

\* join(timeout=1.0) of both threads.  A second is enough to drain what the
\* pipes hold: it runs out for a thread that waits for data nobody writes.
Join ==
  /\ main = "join"
  /\ \A s \in Streams : reader[s] = "done" \/ Starved(s)
  /\ joined' = TRUE
  /\ main' = "collect"
  /\ OthersUnchanged
  /\ UNCHANGED <<unsent, deadline, timedOut, signal, pipe, result>>

\* What the caller is given, the buffers as they are now.
Return ==
  /\ main' = "returned"
  /\ result' = [exit |-> IF child = "ended" THEN job.code ELSE -1,
                timedOut |-> timedOut, truncated |-> truncated, bytes |-> buf]

\* Mutant of Collect: a child without an exit code is not waited for
CollectAnyway ==
  /\ main = "collect"
  /\ Return
  /\ OthersUnchanged
  /\ UNCHANGED <<joined, unsent, deadline, timedOut, signal, pipe>>

Collect ==
  /\ main = "collect"
  /\ IF child = "running" THEN main' = "term" /\ UNCHANGED result ELSE Return
  /\ OthersUnchanged
  /\ UNCHANGED <<joined, unsent, deadline, timedOut, signal, pipe>>

\* proc.wait(timeout=2.0): for a child nothing ends, TimeoutExpired leaves run().
Wait ==
  /\ main = "wait"
  /\ IF child = "running" THEN main' = "raised" /\ UNCHANGED result ELSE Return
  /\ OthersUnchanged
  /\ UNCHANGED <<joined, unsent, deadline, timedOut, signal, pipe>>

Main == \/ WriteRequest \/ StartClock \/ Poll \/ Check
        \/ Terminate \/ Grace \/ GiveUp \/ Join \/ Collect \/ Wait

Child == \/ ChildReads \/ ChildEnds \/ ChildIsKilled \/ HeirEnds
         \/ \E s \in Streams : ChildWrites(s)

Process == \/ Main \/ Child \/ DeadlinePasses
           \/ \E s \in Streams : Reader(s)
=============================================================================
