-------------------------- MODULE EvidencePath_proof --------------------------
(***************************************************************************)
(* The path of the evidence, from the child process that reads it to the   *)
(* verdict: an envelope tells the truth of the child it was made from, for *)
(* any sizes of pipes, chunks and caps, any job and any interleaving of    *)
(* the four actors (PowerShellBridge); and what a read or a whole call     *)
(* loses is missing from the payload, from the bundle, and is not judged,  *)
(* for any checks, tenants, options and losses (PolicyScan).               *)
(***************************************************************************)
EXTENDS PowerShellBridge, PolicyScan, TLAPS

\* Something made main call the child off.
Cut == timedOut \/ \E s \in Streams : truncated[s]

\* The shape of the state.
Shape == /\ job \in Jobs
         /\ main \in {"write", "poll", "check", "term", "grace", "kill", "join", "collect",
                      "wait", "returned", "raised"}
         /\ child \in {"running", "ended", "killed"}
         /\ pipe \in [Pipes -> Nat]
         /\ wrote \in [Streams -> Nat]
         /\ reader \in [Streams -> {"reading", "done"}]
         /\ held \in [Streams -> Nat]
         /\ buf \in [Streams -> Nat]
         /\ truncated \in [Streams -> BOOLEAN]

\* Nothing gets lost between the child and a buffer that was not cut, and only
\* what outgrows its cap is cut; a reader that is done has read it all.
Flow(s) ==
  /\ ~truncated[s] => wrote[s] = buf[s] + held[s] + pipe[s]
  /\ truncated[s] => wrote[s] > Cap[s] /\ reader[s] = "done"
  /\ reader[s] = "done" /\ ~truncated[s] => held[s] = 0 /\ StreamEnded(s)
NothingIsLost == \A s \in Streams : Flow(s)

\* Who ends the child, and what it has done by then.
ChildIsConsistent ==
  /\ child = "ended" => \A s \in Streams : wrote[s] = job.emits[s]
  /\ child = "killed" => signal # "none"
  /\ signal # "none" => Cut
  /\ ~job.heir => ~heir

\* What main may rely on where it is.
MainKnows ==
  /\ timedOut => deadline = "passed"
  /\ main \in {"write", "poll", "check"} => ~timedOut
  /\ main \in {"write", "poll", "check", "join"} => ~joined
  /\ main \in {"term", "grace", "kill"} => Cut
  /\ main = "join" => Cut \/ child # "running"
  /\ joined => Cut \/ (child # "running" /\ (job.heir \/ \A s \in Streams : reader[s] = "done"))
  /\ main \in {"collect", "wait", "returned", "raised"} => joined

\* What run() returns.
ResultTells ==
  main = "returned" =>
    /\ child # "running"
    /\ result.exit = IF child = "ended" THEN job.code ELSE -1
    /\ result.timedOut <=> timedOut
    /\ \A s \in Streams : result.truncated[s] => wrote[s] > Cap[s]
    /\ \/ result.timedOut
       \/ \E s \in Streams : result.truncated[s]
       \/ /\ child = "ended"
          /\ job.heir \/ \A s \in Streams : result.bytes[s] = job.emits[s]

ProcessInv == Shape /\ NothingIsLost /\ ChildIsConsistent /\ MainKnows /\ ResultTells

\* The envelope of an admitted call is made of the result.
EnvelopeIsMapped ==
  Answered => /\ main = "returned"
              /\ fate \in Fates /\ ExitCode(fate) = job.code
              /\ envelope = MapProcessResult(result, fate)

BridgeInv == ProcessInv /\ EnvelopeIsMapped

-----------------------------------------------------------------------------
(* The process.                                                             *)

\* A job's exit code and output.
LEMMA JobFacts ==
  ASSUME Shape
  PROVE  /\ job.code \in Nat /\ job.emits \in [Streams -> Nat]
         /\ \A s \in Streams : Cap[s] \in Nat
BY ProcessAssumption DEF Shape, Job

\* Main's own steps keep what it knows, and leave the others alone.
LEMMA MainKeepsShapes ==
  ASSUME ProcessInv, Main
  PROVE  /\ Shape' /\ NothingIsLost'
         /\ UNCHANGED <<job, child, heir, wrote, reader, held, buf, truncated>>
<1>1. UNCHANGED <<job, child, heir, wrote, reader, held, buf, truncated>>
  BY DEF Main, WriteRequest, StartClock, Poll, Check, Terminate, Grace, GiveUp, Join, Collect,
         Wait, OthersUnchanged
<1>2. pipe' \in [Pipes -> Nat] /\ \A s \in Streams : pipe'[s] = pipe[s]
  <2>1. CASE pipe' = pipe
    BY <2>1 DEF ProcessInv, Shape
  <2>2. CASE pipe' = [pipe EXCEPT !["stdin"] = @ + 1]
    BY <2>2 DEF ProcessInv, Shape, Pipes, Streams
  <2> QED
    BY <2>1, <2>2 DEF Main, WriteRequest, StartClock, Poll, Check, Terminate, Grace, GiveUp,
                      Join, Collect, Wait
<1>3. main' \in {"write", "poll", "check", "term", "grace", "kill", "join", "collect",
                 "wait", "returned", "raised"}
  BY DEF Main, WriteRequest, StartClock, Poll, Check, Terminate, Grace, GiveUp, Join, Collect,
         Wait, Return, Resume, ProcessInv, Shape
<1>4. Shape'
  BY <1>1, <1>2, <1>3 DEF ProcessInv, Shape
<1>5. NothingIsLost'
  BY <1>1, <1>2 DEF ProcessInv, NothingIsLost, Flow, StreamEnded, EndsAreHeld
<1> QED
  BY <1>1, <1>4, <1>5

\* A result, made of a child that has ended and of buffers that are full or whole.
LEMMA ReturnTells ==
  ASSUME ProcessInv, Return, joined, child # "running",
         UNCHANGED <<job, child, wrote, timedOut>>
  PROVE  ResultTells'
<1>1. /\ result'.exit = IF child = "ended" THEN job.code ELSE -1
      /\ result'.timedOut = timedOut /\ result'.truncated = truncated /\ result'.bytes = buf
  BY DEF Return
<1>2. \A s \in Streams : truncated[s] => wrote[s] > Cap[s]
  BY DEF ProcessInv, NothingIsLost, Flow
<1>3. Cut \/ (child = "ended" /\ (job.heir \/ \A s \in Streams : buf[s] = job.emits[s]))
  <2> SUFFICES ASSUME ~Cut, ~job.heir
               PROVE  child = "ended" /\ \A s \in Streams : buf[s] = job.emits[s]
    BY DEF ProcessInv, MainKnows, ChildIsConsistent, Shape
  <2>1. child = "ended"
    BY DEF ProcessInv, ChildIsConsistent, Shape
  <2>2. ASSUME NEW s \in Streams PROVE buf[s] = job.emits[s]
    <3>1. reader[s] = "done" /\ ~truncated[s]
      BY DEF ProcessInv, MainKnows, Cut
    <3>2. wrote[s] = buf[s] + held[s] + pipe[s] /\ held[s] = 0 /\ pipe[s] = 0
      BY <3>1 DEF ProcessInv, NothingIsLost, Flow, StreamEnded
    <3>3. wrote[s] = job.emits[s] /\ buf[s] \in Nat
      BY <2>1 DEF ProcessInv, ChildIsConsistent, Shape
    <3> QED
      BY <3>2, <3>3
  <2> QED
    BY <2>1, <2>2
<1> QED
  BY <1>1, <1>2, <1>3 DEF ResultTells, Cut

\* Every step of main.
LEMMA MainKeepsInv ==
  ASSUME ProcessInv, Main
  PROVE  ProcessInv'
<1>1. /\ Shape' /\ NothingIsLost'
      /\ UNCHANGED <<job, child, heir, wrote, reader, held, buf, truncated>>
  BY MainKeepsShapes
<1> DEFINE Rest == MainKnows' /\ ChildIsConsistent' /\ ResultTells'
<1>2. CASE WriteRequest
  <2>1. main = "write" /\ UNCHANGED <<main, joined, deadline, timedOut, signal, result>>
    BY <1>2 DEF WriteRequest
  <2> QED
    BY <1>1, <2>1 DEF ProcessInv, MainKnows, ChildIsConsistent, ResultTells, Cut
<1>3. CASE StartClock
  <2>1. main = "write" /\ main' = "poll" /\ UNCHANGED <<joined, timedOut, signal, result>>
    BY <1>3 DEF StartClock
  <2> QED
    BY <1>1, <2>1 DEF ProcessInv, MainKnows, ChildIsConsistent, ResultTells, Cut
<1>4. CASE Poll
  <2>1. /\ main = "poll" /\ main' \in {"check", "join"}
        /\ main' = "join" => child # "running"
        /\ UNCHANGED <<joined, deadline, timedOut, signal, result>>
    BY <1>4 DEF Poll
  <2> QED
    BY <1>1, <2>1 DEF ProcessInv, MainKnows, ChildIsConsistent, ResultTells, Cut
<1>5. CASE Check
  <2>1. /\ main = "check" /\ main' \in {"term", "poll"}
        /\ timedOut' <=> deadline = "passed"
        /\ main' = "term" => timedOut' \/ \E s \in Streams : truncated[s]
        /\ main' = "poll" => ~timedOut'
        /\ UNCHANGED <<joined, deadline, signal, result>>
    BY <1>5 DEF Check
  <2>2. ~timedOut /\ ~joined
    BY <2>1 DEF ProcessInv, MainKnows
  <2>3. Cut => Cut'
    BY <1>1, <2>2 DEF Cut
  <2>4. MainKnows'
    BY <1>1, <2>1, <2>2 DEF MainKnows, Cut
  <2>5. ChildIsConsistent'
    BY <1>1, <2>1, <2>3 DEF ProcessInv, ChildIsConsistent
  <2> QED
    BY <1>1, <2>1, <2>4, <2>5 DEF ProcessInv, ResultTells
<1>6. CASE Terminate \/ Grace \/ GiveUp
  <2>1. /\ main \in {"term", "grace", "kill"}
        /\ main' \in {"grace", "kill", "wait", "join"}
        /\ main' = "wait" => joined
        /\ main' = "join" => ~joined
        /\ UNCHANGED <<joined, deadline, timedOut, result>>
    BY <1>6 DEF Terminate, Grace, GiveUp, Resume
  <2>2. Cut /\ Cut'
    BY <1>1, <2>1 DEF ProcessInv, MainKnows, Cut
  <2>3. child = "killed" => signal' # "none"
    BY <1>1, <1>6 DEF ProcessInv, ChildIsConsistent, Terminate, Grace, GiveUp
  <2> QED
    BY <1>1, <2>1, <2>2, <2>3 DEF ProcessInv, MainKnows, ChildIsConsistent, ResultTells
<1>7. CASE Join
  <2>1. /\ main = "join" /\ main' = "collect" /\ joined'
        /\ \A s \in Streams : reader[s] = "done" \/ Starved(s)
        /\ UNCHANGED <<deadline, timedOut, signal, result>>
    BY <1>7 DEF Join
  <2>2. child # "running" /\ ~job.heir => \A s \in Streams : reader[s] = "done"
    BY <2>1 DEF Starved, EndsAreHeld, ProcessInv, ChildIsConsistent
  <2> QED
    BY <1>1, <2>1, <2>2 DEF ProcessInv, MainKnows, ChildIsConsistent, ResultTells, Cut
<1>8. CASE Collect \/ Wait
  <2>1. main \in {"collect", "wait"} /\ UNCHANGED <<joined, deadline, timedOut, signal>>
    BY <1>8 DEF Collect, Wait
  <2>2. joined /\ (Cut' <=> Cut)
    BY <1>1, <2>1 DEF ProcessInv, MainKnows, Cut
  <2>3. ChildIsConsistent'
    BY <1>1, <2>1, <2>2 DEF ProcessInv, ChildIsConsistent
  <2>4. CASE child = "running"
    <3>1. main' \in {"term", "raised"}
      BY <1>8, <2>4 DEF Collect, Wait
    <3>2. Cut
      BY <2>2, <2>4 DEF ProcessInv, MainKnows
    <3> QED
      BY <1>1, <2>1, <2>2, <2>3, <3>1, <3>2 DEF ProcessInv, MainKnows, ResultTells
  <2>5. CASE child # "running"
    <3>1. Return
      BY <1>8, <2>5 DEF Collect, Wait
    <3>2. main' = "returned"
      BY <3>1 DEF Return
    <3>3. ResultTells'
      BY <1>1, <2>1, <2>2, <2>5, <3>1, ReturnTells
    <3>4. MainKnows'
      BY <1>1, <2>1, <2>2, <3>2 DEF ProcessInv, MainKnows
    <3> QED
      BY <1>1, <2>3, <3>3, <3>4 DEF ProcessInv
  <2> QED
    BY <2>4, <2>5
<1> QED
  BY <1>2, <1>3, <1>4, <1>5, <1>6, <1>7, <1>8 DEF Main

\* The child and its heir do nothing once the child has ended, but go.
LEMMA ChildKeepsInv ==
  ASSUME ProcessInv, Child
  PROVE  ProcessInv'
<1>1. UNCHANGED <<job, main, joined, deadline, timedOut, signal, reader, held, buf, truncated,
                  result>>
  BY DEF Child, ChildReads, ChildEnds, ChildIsKilled, HeirEnds, ChildWrites
<1>2. Cut' <=> Cut
  BY <1>1 DEF Cut
<1>3. CASE ChildReads
  <2>1. /\ pipe["stdin"] > 0 /\ pipe' = [pipe EXCEPT !["stdin"] = @ - 1]
        /\ UNCHANGED <<child, heir, wrote>>
    BY <1>3 DEF ChildReads
  <2>2. pipe' \in [Pipes -> Nat] /\ \A s \in Streams : pipe'[s] = pipe[s]
    <3>1. pipe \in [Pipes -> Nat] /\ pipe["stdin"] - 1 \in Nat
      BY <2>1 DEF ProcessInv, Shape, Pipes
    <3> QED
      BY <2>1, <3>1 DEF Pipes, Streams
  <2>3. Shape' /\ NothingIsLost'
    BY <1>1, <2>1, <2>2 DEF ProcessInv, Shape, NothingIsLost, Flow, StreamEnded, EndsAreHeld
  <2> QED
    BY <1>1, <1>2, <2>1, <2>3 DEF ProcessInv, ChildIsConsistent, MainKnows, ResultTells
<1>4. ASSUME NEW t \in Streams, ChildWrites(t)
      PROVE  ProcessInv'
  <2>1. /\ child = "running"
        /\ pipe' = [pipe EXCEPT ![t] = @ + 1] /\ wrote' = [wrote EXCEPT ![t] = @ + 1]
        /\ UNCHANGED <<child, heir>>
    BY <1>4 DEF ChildWrites
  <2>2. Shape'
    BY <1>1, <2>1 DEF ProcessInv, Shape, Pipes
  <2>3. ASSUME NEW s \in Streams PROVE Flow(s)'
    <3>1. Flow(s) /\ EndsAreHeld
      BY <2>1 DEF ProcessInv, NothingIsLost, EndsAreHeld
    <3>2. pipe[s] \in Nat /\ wrote[s] \in Nat /\ held[s] \in Nat /\ buf[s] \in Nat /\ Cap[s] \in Nat
      BY JobFacts DEF ProcessInv, Shape, Pipes
    <3>3. /\ pipe'[s] = IF s = t THEN pipe[s] + 1 ELSE pipe[s]
          /\ wrote'[s] = IF s = t THEN wrote[s] + 1 ELSE wrote[s]
      BY <2>1 DEF ProcessInv, Shape, Pipes
    <3>4. reader[s] = "done" => truncated[s]
      BY <3>1 DEF Flow, StreamEnded
    <3>5. /\ ~truncated[s] => wrote'[s] = buf[s] + held[s] + pipe'[s]
          /\ truncated[s] => wrote'[s] > Cap[s]
      <4>1. ~truncated[s] => wrote[s] = buf[s] + held[s] + pipe[s]
        BY <3>1 DEF Flow
      <4>2. truncated[s] => wrote[s] > Cap[s]
        BY <3>1 DEF Flow
      <4>3. CASE s = t
        <5>1. pipe'[s] = pipe[s] + 1 /\ wrote'[s] = wrote[s] + 1
          BY <3>3, <4>3
        <5> QED
          BY <3>2, <4>1, <4>2, <5>1
      <4>4. CASE s # t
        BY <3>3, <4>1, <4>2, <4>4
      <4> QED
        BY <4>3, <4>4
    <3> QED
      BY <1>1, <3>1, <3>4, <3>5 DEF Flow
  <2> QED
    BY <1>1, <1>2, <2>1, <2>2, <2>3
       DEF ProcessInv, NothingIsLost, ChildIsConsistent, MainKnows, ResultTells
<1>5. CASE ChildEnds \/ ChildIsKilled \/ HeirEnds
  <2>1. /\ UNCHANGED <<pipe, wrote>>
        /\ child' \in {"running", "ended", "killed"}
        /\ child' = "running" => child = "running"
        /\ child # "running" => child' = child
        /\ child' = "ended" => child = "ended" \/ wrote = job.emits
        /\ child' = "killed" => child = "killed" \/ signal # "none"
        /\ heir' => heir
    BY <1>5 DEF ChildEnds, ChildIsKilled, HeirEnds, ProcessInv, Shape
  <2>2. Shape' /\ NothingIsLost'
    BY <1>1, <2>1 DEF ProcessInv, Shape, NothingIsLost, Flow, StreamEnded, EndsAreHeld
  <2>3. ChildIsConsistent' /\ MainKnows'
    BY <1>1, <1>2, <2>1 DEF ProcessInv, ChildIsConsistent, MainKnows
  <2>4. ResultTells'
    BY <1>1, <2>1 DEF ProcessInv, ResultTells
  <2> QED
    BY <2>2, <2>3, <2>4 DEF ProcessInv
<1> QED
  BY <1>3, <1>4, <1>5 DEF Child

\* A reader moves what is there, or finds that there is no more.
LEMMA ReaderKeepsInv ==
  ASSUME ProcessInv, NEW t \in Streams, Reader(t)
  PROVE  ProcessInv'
<1>1. UNCHANGED <<job, main, joined, deadline, timedOut, signal, child, heir, wrote, result>>
  BY DEF Reader, Fetch, Deliver, EndOfStream
<1>2. reader[t] = "reading"
  BY DEF Reader, Fetch, Deliver, EndOfStream
<1>3. /\ pipe \in [Pipes -> Nat] /\ held \in [Streams -> Nat] /\ buf \in [Streams -> Nat]
      /\ truncated \in [Streams -> BOOLEAN] /\ reader \in [Streams -> {"reading", "done"}]
      /\ wrote \in [Streams -> Nat]
  BY DEF ProcessInv, Shape
<1>4. /\ pipe[t] \in Nat /\ held[t] \in Nat /\ buf[t] \in Nat /\ wrote[t] \in Nat
      /\ Cap[t] \in Nat
  BY <1>3, JobFacts DEF ProcessInv, Pipes
<1>5. ~truncated[t] /\ wrote[t] = buf[t] + held[t] + pipe[t]
  BY <1>2 DEF ProcessInv, NothingIsLost, Flow
<1>6. ASSUME Shape', Flow(t)',
             \A s \in Streams \ {t} : /\ pipe'[s] = pipe[s] /\ held'[s] = held[s]
                                      /\ buf'[s] = buf[s] /\ reader'[s] = reader[s]
                                      /\ truncated'[s] <=> truncated[s],
             reader'[t] = reader[t] \/ reader'[t] = "done"
      PROVE  ProcessInv'
  <2>1. \A s \in Streams \ {t} : Flow(s)'
    BY <1>1, <1>6 DEF ProcessInv, NothingIsLost, Flow, StreamEnded, EndsAreHeld
  <2>2. NothingIsLost'
    BY <1>6, <2>1 DEF NothingIsLost
  <2>3. Cut => Cut'
    BY <1>1, <1>5, <1>6 DEF Cut
  <2>4. \A s \in Streams : reader[s] = "done" => reader'[s] = "done"
    BY <1>6
  <2>5. MainKnows' /\ ChildIsConsistent'
    BY <1>1, <2>3, <2>4 DEF ProcessInv, MainKnows, ChildIsConsistent
  <2>6. ResultTells'
    BY <1>1 DEF ProcessInv, ResultTells
  <2> QED
    BY <1>6, <2>2, <2>5, <2>6 DEF ProcessInv
<1>7. CASE Fetch(t)
  <2>1. /\ pipe[t] > 0
        /\ pipe' = [pipe EXCEPT ![t] = @ - 1] /\ held' = [held EXCEPT ![t] = @ + 1]
        /\ UNCHANGED <<reader, buf, truncated>>
    BY <1>7 DEF Fetch
  <2>2. pipe[t] - 1 \in Nat /\ pipe[t] - 1 + (held[t] + 1) = pipe[t] + held[t]
    BY <1>4, <2>1
  <2>3. Shape'
    BY <1>1, <1>3, <2>1, <2>2 DEF ProcessInv, Shape, Pipes
  <2>4. pipe'[t] = pipe[t] - 1 /\ held'[t] = held[t] + 1
    BY <1>3, <2>1 DEF Pipes
  <2>5. wrote[t] = buf[t] + held'[t] + pipe'[t]
    BY <1>4, <1>5, <2>4
  <2>6. Flow(t)'
    BY <1>1, <1>2, <1>5, <2>1, <2>5 DEF Flow
  <2> QED
    BY <1>3, <1>6, <2>1, <2>3, <2>6 DEF Pipes
<1>8. CASE Deliver(t)
  <2> DEFINE room == Cap[t] - buf[t]
  <2>1. held' = [held EXCEPT ![t] = 0] /\ pipe' = pipe
    BY <1>8 DEF Deliver
  <2>2. CASE held[t] > room
    <3>1. /\ buf' = [buf EXCEPT ![t] = Cap[t]]
          /\ truncated' = [truncated EXCEPT ![t] = TRUE]
          /\ reader' = [reader EXCEPT ![t] = "done"]
      BY <1>8, <2>2 DEF Deliver
    <3>2. Shape'
      BY <1>1, <1>3, <1>4, <2>1, <3>1 DEF ProcessInv, Shape
    <3>3. wrote[t] > Cap[t]
      BY <1>4, <1>5, <2>2
    <3>4. truncated'[t] /\ reader'[t] = "done"
      BY <1>3, <3>1
    <3>5. Flow(t)'
      BY <1>1, <3>3, <3>4 DEF Flow
    <3> QED
      BY <1>3, <1>6, <2>1, <3>1, <3>2, <3>4, <3>5
  <2>3. CASE ~(held[t] > room)
    <3>1. buf' = [buf EXCEPT ![t] = @ + held[t]] /\ UNCHANGED <<truncated, reader>>
      BY <1>8, <2>3 DEF Deliver
    <3>2. Shape'
      BY <1>1, <1>3, <1>4, <2>1, <3>1 DEF ProcessInv, Shape
    <3>3. held'[t] = 0 /\ buf'[t] = buf[t] + held[t]
      BY <1>3, <2>1, <3>1
    <3>4. wrote[t] = buf'[t] + held'[t] + pipe[t]
      BY <1>4, <1>5, <3>3
    <3>5. Flow(t)'
      BY <1>1, <1>2, <1>5, <2>1, <3>1, <3>4 DEF Flow
    <3> QED
      BY <1>3, <1>6, <2>1, <3>1, <3>2, <3>5
  <2> QED
    BY <2>2, <2>3
<1>9. CASE EndOfStream(t)
  <2>1. /\ held[t] = 0 /\ StreamEnded(t)
        /\ reader' = [reader EXCEPT ![t] = "done"]
        /\ UNCHANGED <<pipe, held, buf, truncated>>
    BY <1>9 DEF EndOfStream
  <2>2. Shape'
    BY <1>1, <1>3, <2>1 DEF ProcessInv, Shape
  <2>3. Flow(t)'
    BY <1>1, <1>5, <2>1 DEF Flow, StreamEnded, EndsAreHeld
  <2> QED
    BY <1>3, <1>6, <2>1, <2>2, <2>3
<1> QED
  BY <1>7, <1>8, <1>9 DEF Reader

\* The deadline passes, or nothing happens.
LEMMA ClockKeepsInv ==
  ASSUME ProcessInv, DeadlinePasses \/ UNCHANGED procVars
  PROVE  ProcessInv'
<1>1. /\ UNCHANGED <<job, main, joined, timedOut, signal, child, heir, pipe, wrote, reader, held,
                     buf, truncated, result>>
      /\ deadline = "passed" => deadline' = "passed"
  BY DEF DeadlinePasses, procVars
<1>2. Shape' /\ NothingIsLost' /\ ChildIsConsistent'
  BY <1>1 DEF ProcessInv, Shape, NothingIsLost, Flow, StreamEnded, EndsAreHeld,
              ChildIsConsistent, Cut
<1>3. MainKnows' /\ ResultTells'
  BY <1>1 DEF ProcessInv, MainKnows, ResultTells, Cut
<1> QED
  BY <1>2, <1>3 DEF ProcessInv

\* All together.
LEMMA ProcessKeepsInv ==
  ASSUME ProcessInv, Process
  PROVE  ProcessInv'
BY MainKeepsInv, ChildKeepsInv, ReaderKeepsInv, ClockKeepsInv DEF Process

-----------------------------------------------------------------------------
(* The whole call.                                                          *)

\* A finished call stays as it is.
LEMMA BridgeKeepsInv ==
  ASSUME BridgeInv, [Next]_vars
  PROVE  BridgeInv'
<1>1. CASE Refuse
  <2>1. ~Admitted(call) /\ UNCHANGED <<procVars, call>>
    BY <1>1 DEF Refuse
  <2>2. ~Answered'
    BY <2>1 DEF Answered, Admitted
  <2> QED
    BY <2>1, <2>2, ClockKeepsInv DEF BridgeInv, EnvelopeIsMapped
<1>2. CASE Start \/ Escape
  <2>1. phase' # "done" /\ UNCHANGED procVars
    BY <1>2 DEF Start, Escape
  <2> QED
    BY <2>1, ClockKeepsInv DEF BridgeInv, EnvelopeIsMapped, Answered
<1>3. CASE Run
  <2>1. Process /\ phase' # "done"
    BY <1>3 DEF Run, Running
  <2> QED
    BY <2>1, ProcessKeepsInv DEF BridgeInv, EnvelopeIsMapped, Answered
<1>4. CASE Map
  <2>1. PICK f \in Fates : /\ ExitCode(f) = job.code /\ fate' = f
                           /\ envelope' = MapProcessResult(result, f)
    BY <1>4 DEF Map
  <2>2. main = "returned" /\ UNCHANGED procVars
    BY <1>4 DEF Map
  <2>3. main' = main /\ job' = job /\ result' = result
    BY <2>2 DEF procVars
  <2>4. MapProcessResult(result, f)' = MapProcessResult(result, f)
    BY <2>3 DEF MapProcessResult, Parses
  <2> QED
    BY <2>1, <2>2, <2>3, <2>4, ClockKeepsInv
       DEF BridgeInv, EnvelopeIsMapped, MapProcessResult, Parses
<1>5. CASE UNCHANGED vars
  <2>1. UNCHANGED <<procVars, call, fate, phase, envelope>>
    BY <1>5 DEF vars
  <2>2. UNCHANGED <<main, job, result>>
    BY <2>1 DEF procVars
  <2>3. EnvelopeIsMapped'
    BY <2>1, <2>2 DEF BridgeInv, EnvelopeIsMapped, Answered, MapProcessResult, Parses
  <2> QED
    BY <2>1, <2>3, ClockKeepsInv DEF BridgeInv
<1> QED
  BY <1>1, <1>2, <1>3, <1>4, <1>5 DEF Next

\* The first state.
LEMMA InitEstablishesInv ==
  ASSUME Init
  PROVE  BridgeInv
<1>1. PICK j \in Jobs : StartedFor(j)
  BY DEF Init
<1>2. Shape
  BY <1>1 DEF StartedFor, Shape, Pipes
<1>3. /\ \A s \in Streams : /\ wrote[s] = 0 /\ buf[s] = 0 /\ held[s] = 0 /\ pipe[s] = 0
                            /\ ~truncated[s] /\ reader[s] = "reading"
      /\ ~timedOut /\ signal = "none" /\ child = "running" /\ main = "write" /\ ~joined
      /\ job = j /\ heir = j.heir
  BY <1>1 DEF StartedFor, Pipes
<1>4. NothingIsLost
  BY <1>3 DEF NothingIsLost, Flow
<1>5. ChildIsConsistent /\ MainKnows /\ ResultTells
  BY <1>3 DEF ChildIsConsistent, MainKnows, ResultTells
<1>6. EnvelopeIsMapped
  BY DEF Init, EnvelopeIsMapped, Answered
<1> QED
  BY <1>2, <1>4, <1>5, <1>6 DEF BridgeInv, ProcessInv

-----------------------------------------------------------------------------
(* What the invariant says of an envelope.                                  *)

\* The envelope of an answer, by the first thing that was wrong with it.
LEMMA WhatAnEnvelopeSays ==
  ASSUME BridgeInv, Answered
  PROVE  /\ main = "returned" /\ child # "running"
         /\ fate \in Fates /\ ExitCode(fate) = job.code
         /\ \/ result.timedOut /\ envelope = Envelope("error", "timed out")
            \/ /\ ~result.timedOut /\ \E s \in Streams : result.truncated[s]
               /\ envelope = Envelope("error", "exceeded cap")
            \/ /\ ~result.timedOut /\ \A s \in Streams : ~result.truncated[s]
               /\ child = "ended" /\ result.exit = job.code
               /\ \/ job.code # 0 /\ envelope = Envelope("error", "nonzero exit")
                  \/ /\ job.code = 0 /\ ~Parses(result, fate)
                     /\ envelope = Envelope("error", "malformed JSON")
                  \/ /\ job.code = 0 /\ Parses(result, fate)
                     /\ envelope = MapParsedPayload(fate)
<1>1. /\ main = "returned" /\ fate \in Fates /\ ExitCode(fate) = job.code
      /\ envelope = MapProcessResult(result, fate)
  BY DEF BridgeInv, EnvelopeIsMapped
<1>2. /\ child # "running"
      /\ result.exit = IF child = "ended" THEN job.code ELSE -1
      /\ \/ result.timedOut
         \/ \E s \in Streams : result.truncated[s]
         \/ child = "ended"
  BY <1>1 DEF BridgeInv, ProcessInv, ResultTells
<1> QED
  BY <1>1, <1>2 DEF MapProcessResult

\* An error envelope has its reason.
LEMMA ErrorEnvelope ==
  \A r : Envelope("error", r).health = "error" /\ Envelope("error", r).reason = r
BY DEF Envelope

\* A typed answer tells what the adapter did.
LEMMA PayloadTellsFate ==
  ASSUME NEW f \in Fates
  PROVE  /\ f \notin {"noise", "late_crash"} => MapParsedPayload(f).health = HealthOfFate(f)
         /\ MapParsedPayload(f).reason \notin {"timed out", "exceeded cap", "nonzero exit",
                                             "malformed JSON"}
         /\ ExitCode(f) = 0 => f # "late_crash"
         /\ ExitCode(f) # 0 => HealthOfFate(f) = "error"
<1>1. f \in {"denied", "disconnected", "unavailable", "unsupported", "module_missing",
             "adapter_failed", "data", "noise", "late_crash"}
  BY DEF Fates, Thrown
<1>2. ErrorCode(f) = IF f = "disconnected" THEN "unavailable"
                     ELSE IF f \in {"data", "noise", "late_crash"} THEN "none" ELSE f
  BY <1>1 DEF ErrorCode, Thrown
<1>3. /\ ExitCode(f) = 0 => f # "late_crash"
      /\ ExitCode(f) # 0 => HealthOfFate(f) = "error"
  BY <1>1, <1>2 DEF ExitCode, HealthOfFate, Thrown
<1>4. CASE f \in {"data", "late_crash"}
  BY <1>1, <1>2, <1>3, <1>4 DEF MapParsedPayload, HealthOfFate, Envelope
<1>5. CASE f \notin {"data", "late_crash"}
  BY <1>1, <1>2, <1>3, <1>5 DEF MapParsedPayload, HealthOfFate, Envelope
<1> QED
  BY <1>4, <1>5

\* No prefix, no answer of a killed child.
LEMMA InvariantTypesWholes ==
  ASSUME BridgeInv
  PROVE  TypedAnswerIsWhole
<1> SUFFICES ASSUME Answered, envelope.health # "error"
             PROVE  /\ envelope.health = HealthOfFate(fate)
                    /\ child = "ended"
                    /\ result.bytes["stdout"] = job.emits["stdout"]
  BY DEF TypedAnswerIsWhole
<1>1. /\ fate \in Fates /\ ExitCode(fate) = 0 /\ child = "ended"
      /\ Parses(result, fate) /\ envelope = MapParsedPayload(fate)
  BY WhatAnEnvelopeSays, ErrorEnvelope
<1> QED
  BY <1>1, PayloadTellsFate DEF Parses

\* An error names what happened.
LEMMA InvariantNamesCauses ==
  ASSUME BridgeInv
  PROVE  ReasonNamesItsCause
<1> SUFFICES ASSUME Answered
             PROVE  /\ envelope.reason = "timed out" => deadline = "passed"
                    /\ envelope.reason = "exceeded cap" =>
                         ~timedOut /\ \E s \in Streams : wrote[s] > Cap[s]
                    /\ envelope.reason = "nonzero exit" => child = "ended" /\ job.code # 0
                    /\ envelope.reason = "malformed JSON" => fate = "noise" \/ job.heir
  BY DEF ReasonNamesItsCause
<1>1. /\ result.timedOut <=> timedOut
      /\ \A s \in Streams : result.truncated[s] => wrote[s] > Cap[s]
      /\ \/ result.timedOut
         \/ \E s \in Streams : result.truncated[s]
         \/ job.heir \/ \A s \in Streams : result.bytes[s] = job.emits[s]
  BY WhatAnEnvelopeSays DEF BridgeInv, ProcessInv, ResultTells
<1>2. timedOut => deadline = "passed"
  BY DEF BridgeInv, ProcessInv, MainKnows
<1>3. MapParsedPayload(fate).reason \notin {"timed out", "exceeded cap", "nonzero exit",
                                           "malformed JSON"}
  BY WhatAnEnvelopeSays, PayloadTellsFate
<1>4. ~Parses(result, fate) => fate = "noise" \/ result.bytes["stdout"] # job.emits["stdout"]
  BY DEF Parses
<1> QED
  <2>1. CASE result.timedOut
    <3>1. envelope.reason = "timed out"
      BY <2>1, WhatAnEnvelopeSays, ErrorEnvelope
    <3> QED
      BY <1>1, <1>2, <2>1, <3>1
  <2>2. CASE ~result.timedOut /\ \E s \in Streams : result.truncated[s]
    <3>1. envelope.reason = "exceeded cap"
      BY <2>2, WhatAnEnvelopeSays, ErrorEnvelope
    <3> QED
      BY <1>1, <2>2, <3>1
  <2>3. CASE ~result.timedOut /\ \A s \in Streams : ~result.truncated[s]
    <3>1. job.heir \/ result.bytes["stdout"] = job.emits["stdout"]
      BY <1>1, <2>3 DEF Streams
    <3>2. CASE job.code # 0 /\ envelope = Envelope("error", "nonzero exit") /\ child = "ended"
      <4>1. envelope.reason = "nonzero exit"
        BY <3>2, ErrorEnvelope
      <4> QED
        BY <3>2, <4>1
    <3>3. CASE ~Parses(result, fate) /\ envelope = Envelope("error", "malformed JSON")
      <4>1. envelope.reason = "malformed JSON"
        BY <3>3, ErrorEnvelope
      <4> QED
        BY <1>4, <3>1, <3>3, <4>1
    <3>4. CASE envelope = MapParsedPayload(fate)
      BY <1>3, <3>4
    <3> QED
      BY <2>3, <3>2, <3>3, <3>4, WhatAnEnvelopeSays
  <2> QED
    BY <2>1, <2>2, <2>3

\* What fits gets through.
LEMMA InvariantLosesNothing ==
  ASSUME BridgeInv
  PROVE  AnswerIsNotLost
<1> SUFFICES ASSUME Answered, ~timedOut, child = "ended", ~job.heir,
                    \A s \in Streams : wrote[s] <= Cap[s]
             PROVE  envelope.health = HealthOfFate(fate)
  BY DEF AnswerIsNotLost
<1>1. \A s \in Streams : ~(wrote[s] > Cap[s])
  BY JobFacts DEF BridgeInv, ProcessInv, Shape
<1>2. ~result.timedOut /\ \A s \in Streams : ~result.truncated[s]
  BY <1>1, WhatAnEnvelopeSays DEF BridgeInv, ProcessInv, ResultTells
<1>3. result.bytes["stdout"] = job.emits["stdout"]
  BY <1>2, WhatAnEnvelopeSays DEF BridgeInv, ProcessInv, ResultTells, Streams
<1>4. CASE job.code # 0
  <2>1. envelope = Envelope("error", "nonzero exit")
    BY <1>2, <1>4, WhatAnEnvelopeSays
  <2>2. HealthOfFate(fate) = "error"
    BY <1>4, WhatAnEnvelopeSays, PayloadTellsFate
  <2> QED
    BY <2>1, <2>2, ErrorEnvelope
<1>5. CASE job.code = 0
  <2>1. CASE fate = "noise"
    <3>1. envelope = Envelope("error", "malformed JSON")
      BY <1>2, <1>5, <2>1, WhatAnEnvelopeSays DEF Parses
    <3> QED
      BY <2>1, <3>1 DEF Envelope, HealthOfFate
  <2>2. CASE fate # "noise"
    <3>1. Parses(result, fate)
      BY <1>3, <2>2 DEF Parses
    <3> QED
      BY <1>2, <1>5, <2>2, <3>1, WhatAnEnvelopeSays, PayloadTellsFate
  <2> QED
    BY <2>1, <2>2
<1> QED
  BY <1>4, <1>5

-----------------------------------------------------------------------------
(***************************************************************************)
(* From the evidence to the verdict.  Each group of checks that says       *)
(* something definite has what its check rests on, whatever the rows, the  *)
(* options and the rest of the bundle are.                                 *)
(***************************************************************************)

\* What bundle b does not have of what check c rests on.
LostFrom(b, c) == EvidenceLost(c, LAMBDA a, s : Missing(b, a, s))

USE DEF Definite, LostFrom, EvidenceLost, MailLost, ThreatLost, ComplianceLost, SharingLost,
        TeamsLost, PowerLost, EndpointLost, IdentityLost, PlatformLost, Missing, Whole,
        Usable, Found, Items, EnabledItems, FirstValue, None, Unregistered, Manual

\* External sender warnings stand on either of two surfaces: without both there is
\* no rule to find and the mail tips are unread.
LEMMA ExternalWarnings ==
  ASSUME NEW c, NEW b, c = "exo_external_sender_warnings", LostFrom(b, c)
  PROVE  exo_external_sender_warnings(b) = "partial"
<1>1. /\ ~Usable(b, "exo_transport", "external_warning")
      /\ ~Usable(b, "exo_transport", "transport_rules")
  OBVIOUS
<1>2. Items(b, "exo_transport", "transport_rules") = <<>>
  BY <1>1
<1>3. ~Some(<<>>, LAMBDA i : Prop(i, "FromScope") = "NotInOrganization"
                             /\ Prop(i, "PrependSubject") # None)
  BY DEF Some
<1>. QED  BY <1>1, <1>2, <1>3 DEF exo_external_sender_warnings, AnyEnabledWith

\* Exchange Online and Defender for Office 365.
LEMMA MailIsNotJudged ==
  ASSUME NEW c, NEW b, NEW o, LostFrom(b, c)
  PROVE  /\ exchange_mailflow(c, b, o) \notin Definite
         /\ exchange_email_auth(c, b, o) \notin Definite
         /\ defender_mdo(c, b, o) \notin Definite
<1>1. exchange_mailflow(c, b, o) \notin Definite
  <2>1. CASE c = "exo_external_sender_warnings"
    BY <2>1, ExternalWarnings DEF exchange_mailflow
  <2>2. CASE c # "exo_external_sender_warnings"
    BY <2>2 DEF exchange_mailflow, exo_forwarding_external_disabled, exo_mailbox_audit_enabled,
         exo_sharing_not_all_domains, exo_smtp_auth_disabled
  <2>. QED  BY <2>1, <2>2
<1>2. exchange_email_auth(c, b, o) \notin Definite
  BY DEF exchange_email_auth, exo_dkim_enabled, exo_dmarc_contact, exo_dmarc_published,
         exo_dmarc_reject, exo_spf_published, DnsVerdict, Domains
<1>3. defender_mdo(c, b, o) \notin Definite
  BY DEF defender_mdo, mdo_p2_policies, mdo_outbound_spam_forwarding_block,
         mdo_mailbox_intelligence, mdo_transport_rule_external_forward, ThreatAdapter, MdoProxy
<1>. QED  BY <1>1, <1>2, <1>3

\* A check of one flag, whose surface its table names.
LEMMA FlagIsUnread ==
  ASSUME NEW c, NEW b, c \in DOMAIN ThreatFlags, LostFrom(b, c)
  PROVE  mdo_flag(b, ThreatFlags[c][1], ThreatFlags[c][2]) \notin Definite
<1>1. ~Usable(b, ThreatAdapter, ThreatFlags[c][1])
  BY DEF ThreatFlags, ThreatAdapter
<1>. QED  BY <1>1 DEF mdo_flag, Flag, FlagResult, AnyEnabledWith

\* The threat policies and data loss prevention.
LEMMA ThreatIsNotJudged ==
  ASSUME NEW c, NEW b, NEW o, LostFrom(b, c)
  PROVE  /\ security_suite_threat(c, b, o) \notin Definite
         /\ security_suite_spam(c, b, o) \notin Definite
         /\ security_suite_dlp(c, b, o) \notin Definite
<1>1. security_suite_threat(c, b, o) \notin Definite
  <2>1. CASE c \in DOMAIN ThreatFlags
    BY <2>1, FlagIsUnread DEF security_suite_threat, ThreatFlags
  <2>2. CASE c \notin DOMAIN ThreatFlags
    BY <2>2 DEF security_suite_threat, mdo_flag, Flag, FlagResult, AnyEnabledWith, ThreatAdapter,
         mdo_impersonation_partner_domains, mdo_impersonation_users_protected,
         mdo_safe_attachments_block, mdo_safe_links_block_list, mdo_safe_links_click_through,
         mdo_quarantine_policy, mdo_safety_tips_enabled
  <2>. QED  BY <2>1, <2>2
<1>2. security_suite_spam(c, b, o) \notin Definite
  BY DEF security_suite_spam, mdo_anti_spam_no_allowed_domains,
         mdo_connection_filter_no_ip_allow, mdo_connection_filter_no_safe_list,
         mdo_safe_attachments_spo_teams, mdo_safe_documents, mdo_spam_phish_not_inbox,
         ThreatAdapter
<1>3. security_suite_dlp(c, b, o) \notin Definite
  BY DEF security_suite_dlp, mdo_unified_audit_enabled, AuditIngestion, pur_dlp_rule,
         pur_dlp_locations_complete, pur_dlp_policy_present, pur_endpoint_dlp,
         ComplianceAdapter
<1>. QED  BY <1>1, <1>2, <1>3

\* SharePoint, OneDrive and Teams.
LEMMA CollaborationIsNotJudged ==
  ASSUME NEW c, NEW b, NEW o, LostFrom(b, c)
  PROVE  /\ collaboration_sharing(c, b, o) \notin Definite
         /\ collaboration_sharing_links(c, b, o) \notin Definite
         /\ collaboration_teams_access(c, b, o) \notin Definite
         /\ collaboration_teams_apps(c, b, o) \notin Definite
         /\ collaboration_teams_meeting(c, b, o) \notin Definite
<1>1. collaboration_sharing(c, b, o) \notin Definite
  BY DEF collaboration_sharing, spo_domain_restrictions, spo_onedrive_sharing_limited,
         spo_sharing_capability_limited, spo_unmanaged_device_access, spo_sharing_capability,
         SpoValue, SharingLimited, LastItemsValue, SpoAdapter
<1>2. collaboration_sharing_links(c, b, o) \notin Definite
  BY DEF collaboration_sharing_links, spo_anyone_link_expiration, spo_anyone_link_view,
         spo_default_link_specific, spo_default_link_view, spo_verification_reauth,
         AnyoneLinkCheck, SpoAdapter
<1>3. collaboration_teams_access(c, b, o) \notin Definite
  BY DEF collaboration_teams_access, teams_email_integration_disabled,
         teams_external_access_per_domain, teams_guest_access_restricted,
         UnmanagedConsumer, Resolved
<1>4. collaboration_teams_apps(c, b, o) \notin Definite
  BY DEF collaboration_teams_apps, AppCatalogs, AppsGoverned
<1>5. collaboration_teams_meeting(c, b, o) \notin Definite
  BY DEF collaboration_teams_meeting, teams_anonymous_lobby, teams_broadcast_not_always_record,
         teams_internal_auto_admit, MeetingFlags, MeetingFlag, Meeting
<1>. QED  BY <1>1, <1>2, <1>3, <1>4, <1>5

\* A check of one switch of Power BI, whose surface its table names.
LEMMA SwitchIsUnread ==
  ASSUME NEW c, NEW b, c \in DOMAIN PowerBiSwitches, LostFrom(b, c)
  PROVE  pbi_setting(b, PowerBiSwitches[c][1], PowerBiSwitches[c][2]) \notin Definite
<1>1. \/ c \in DOMAIN PowerBiSharing /\ PowerBiSwitches[c] = PowerBiSharing[c]
      \/ c \in DOMAIN PowerBiFeatures /\ PowerBiSwitches[c] = PowerBiFeatures[c]
  BY DEF PowerBiSwitches, Joined
<1>2. ~Usable(b, "pbi_tenant", PowerBiSwitches[c][1])
  BY <1>1 DEF PowerBiSharing, PowerBiFeatures
<1>. QED  BY <1>2 DEF pbi_setting, PbiEnabled, Expect

\* Power Platform, Power BI and Purview.
LEMMA PowerIsNotJudged ==
  ASSUME NEW c, NEW b, NEW o, LostFrom(b, c)
  PROVE  /\ power_platform_env(c, b, o) \notin Definite
         /\ power_platform_tenant(c, b, o) \notin Definite
         /\ power_bi(c, b, o) \notin Definite
         /\ purview_governance(c, b, o) \notin Definite
         /\ purview(c, b, o) \notin Definite
         /\ purview_manual(c, b, o) \notin Definite
<1>1. power_platform_env(c, b, o) \notin Definite
  <2>1. CASE c = "pp_dlp_all_environments"
    BY <2>1 DEF power_platform_env, pp_dlp_all_environments, DlpVerdict, Environments
  <2>2. CASE c = "pp_dlp_nondefault_environments"
    BY <2>2 DEF power_platform_env, pp_dlp_nondefault_environments
  <2>3. CASE c \notin {"pp_dlp_all_environments", "pp_dlp_nondefault_environments"}
    BY <2>3 DEF power_platform_env, pp_tenant_isolation_enabled, pp_tenant_isolation_allowlist,
         IsolationValue, Expect
  <2>. QED  BY <2>1, <2>2, <2>3
<1>2. power_platform_tenant(c, b, o) \notin Definite
  BY DEF power_platform_tenant, PowerPlatformSwitches, pp_tenant_setting, Expect
<1>3. power_bi(c, b, o) \notin Definite
  <2>1. CASE c \in DOMAIN PowerBiSwitches
    <3>1. c \notin {"pbi_premium_capacity_governance", "pbi_sp_api_restricted"}
      BY <2>1 DEF PowerBiSwitches, Joined, PowerBiSharing, PowerBiFeatures
    <3>. QED  BY <2>1, <3>1, SwitchIsUnread DEF power_bi
  <2>2. CASE c \notin DOMAIN PowerBiSwitches
    BY <2>2 DEF power_bi, Needs, OptionalEvidence, FailedRuntime, pbi_sp_api_restricted, PbiEnabled
  <2>. QED  BY <2>1, <2>2
<1>4. purview_governance(c, b, o) \notin Definite
  <2>1. \A s : ~Found(b, "purview_governance", s) /\ ~Found(b, "scc_compliance", s)
               => ~Readable(b, s)
    BY DEF Readable, ReadSurface, Unread, Surface
  <2>2. \A s : ~Usable(b, "purview_governance", s) /\ ~Usable(b, "scc_compliance", s)
               => ~Readable(b, s)
    BY <2>1 DEF Readable, ReadSurface
  <2>. QED  BY <2>2 DEF purview_governance, pur_default_and_mandatory_labels,
         pur_retention_policy_coverage, pur_sensitivity_auto_labeling,
         pur_sensitivity_labels_published
<1>5. purview(c, b, o) \notin Definite
  BY DEF purview, Needs, OptionalEvidence, FailedRuntime
<1>6. purview_manual(c, b, o) \notin Definite
  BY DEF purview_manual
<1>. QED  BY <1>1, <1>2, <1>3, <1>4, <1>5, <1>6

\* Intune and Defender.
LEMMA EndpointIsNotJudged ==
  ASSUME NEW c, NEW b, NEW o, LostFrom(b, c)
  PROVE  /\ endpoint_intune(c, b, o) \notin Definite
         /\ endpoint_intune_depth(c, b, o) \notin Definite
         /\ endpoint_intune_policy(c, b, o) \notin Definite
         /\ endpoint_mde_xdr(c, b, o) \notin Definite
         /\ defender(c, b, o) \notin Definite
         /\ defender_endpoint(c, b, o) \notin Definite
<1>. USE DEF Needs, OptionalEvidence, FailedRuntime, IntuneUnknown
<1>1. endpoint_intune(c, b, o) \notin Definite
  BY DEF endpoint_intune, endpoint_compliance_noncompliance_action,
         endpoint_compliance_policy_assigned, endpoint_enrollment_coverage
<1>2. endpoint_intune_depth(c, b, o) \notin Definite
  BY DEF endpoint_intune_depth, endpoint_bitlocker_policy, endpoint_tamper_protection,
         endpoint_compliance_enforcement, endpoint_mam_app_protection
<1>3. endpoint_intune_policy(c, b, o) \notin Definite
  BY DEF endpoint_intune_policy, endpoint_mde_connector, endpoint_security_baseline,
         endpoint_security_policy_coverage
<1>4. endpoint_mde_xdr(c, b, o) \notin Definite
  BY DEF endpoint_mde_xdr
<1>5. defender(c, b, o) \notin Definite
  BY DEF defender
<1>6. defender_endpoint(c, b, o) \notin Definite
  BY DEF defender_endpoint
<1>. QED  BY <1>1, <1>2, <1>3, <1>4, <1>5, <1>6

\* Entra ID: access, applications, licences and authentication.
LEMMA IdentityIsNotJudged ==
  ASSUME NEW c, NEW b, NEW o, LostFrom(b, c)
  PROVE  /\ identity_access(c, b, o) \notin Definite
         /\ identity_apps_consent(c, b, o) \notin Definite
         /\ identity_apps_credentials(c, b, o) \notin Definite
         /\ identity_assignment(c, b, o) \notin Definite
         /\ identity_auth_methods(c, b, o) \notin Definite
<1>. USE DEF Needs, OptionalEvidence, FailedRuntime
<1>1. identity_access(c, b, o) \notin Definite
  BY DEF identity_access
<1>2. identity_apps_consent(c, b, o) \notin Definite
  BY DEF identity_apps_consent
<1>3. identity_apps_credentials(c, b, o) \notin Definite
  BY DEF identity_apps_credentials
<1>4. identity_assignment(c, b, o) \notin Definite
  BY DEF identity_assignment, id_protective_plan_assignment
<1>5. identity_auth_methods(c, b, o) \notin Definite
  BY DEF identity_auth_methods
<1>. QED  BY <1>1, <1>2, <1>3, <1>4, <1>5

\* Entra ID: governance, guests and privileged roles.
LEMMA GovernanceIsNotJudged ==
  ASSUME NEW c, NEW b, NEW o, LostFrom(b, c)
  PROVE  /\ identity_governance(c, b, o) \notin Definite
         /\ identity_guests(c, b, o) \notin Definite
         /\ identity_manual(c, b, o) \notin Definite
         /\ identity_pim_rules(c, b, o) \notin Definite
         /\ identity_privileged_extra(c, b, o) \notin Definite
         /\ identity_risk(c, b, o) \notin Definite
<1>. USE DEF Needs, OptionalEvidence, FailedRuntime
<1>1. identity_governance(c, b, o) \notin Definite
  BY DEF identity_governance, id_security_defaults_on
<1>2. identity_guests(c, b, o) \notin Definite
  BY DEF identity_guests
<1>3. identity_manual(c, b, o) \notin Definite
  BY DEF identity_manual
<1>4. identity_pim_rules(c, b, o) \notin Definite
  BY DEF identity_pim_rules
<1>5. identity_privileged_extra(c, b, o) \notin Definite
  BY DEF identity_privileged_extra
<1>6. identity_risk(c, b, o) \notin Definite
  BY DEF identity_risk
<1>. QED  BY <1>1, <1>2, <1>3, <1>4, <1>5, <1>6

\* Sentinel and Defender for Cloud.
LEMMA PlatformIsNotJudged ==
  ASSUME NEW c, NEW b, NEW o, LostFrom(b, c)
  PROVE  /\ azure_selective(c, b, o) \notin Definite
         /\ sentinel(c, b, o) \notin Definite
         /\ sentinel_extended(c, b, o) \notin Definite
         /\ sentinel_parity(c, b, o) \notin Definite
         /\ sentinel_telemetry(c, b, o) \notin Definite
<1>. USE DEF Needs, OptionalEvidence, FailedRuntime
<1>1. azure_selective(c, b, o) \notin Definite
  BY DEF azure_selective
<1>2. sentinel(c, b, o) \notin Definite
  BY DEF sentinel, sen_ueba
<1>3. sentinel_extended(c, b, o) \notin Definite
  BY DEF sentinel_extended
<1>4. sentinel_parity(c, b, o) \notin Definite
  BY DEF sentinel_parity
<1>5. sentinel_telemetry(c, b, o) \notin Definite
  BY DEF sentinel_telemetry
<1>. QED  BY <1>1, <1>2, <1>3, <1>4, <1>5

HIDE DEF Definite, LostFrom, EvidenceLost, MailLost, ThreatLost, ComplianceLost, SharingLost,
        TeamsLost, PowerLost, EndpointLost, IdentityLost, PlatformLost, Missing, Whole,
        Usable, Found, Items, EnabledItems, FirstValue, None, Unregistered, Manual

\* Whatever group binds a check, its verdict is not definite without the evidence.
LEMMA LostFromHasNoVerdict ==
  ASSUME NEW c, NEW b, NEW o, LostFrom(b, c)
  PROVE  Verdict(c, b, o) \notin Definite
<1>. DEFINE bindings == Bindings(c, b, o)
<1>1. \A g \in DOMAIN bindings : bindings[g] \notin Definite
  BY MailIsNotJudged, ThreatIsNotJudged, CollaborationIsNotJudged, PowerIsNotJudged,
     EndpointIsNotJudged, IdentityIsNotJudged, GovernanceIsNotJudged, PlatformIsNotJudged
     DEF Bindings
<1>. DEFINE registered == Registered(bindings)
<1>2. registered \subseteq DOMAIN bindings
  BY DEF Registered
<1>3. registered # {} => (CHOOSE g \in registered : TRUE) \in registered
  OBVIOUS
<1>. HIDE DEF bindings, registered
<1>4. Verdict(c, b, o) = IF registered = {} THEN "skipped"
                         ELSE bindings[CHOOSE g \in registered : TRUE]
  BY DEF Verdict, bindings, registered
<1>. QED  BY <1>1, <1>2, <1>3, <1>4 DEF Definite
-----------------------------------------------------------------------------
(***************************************************************************)
(* From the read to the evidence.  A read that is absent or refused costs  *)
(* the surfaces that CheckEvidence says, whatever else the answers are.    *)
(***************************************************************************)

\* Read m is lost to the adapter in the way x.
ReadLost(ans, m, x) == \/ x = "absent" /\ ~There(ans, m)
                       \/ x = "refused" /\ Refused(ans, m)

\* Payload p does not have surface s; of a runtime that failed only its failure is
\* left.
Without(p, s) ==
  IF s = Whole THEN DOMAIN p = {"adapter"} ELSE ~(s \in DOMAIN p /\ p[s].status = "ok")

LEMMA MissingIsWithout ==
  ASSUME NEW b, NEW a \in DOMAIN b, NEW s
  PROVE  Missing(b, a, s) <=> Without(b[a], s)
BY DEF Missing, Without, FailedRuntime, Usable, Found

LEMMA FailedIsWithout ==
  ASSUME NEW status, status # "ok", NEW s
  PROVE  Without(Failed(status), s)
BY DEF Failed, Without, Unread, Surface

USE DEF There, Refused, Surface, Ok, Unread

\* A refusal is no answer, and an absent one is no refusal.
LEMMA LostIsOne ==
  ASSUME NEW ans, NEW m, NEW x, ReadLost(ans, m, x)
  PROVE  ~There(ans, m) \/ Refused(ans, m)
BY DEF ReadLost

LEMMA ListIsLost ==
  ASSUME NEW ans, NEW m, ~There(ans, m) \/ Refused(ans, m), NEW names
  PROVE  ListSurface(ans, m, names).status # "ok"
BY DEF ListSurface

LEMMA StrictIsLost ==
  ASSUME NEW ans, NEW m, ~There(ans, m) \/ Refused(ans, m), NEW names, NEW flag
  PROVE  StrictSurface(ans, m, names, flag).status # "ok"
BY DEF StrictSurface

LEMMA PairIsLost ==
  ASSUME NEW ans, NEW policy, NEW rule, NEW names,
         ~There(ans, policy) \/ Refused(ans, policy) \/ Refused(ans, rule)
  PROVE  PolicyPair(ans, policy, rule, names).status # "ok"
BY DEF PolicyPair

LEMMA NeededIsLost ==
  ASSUME NEW ans, NEW m, ~There(ans, m) \/ Refused(ans, m), NEW surface, NEW names
  PROVE  NeededSurface(ans, m, surface, names) = Failed("denied")
BY DEF NeededSurface

HIDE DEF There, Refused, Surface, Ok, Unread

\* The tables of what a read costs.
USE DEF TakenBy, MailCost, ThreatCost, PairCost, ComplianceCost, GovernanceCost, TeamsCost,
        PowerCost, GraphCost, Cost, Gone, Fails

LEMMA AuditIsLost ==
  ASSUME NEW ans, NEW m, NEW x, ReadLost(ans, m, x), NEW s,
         <<<<"exo_audit", s>>, <<m, x>>>> \in TakenBy
  PROVE  Without(OrganizationAudit(ans), s)
<1>1. \/ s = "organization_audit" /\ m = "Get-OrganizationConfig"
      \/ s = "mailbox_audit" /\ m = "Get-AdminAuditLogConfig" /\ x = "refused"
  OBVIOUS
<1>2. ~There(ans, m) \/ Refused(ans, m)
  BY LostIsOne
<1>3. x = "refused" => There(ans, m)
  BY DEF ReadLost, There, Refused
<1>. QED  BY <1>1, <1>2, <1>3, StrictIsLost DEF OrganizationAudit, Without, Whole

LEMMA TransportIsLost ==
  ASSUME NEW ans, NEW m, NEW x, ReadLost(ans, m, x), NEW s,
         <<<<"exo_transport", s>>, <<m, x>>>> \in TakenBy
  PROVE  Without(TransportRules(ans), s)
<1>1. \/ s = "transport_rules" /\ m = "Get-TransportRule"
      \/ s = "external_warning" /\ m = "Get-OrganizationConfig"
  OBVIOUS
<1>2. ~There(ans, m) \/ Refused(ans, m)
  BY LostIsOne
<1>3. Unread("denied").status # "ok"
  BY DEF Unread, Surface
<1>. QED  BY <1>1, <1>2, <1>3, StrictIsLost, ListIsLost DEF TransportRules, Without, Whole

LEMMA ThreatIsLost ==
  ASSUME NEW ans, NEW m, NEW x, ReadLost(ans, m, x), NEW s,
         <<<<"exo_threat_policies", s>>, <<m, x>>>> \in TakenBy
  PROVE  Without(ThreatPolicies(ans), s)
<1>1. ~There(ans, m) \/ Refused(ans, m)
  BY LostIsOne
<1>2. x = "refused" => Refused(ans, m)
  BY DEF ReadLost, There, Refused
<1>. HIDE DEF ReadLost
<1>3. \/ s \in {"impersonation", "quarantine", "atp_global"}
      \/ s \in {"anti_malware", "anti_phish", "safe_links", "safe_attachments", "anti_spam",
               "connection_filter", "outbound_spam"}
  OBVIOUS
<1>. QED  BY <1>1, <1>2, <1>3, PairIsLost, ListIsLost DEF ThreatPolicies, Without, Whole

LEMMA ComplianceIsLost ==
  ASSUME NEW ans, NEW m, NEW x, ReadLost(ans, m, x), NEW s,
         <<<<"scc_compliance", s>>, <<m, x>>>> \in TakenBy
  PROVE  Without(Compliance(ans), s)
<1>1. ~There(ans, m) \/ Refused(ans, m)
  BY LostIsOne
<1>. QED  BY <1>1, ListIsLost, StrictIsLost
          DEF Compliance, AuditConfig, Without, Whole, Unread, Surface

LEMMA GovernanceIsLost ==
  ASSUME NEW ans, NEW m, NEW x, ReadLost(ans, m, x), NEW s,
         <<<<"purview_governance", s>>, <<m, x>>>> \in TakenBy
  PROVE  Without(Governance(ans), s)
<1>1. ~There(ans, m) \/ Refused(ans, m)
  BY LostIsOne
<1>. QED  BY <1>1, ListIsLost, StrictIsLost
          DEF Governance, Joined, Compliance, AuditConfig, Without, Whole, Unread, Surface

LEMMA TeamsIsLost ==
  ASSUME NEW ans, NEW m, NEW x, ReadLost(ans, m, x), NEW s,
         NEW a \in {"teams_federation", "teams_client", "teams_meeting", "teams_apps"},
         <<<<a, s>>, <<m, x>>>> \in TakenBy
  PROVE  Without(AdapterPayload(a, ans), s)
<1>1. ~There(ans, m) \/ Refused(ans, m)
  BY LostIsOne
<1>2. x = "refused" => Refused(ans, m)
  BY DEF ReadLost, There, Refused
<1>3. CASE a = "teams_federation"
  <2>1. \/ s = "federation" /\ m = "Get-CsTenantFederationConfiguration"
        \/ s = "unmanaged_users" /\ m = "Get-CsExternalAccessPolicy"
    BY <1>3
  <2>2. Federation(ans).status # "ok" \/ m # "Get-CsTenantFederationConfiguration"
    BY <1>1 DEF Federation, Unread, Surface
  <2>. QED  BY <1>1, <1>3, <2>1, <2>2, ListIsLost DEF AdapterPayload, Without, Whole
<1>4. CASE a = "teams_client"
  <2>1. s = "email_integration" => EmailIntegration(ans).status # "ok"
    BY <1>1, <1>4 DEF EmailIntegration, Unread, Surface
  <2>2. s = "guest_access" => GuestAccess(ans).status # "ok"
    <3>1. /\ GuestCmdlets[1] = "Get-CsTeamsClientConfiguration"
          /\ GuestCmdlets[2] = "Get-CsTeamsGuestCallingConfiguration"
          /\ GuestCmdlets[3] = "Get-CsTeamsGuestMessagingConfiguration"
      BY DEF GuestCmdlets
    <3>. QED BY <1>1, <1>2, <1>4, <3>1 DEF GuestAccess, Unread, Surface
  <2>3. s \in {"email_integration", "guest_access"}
    BY <1>4
  <2>. QED BY <1>4, <2>1, <2>2, <2>3 DEF AdapterPayload, Without, Whole
<1>5. CASE a = "teams_meeting"
  <2>1. \/ s = "meeting_policies" /\ m = "Get-CsTeamsMeetingPolicy"
        \/ s = "broadcast_policies" /\ m = "Get-CsTeamsMeetingBroadcastPolicy" /\ x = "refused"
    BY <1>5
  <2>2. Refused(ans, m) => There(ans, m)
    BY DEF Refused, There
  <2>. QED  BY <1>1, <1>2, <1>5, <2>1, <2>2, ListIsLost
            DEF TeamsMeetings, AdapterPayload, Without, Whole
<1>6. CASE a = "teams_apps"
  BY <1>1, <1>6, ListIsLost DEF TeamsApps, AdapterPayload, Without, Whole
<1>. QED  BY <1>3, <1>4, <1>5, <1>6

LEMMA PowerIsLost ==
  ASSUME NEW ans, NEW m, NEW x, ReadLost(ans, m, x), NEW s,
         NEW a \in {"pp_environments", "pp_dlp", "pp_isolation"},
         <<<<a, s>>, <<m, x>>>> \in TakenBy
  PROVE  Without(AdapterPayload(a, ans), s)
<1>1. ~There(ans, m) \/ Refused(ans, m)
  BY LostIsOne
<1>2. Without(Failed("unavailable"), s)
  BY FailedIsWithout
<1>3. \A surface, names : s # Whole => Without(PagedSurface(ans, m, surface, names), s)
  BY <1>1, <1>2 DEF PagedSurface, Without, Unread, Surface
<1>4. Without(Isolation(ans), s) \/ a # "pp_isolation"
  BY <1>1, <1>2 DEF Isolation, Without, Unread, Surface, Whole
<1>. QED  BY <1>3, <1>4 DEF AdapterPayload, Whole
USE DEF TakenWhole

\* The adapters that fail with their read.
LEMMA WholeAdapterIsLost ==
  ASSUME NEW ans, NEW m, NEW x, ReadLost(ans, m, x), NEW s,
         NEW a \in PowerShellAdapters, <<a, <<m, x>>>> \in TakenWhole
  PROVE  Without(AdapterPayload(a, ans), s)
<1>1. ~There(ans, m) \/ Refused(ans, m)
  BY LostIsOne
<1>2. x = "refused" => Refused(ans, m) /\ There(ans, m)
  BY DEF ReadLost, There, Refused
<1>3. Without(Failed("denied"), s) /\ Without(Failed("unavailable"), s)
  BY FailedIsWithout
<1>4. \/ a = "exo_remote_domains" /\ m = "Get-RemoteDomain"
      \/ a = "exo_smtp_auth" /\ m = "Get-TransportConfig"
      \/ a = "exo_sharing" /\ m = "Get-SharingPolicy"
      \/ a = "exo_dkim" /\ m = "Get-DkimSigningConfig"
      \/ a = "spo_tenant" /\ m = "Get-SPOTenant"
      \/ a = "pp_tenant" /\ m = "Get-TenantSettings"
      \/ a = "pbi_tenant" /\ m = "Get-PowerBITenantSetting" /\ x = "refused"
  BY DEF PowerShellAdapters, ExchangeAdapters, CollaborationAdapters, PowerDataAdapters
<1>. QED  BY <1>1, <1>2, <1>3, <1>4, NeededIsLost
          DEF AdapterPayload, SmtpAuth, SpoTenant, PowerTenant, PowerBi

\* The surface that an adapter loses, whichever it is.
LEMMA AdapterIsLost ==
  ASSUME NEW ans, NEW m, NEW x, ReadLost(ans, m, x), NEW s,
         NEW a \in PowerShellAdapters,
         <<a, <<m, x>>>> \in TakenWhole \/ <<<<a, s>>, <<m, x>>>> \in TakenBy
  PROVE  Without(AdapterPayload(a, ans), s)
<1>1. CASE <<a, <<m, x>>>> \in TakenWhole
  BY <1>1, WholeAdapterIsLost
<1>2. CASE <<<<a, s>>, <<m, x>>>> \in TakenBy
  <2>1. a \in {"exo_audit", "exo_transport", "exo_threat_policies", "scc_compliance",
               "purview_governance", "teams_federation", "teams_client", "teams_meeting",
               "teams_apps", "pp_environments", "pp_dlp", "pp_isolation"}
    BY <1>2 DEF PowerShellAdapters, ExchangeAdapters, CollaborationAdapters, PowerDataAdapters
  <2>. HIDE DEF TakenBy
  <2>. QED  BY <1>2, <2>1, AuditIsLost, TransportIsLost, ThreatIsLost, ComplianceIsLost,
               GovernanceIsLost, TeamsIsLost, PowerIsLost DEF AdapterPayload
<1>. QED  BY <1>1, <1>2

\* The runtimes that read Graph and its kin.
LEMMA IntuneIsLost ==
  ASSUME NEW ans, NEW m, Refused(ans, m), NEW s,
         <<<<"intune_bundle", s>>, <<m, "refused">>>> \in TakenBy
  PROVE  Without(IntuneBundle(ans), s)
<1>1. IntuneList(ans, m).status = "error"
  BY DEF IntuneList, Unread, Surface
<1>2. Detailed(IntuneList(ans, m)).status = "error"
  BY DEF Detailed, IntuneList, Unread, Surface
<1>. QED  BY <1>1, <1>2 DEF IntuneBundle, Without, Whole

LEMMA RuntimeIsLost ==
  ASSUME NEW ans, NEW m, NEW x, ReadLost(ans, m, x), NEW s,
         NEW a \in GraphRuntimes,
         \/ x = "refused" /\ a \in AllOrNothing
         \/ <<a, <<m, x>>>> \in TakenWhole
         \/ <<<<a, s>>, <<m, x>>>> \in TakenBy
  PROVE  Without(GraphPayload(a, ans), s)
<1>1. x = "refused" => Refused(ans, m)
  BY DEF ReadLost, There, Refused
<1>2. Without(Failed("error"), s) /\ Without(Failed("unavailable"), s)
  BY FailedIsWithout
<1>3. CASE x = "refused" /\ a \in AllOrNothing
  <2>1. m \in DOMAIN ans
    BY <1>1, <1>3 DEF Refused, Answer, NoAnswer
  <2>2. GraphPayload(a, ans) = Bundle(ans)
    BY <1>3 DEF GraphPayload, AllOrNothing
  <2>. QED  BY <1>1, <1>2, <1>3, <2>1, <2>2 DEF Bundle
<1>4. CASE <<a, <<m, x>>>> \in TakenWhole
  <2>1. /\ x = "refused"
        /\ \/ a = "la_usage_by_table" /\ m = "workspace"
           \/ a = "sentinel_ueba" /\ m = "alertRules"
           \/ a = "purview_dlp" /\ m = "secureScores"
    BY <1>4 DEF GraphRuntimes, EndpointRuntimes, IdentityRuntimes, PlatformRuntimes
  <2>. QED  BY <1>1, <1>2, <2>1 DEF GraphPayload, UsageByTable, SentinelUeba, PurviewDlp
<1>5. CASE <<<<a, s>>, <<m, x>>>> \in TakenBy
  <2>1. /\ x = "refused"
        /\ \/ a = "intune_bundle"
           \/ a = "license_assignment" /\ s = "enabled_member_users" /\ m = "members"
           \/ a = "sentinel_ueba" /\ s = "settings" /\ m = "settings"
    BY <1>5 DEF GraphRuntimes, EndpointRuntimes, IdentityRuntimes, PlatformRuntimes
  <2>2. CASE a = "intune_bundle"
    BY <1>1, <1>5, <2>1, <2>2, IntuneIsLost DEF GraphPayload
  <2>3. CASE a # "intune_bundle"
    BY <1>1, <1>2, <2>1, <2>3 DEF GraphPayload, LicenseAssignment, SentinelUeba, Without, Whole,
       Unread, Surface
  <2>. QED  BY <2>2, <2>3
<1>. QED  BY <1>3, <1>4, <1>5

HIDE DEF TakenBy, MailCost, ThreatCost, PairCost, ComplianceCost, GovernanceCost, TeamsCost,
        PowerCost, GraphCost, Cost, Gone, Fails, TakenWhole

\* The collectors keep what is lost lost.
LEMMA NormalKeepsStatus ==
  ASSUME NEW raw, NEW defaults, raw.status # "ok"
  PROVE  NormalSurface(raw, defaults).status # "ok"
BY DEF NormalSurface, ParsedStatus, Surface

LEMMA NormalKeepsLoss ==
  ASSUME NEW raw, NEW s, Without(raw, s)
  PROVE  /\ Without(ExchangePayload(raw), s)
         /\ Without(CollaborationPayload(raw), s)
         /\ Without(PowerDataPayload(raw), s)
BY NormalKeepsStatus DEF Without, ExchangePayload, CollaborationPayload, PowerDataPayload,
   CollaborationSurface, PowerDataSurface

\* An envelope that is not healthy carries no surface.
LEMMA UnhealthyCarriesNothing ==
  ASSUME NEW a \in PowerShellAdapters, NEW e, e.health # "ok", NEW s
  PROVE  Without(CollectedPayload(a, e), s)
<1>1. EnvelopeStatus(e) # "ok"
  BY DEF EnvelopeStatus
<1>. QED  BY <1>1, FailedIsWithout DEF CollectedPayload, PowerShellAdapters, ExchangeCollected,
             CollaborationCollected, PowerDataCollected

LEMMA FailedCallCarriesNothing ==
  ASSUME NEW a, NEW payload \in FailedPayloads(a), NEW s
  PROVE  Without(payload, s)
<1>1. CASE a \in PowerShellAdapters
  <2>1. PICK e \in FailedEnvelopes : payload = CollectedPayload(a, e)
    BY <1>1 DEF FailedPayloads
  <2>2. e.health # "ok"
    BY DEF FailedEnvelopes
  <2>. QED  BY <1>1, <2>1, <2>2, UnhealthyCarriesNothing
<1>2. CASE a \notin PowerShellAdapters
  BY <1>2, FailedIsWithout DEF FailedPayloads
<1>. QED  BY <1>1, <1>2

\* What a read that is lost takes, the payload does not have.
LEMMA PayloadIsWithout ==
  ASSUME NEW a, NEW ans, NEW m, NEW x, x # "failed", ReadLost(ans, m, x), NEW s,
         Takes([adapter |-> a, read |-> m, loss |-> x], a, s)
  PROVE  Without(Payload(a, ans), s)
<1>1. \/ x = "refused" /\ a \in AllOrNothing
      \/ <<a, <<m, x>>>> \in TakenWhole
      \/ <<<<a, s>>, <<m, x>>>> \in TakenBy
  BY DEF Takes
<1>2. a # "dns" /\ a \in GraphRuntimes \cup PowerShellAdapters
  <2>1. CASE a \in AllOrNothing
    BY <2>1 DEF AllOrNothing, GraphRuntimes, EndpointRuntimes, IdentityRuntimes, PlatformRuntimes
  <2>2. CASE <<a, <<m, x>>>> \in TakenWhole
    BY <2>2 DEF TakenWhole, PowerShellAdapters, ExchangeAdapters, CollaborationAdapters,
       PowerDataAdapters, GraphRuntimes, PlatformRuntimes
  <2>3. CASE <<<<a, s>>, <<m, x>>>> \in TakenBy
    BY <2>3 DEF TakenBy, MailCost, ThreatCost, PairCost, ComplianceCost, GovernanceCost, TeamsCost,
       PowerCost, GraphCost, Cost, PowerShellAdapters, ExchangeAdapters, CollaborationAdapters,
       PowerDataAdapters, GraphRuntimes, EndpointRuntimes, IdentityRuntimes, PlatformRuntimes
  <2>. QED  BY <1>1, <2>1, <2>2, <2>3
<1>3. CASE a \in GraphRuntimes
  BY <1>1, <1>2, <1>3, RuntimeIsLost DEF Payload
<1>4. CASE a \notin GraphRuntimes
  <2>1. a \in PowerShellAdapters /\ a \notin AllOrNothing
    BY <1>2, <1>4 DEF AllOrNothing
  <2>2. Without(AdapterPayload(a, ans), s)
    BY <1>1, <2>1, AdapterIsLost
  <2>3. OkEnvelope(ans).health = "ok" /\ OkEnvelope(ans).answers = ans
    BY DEF OkEnvelope
  <2>4. Without(CollectedPayload(a, OkEnvelope(ans)), s)
    BY <2>1, <2>2, <2>3, NormalKeepsLoss DEF CollectedPayload, PowerShellAdapters,
       ExchangeCollected, CollaborationCollected, PowerDataCollected
  <2>. QED  BY <1>2, <1>4, <2>4 DEF Payload
<1>. QED  BY <1>3, <1>4

-----------------------------------------------------------------------------
(***************************************************************************)
(* The scan of one check, step by step.                                    *)
(***************************************************************************)

\* Calls are made once and in order; what is noted as lost is missing from the
\* bundle; and the verdict is that of the bundle, once all calls are made.
CallsAreLeft == /\ check \in DOMAIN Checks
                /\ calls \in Seq(Range(Checks[check]))
                /\ \A i, j \in DOMAIN calls : calls[i].adapter = calls[j].adapter => i = j
                /\ \A i \in DOMAIN calls : calls[i].adapter \notin DOMAIN bundle
LossesAreMissing == \A l \in losses :
                      /\ l.adapter \in DOMAIN bundle
                      /\ \A s : Takes(l, l.adapter, s) => Missing(bundle, l.adapter, s)
VerdictIsLast == verdict # NotYet => calls = <<>> /\ verdict = Verdict(check, bundle, options)
EvidenceInv == CallsAreLeft /\ LossesAreMissing /\ VerdictIsLast

\* The answers of a call lack the reads that the loss says.
LEMMA AnswersLack ==
  ASSUME NEW c, NEW t, NEW loss \in LossesOf(c), NEW m \in DOMAIN loss,
         loss[m] \in {"absent", "refused"}
  PROVE  ReadLost(Answers(c, t, loss), m, loss[m])
<1>1. m \in DOMAIN c.reads
  BY DEF LossesOf
<1>2. Answer(Answers(c, t, loss), m) = Left(t[m], loss[m])
  BY <1>1 DEF Answers, Answer
<1>3. CASE loss[m] = "absent"
  BY <1>2, <1>3 DEF Left, NoAnswer, ReadLost, There
<1>4. CASE loss[m] = "refused"
  BY <1>2, <1>4 DEF Left, ReadLost, Refused
<1>. QED  BY <1>3, <1>4

\* Takes speaks of absent and refused reads only, and of failed calls.
LEMMA TakesIsALoss ==
  ASSUME NEW l, NEW a, NEW s, Takes(l, a, s), l.loss # "failed"
  PROVE  l.loss \in {"absent", "refused"}
BY DEF Takes, TakenWhole, TakenBy, MailCost, ThreatCost, PairCost, ComplianceCost, GovernanceCost,
   TeamsCost, PowerCost, GraphCost, Cost, Gone, Fails

\* A payload that is filed leaves those that are there.
LEMMA FiledKeeps ==
  ASSUME NEW payload, NEW b, b = Filed(payload), NEW a \in DOMAIN bundle, NEW s
  PROVE  a \in DOMAIN b /\ (Missing(bundle, a, s) => Missing(b, a, s))
<1>1. a \in DOMAIN b /\ b[a] = bundle[a]
  BY DEF Filed, Joined
<1>. QED  BY <1>1, MissingIsWithout

LEMMA FiledAdds ==
  ASSUME NEW payload, NEW b, b = Filed(payload), Head(calls).adapter \notin DOMAIN bundle, NEW s
  PROVE  /\ Head(calls).adapter \in DOMAIN b
         /\ Missing(b, Head(calls).adapter, s) <=> Without(payload, s)
<1>1. Head(calls).adapter \in DOMAIN b /\ b[Head(calls).adapter] = payload
  BY DEF Filed, Joined
<1>. QED  BY <1>1, MissingIsWithout

LEMMA CallLeavesTheRest ==
  ASSUME CallsAreLeft, calls # <<>>, calls' = Tail(calls), check' = check,
         NEW payload, bundle' = Filed(payload)
  PROVE  /\ CallsAreLeft'
         /\ Head(calls) \in Range(Checks[check])
         /\ Head(calls).adapter \notin DOMAIN bundle
<1>. DEFINE S == Range(Checks[check])
<1>1. calls \in Seq(S) /\ calls # <<>>
  BY DEF CallsAreLeft
<1>2. /\ Head(calls) = calls[1] /\ 1 \in DOMAIN calls /\ calls[1] \in S
      /\ Tail(calls) \in Seq(S)
      /\ \A i \in DOMAIN Tail(calls) :
           i + 1 \in DOMAIN calls /\ Tail(calls)[i] = calls[i + 1] /\ i \in Nat /\ i + 1 # 1
  BY <1>1
<1>3. DOMAIN bundle' = DOMAIN bundle \cup {calls[1].adapter}
  BY <1>2 DEF Filed, Joined
<1>4. \A i \in DOMAIN Tail(calls) : Tail(calls)[i].adapter \notin DOMAIN bundle'
  BY <1>2, <1>3 DEF CallsAreLeft
<1>5. \A i, j \in DOMAIN Tail(calls) :
        Tail(calls)[i].adapter = Tail(calls)[j].adapter => i = j
  <2>. SUFFICES ASSUME NEW i \in DOMAIN Tail(calls), NEW j \in DOMAIN Tail(calls),
                       Tail(calls)[i].adapter = Tail(calls)[j].adapter
                PROVE  i = j
    OBVIOUS
  <2>1. i + 1 = j + 1
    BY <1>2 DEF CallsAreLeft
  <2>. QED  BY <1>2, <2>1
<1>. QED  BY <1>2, <1>4, <1>5 DEF CallsAreLeft

LEMMA CallKeepsInv ==
  ASSUME EvidenceInv, CallAdapter
  PROVE  EvidenceInv'
<1>. DEFINE first == Head(calls)
            a == first.adapter
<1>1. PICK loss \in LossesOf(first) :
        /\ bundle' = Filed(Payload(a, Answers(first, tenant, loss)))
        /\ losses' = losses \cup {[adapter |-> a, read |-> m, loss |-> loss[m]] :
                                    m \in {m \in DOMAIN loss : loss[m] # "whole"}}
  BY DEF CallAdapter
<1>2. /\ CallsAreLeft' /\ first \in Range(Checks[check]) /\ a \notin DOMAIN bundle
  BY <1>1, CallLeavesTheRest DEF EvidenceInv, CallAdapter
<1>3. LossesAreMissing'
  <2>1. ASSUME NEW l \in losses
        PROVE  l.adapter \in DOMAIN bundle'
               /\ \A s : Takes(l, l.adapter, s) => Missing(bundle', l.adapter, s)
    BY <1>1, FiledKeeps DEF EvidenceInv, LossesAreMissing
  <2>2. ASSUME NEW m \in DOMAIN loss, loss[m] # "whole", NEW l,
               l = [adapter |-> a, read |-> m, loss |-> loss[m]]
        PROVE  l.adapter \in DOMAIN bundle'
               /\ \A s : Takes(l, l.adapter, s) => Missing(bundle', l.adapter, s)
    <3>1. m \in DOMAIN first.reads /\ loss[m] \in Losses(first, m)
      BY DEF LossesOf
    <3>2. check \in DOMAIN Checks
      BY DEF EvidenceInv, CallsAreLeft
    <3>3. loss[m] # "failed"
      BY <1>2, <3>1, <3>2, ReadsAreNamed
    <3>4. ASSUME NEW s, Takes(l, a, s)
          PROVE  Without(Payload(a, Answers(first, tenant, loss)), s)
      <4>1. loss[m] \in {"absent", "refused"}
        BY <2>2, <3>3, <3>4, TakesIsALoss
      <4>2. ReadLost(Answers(first, tenant, loss), m, loss[m])
        BY <4>1, AnswersLack
      <4>. QED  BY <2>2, <3>3, <3>4, <4>2, PayloadIsWithout
    <3>5. a \in DOMAIN bundle'
      BY <1>1, <1>2, FiledAdds
    <3>6. \A s : Without(Payload(a, Answers(first, tenant, loss)), s) => Missing(bundle', a, s)
      BY <1>1, <1>2, FiledAdds
    <3>. QED  BY <2>2, <3>4, <3>5, <3>6
  <2>. QED  BY <1>1, <2>1, <2>2 DEF LossesAreMissing
<1>4. VerdictIsLast'
  BY DEF EvidenceInv, VerdictIsLast, CallAdapter
<1>. QED  BY <1>2, <1>3, <1>4 DEF EvidenceInv

LEMMA FailureKeepsInv ==
  ASSUME EvidenceInv, BridgeFails
  PROVE  EvidenceInv'
<1>. DEFINE a == Head(calls).adapter
            l == [adapter |-> a, read |-> "all", loss |-> "failed"]
<1>1. PICK payload \in FailedPayloads(a) : bundle' = Filed(payload)
  BY DEF BridgeFails
<1>2. CallsAreLeft' /\ a \notin DOMAIN bundle
  BY <1>1, CallLeavesTheRest DEF EvidenceInv, BridgeFails
<1>3. LossesAreMissing'
  <2>1. \A k \in losses : k.adapter \in DOMAIN bundle'
          /\ \A s : Takes(k, k.adapter, s) => Missing(bundle', k.adapter, s)
    BY <1>1, FiledKeeps DEF EvidenceInv, LossesAreMissing
  <2>2. l.adapter \in DOMAIN bundle' /\ \A s : Missing(bundle', l.adapter, s)
    BY <1>1, <1>2, FiledAdds, FailedCallCarriesNothing
  <2>3. losses' = losses \cup {l}
    BY DEF BridgeFails
  <2>. QED  BY <2>1, <2>2, <2>3 DEF LossesAreMissing
<1>4. VerdictIsLast'
  BY DEF EvidenceInv, VerdictIsLast, BridgeFails
<1>. QED  BY <1>2, <1>3, <1>4 DEF EvidenceInv

LEMMA JudgeKeepsInv ==
  ASSUME EvidenceInv, Judge
  PROVE  EvidenceInv'
<1>1. CallsAreLeft' /\ LossesAreMissing'
  BY DEF Judge, EvidenceInv, CallsAreLeft, LossesAreMissing, Missing, FailedRuntime, Usable, Found
<1>2. VerdictIsLast'
  <2>1. Verdict(check, bundle, options)' = Verdict(check, bundle, options)
    BY DEF Judge
  <2>. QED  BY <2>1 DEF Judge, VerdictIsLast
<1>. QED  BY <1>1, <1>2 DEF EvidenceInv

LEMMA PolicyKeepsInv == EvidenceInv /\ [PolicyNext]_policyVars => EvidenceInv'
<1>. SUFFICES ASSUME EvidenceInv, [PolicyNext]_policyVars
              PROVE  EvidenceInv'
  OBVIOUS
<1>1. CASE UNCHANGED policyVars
  <2>1. CallsAreLeft' /\ LossesAreMissing'
    BY <1>1 DEF policyVars, EvidenceInv, CallsAreLeft, LossesAreMissing, Missing, FailedRuntime,
       Usable, Found
  <2>2. VerdictIsLast'
    BY <1>1 DEF policyVars, EvidenceInv, VerdictIsLast
  <2>. QED  BY <2>1, <2>2 DEF EvidenceInv
<1>. QED  BY <1>1, CallKeepsInv, FailureKeepsInv, JudgeKeepsInv DEF PolicyNext

LEMMA PolicyInitEstablishesInv == PolicyInit => EvidenceInv
<1>. SUFFICES ASSUME PolicyInit PROVE EvidenceInv
  OBVIOUS
<1>1. DOMAIN bundle = {}
  BY DEF PolicyInit
<1>2. CallsAreLeft
  BY <1>1, CalledOnce DEF PolicyInit, CallsAreLeft
<1>. QED  BY <1>2 DEF PolicyInit, EvidenceInv, LossesAreMissing, VerdictIsLast

\* What a check has lost, when ls is what was lost on the way.
LostTo(ls, c) == EvidenceLost(c, LAMBDA a, s : \E l \in ls : Takes(l, a, s))
FailedCall(a) == [adapter |-> a, read |-> "all", loss |-> "failed"]

\* When all that is lost is missing, so is all the evidence that rests on it.
LEMMA LossReachesTheBundle ==
  ASSUME NEW ls, NEW b, NEW c, LostTo(ls, c),
         \A l \in ls : \A s : Takes(l, l.adapter, s) => Missing(b, l.adapter, s)
  PROVE  LostFrom(b, c)
<1>. DEFINE gone(a, s) == \E l \in ls : Takes(l, a, s)
            missing(a, s) == Missing(b, a, s)
<1>1. \A a, s : gone(a, s) => missing(a, s)
  <2>. SUFFICES ASSUME NEW a, NEW s, NEW l \in ls, Takes(l, a, s)
                PROVE  missing(a, s)
    OBVIOUS
  <2>1. l.adapter = a
    BY DEF Takes
  <2>. QED  BY <2>1
<1>2. EvidenceLost(c, gone)
  BY DEF LostTo
<1>. HIDE DEF gone, missing
<1>3. EvidenceLost(c, missing)
  <2>1. MailLost(c, gone) => MailLost(c, missing)
    BY <1>1 DEF MailLost
  <2>2. ThreatLost(c, gone) => ThreatLost(c, missing)
    BY <1>1 DEF ThreatLost
  <2>3. ComplianceLost(c, gone) => ComplianceLost(c, missing)
    BY <1>1 DEF ComplianceLost
  <2>4. SharingLost(c, gone) => SharingLost(c, missing)
    BY <1>1 DEF SharingLost
  <2>5. TeamsLost(c, gone) => TeamsLost(c, missing)
    BY <1>1 DEF TeamsLost
  <2>6. PowerLost(c, gone) => PowerLost(c, missing)
    BY <1>1 DEF PowerLost
  <2>7. EndpointLost(c, gone) => EndpointLost(c, missing)
    BY <1>1 DEF EndpointLost
  <2>8. IdentityLost(c, gone) => IdentityLost(c, missing)
    BY <1>1 DEF IdentityLost
  <2>9. PlatformLost(c, gone) => PlatformLost(c, missing)
    BY <1>1 DEF PlatformLost
  <2>. QED  BY <1>2, <2>1, <2>2, <2>3, <2>4, <2>5, <2>6, <2>7, <2>8, <2>9 DEF EvidenceLost
<1>. QED  BY <1>3 DEF LostFrom, missing

LEMMA EvidenceInvKeepsThePromise == EvidenceInv => LostEvidenceIsNeverJudged
<1>. SUFFICES ASSUME EvidenceInv, verdict \in Definite, LostTo(losses, check)
              PROVE  FALSE
  BY DEF LostEvidenceIsNeverJudged, LostTo
<1>1. verdict = Verdict(check, bundle, options)
  BY DEF EvidenceInv, VerdictIsLast, Definite, NotYet
<1>2. LostFrom(bundle, check)
  BY LossReachesTheBundle DEF EvidenceInv, LossesAreMissing
<1>. QED  BY <1>1, <1>2, LostFromHasNoVerdict

-----------------------------------------------------------------------------
(***************************************************************************)
(* From the process to the verdict.                                        *)
(***************************************************************************)

\* The child ended by itself, and its whole answer is the data of the adapter.
AnsweredWhole ==
  Admitted(call) /\ fate = "data" /\ child = "ended"
    /\ result.bytes["stdout"] = job.emits["stdout"]

\* The envelope as the collectors read it: its health, and the words looked for in
\* its reason.
Told(words) == [health |-> envelope.health, reason |-> words]

\* A call that is running was admitted, and one that was not has its refusal.
GuardsHold == /\ phase = "running" => Admitted(call)
              /\ phase = "done" /\ ~Admitted(call) => envelope = Refusal(call)

LEMMA GuardsInvariant == Spec => []GuardsHold
<1>1. Init => GuardsHold
  BY DEF Init, GuardsHold
<1>2. GuardsHold /\ [Next]_vars => GuardsHold'
  BY DEF GuardsHold, Next, vars, Refuse, Start, Run, Running, Map, Escape, Admitted
<1>. QED  BY <1>1, <1>2, PTL DEF Spec

LEMMA UnhealthyUnlessWhole ==
  ASSUME BridgeInv, GuardsHold, phase = "done", ~AnsweredWhole
  PROVE  envelope.health \in {"denied", "unavailable", "unsupported", "error"}
<1>1. CASE ~Admitted(call)
  <2>1. envelope = Refusal(call) /\ Refusal(call) # NoEnvelope
    BY <1>1 DEF GuardsHold, Admitted
  <2>2. \/ Refusal(call) = NoEnvelope
        \/ Refusal(call).health \in {"unsupported", "unavailable", "error"}
    BY DEF Refusal, Envelope
  <2>. QED  BY <2>1, <2>2
<1>2. CASE Admitted(call)
  <2>1. Answered
    BY <1>2 DEF Answered
  <2>2. envelope.health # "error" =>
          /\ envelope.health = HealthOfFate(fate) /\ child = "ended"
          /\ result.bytes["stdout"] = job.emits["stdout"]
    BY <2>1, InvariantTypesWholes DEF TypedAnswerIsWhole
  <2>3. HealthOfFate(fate) \in {"denied", "unavailable", "unsupported", "error"}
          \/ fate = "data"
    BY DEF HealthOfFate
  <2>. QED  BY <1>2, <2>2, <2>3 DEF AnsweredWhole
<1>. QED  BY <1>1, <1>2

-----------------------------------------------------------------------------
(* The theorems.                                                            *)

\* The four actors keep what they rely on.
THEOREM BridgeInvariant == Spec => []BridgeInv
BY InitEstablishesInv, BridgeKeepsInv, PTL DEF Spec

\* Whatever is not an error is the whole answer of a child that ended by itself.
THEOREM TypedAnswerIsWholeHolds == Spec => []TypedAnswerIsWhole
BY BridgeInvariant, InvariantTypesWholes, PTL

\* Whatever is an error names the limit that was hit.
THEOREM ReasonNamesItsCauseHolds == Spec => []ReasonNamesItsCause
BY BridgeInvariant, InvariantNamesCauses, PTL

\* An answer within all limits is not lost.
THEOREM AnswerIsNotLostHolds == Spec => []AnswerIsNotLost
BY BridgeInvariant, InvariantLosesNothing, PTL

\* An answer leaves no child behind.
THEOREM NoChildIsLeftBehindHolds == Spec => []NoChildIsLeftBehind
<1>1. BridgeInv => NoChildIsLeftBehind
  BY WhatAnEnvelopeSays DEF NoChildIsLeftBehind
<1> QED
  BY <1>1, BridgeInvariant, PTL

\* What is lost is never judged, whatever was read besides: no group of checks says
\* "ok" or "gap" on a bundle that does not have what its check rests on, for every
\* bundle and all options.
THEOREM LostEvidenceHasNoVerdict ==
  \A c, b, o : LostFrom(b, c) => Verdict(c, b, o) \notin Definite
BY LostFromHasNoVerdict

\* Whatever is lost on the way is missing from the bundle, once and for all.
THEOREM EvidenceInvariant == PolicySpec => []EvidenceInv
BY PolicyInitEstablishesInv, PolicyKeepsInv, PTL DEF PolicySpec

\* A check that passes or fails has lost none of the surfaces it rests on: an absent
\* or refused cmdlet, a refused request and a failed call get through the adapter, the
\* collector and the evaluator as what they are.
THEOREM LostEvidenceIsNeverJudgedHolds == PolicySpec => []LostEvidenceIsNeverJudged
BY EvidenceInvariant, EvidenceInvKeepsThePromise, PTL

\* A call whose child was killed, timed out, was cut, crashed or was not started at
\* all is to the collectors one of the failed calls of PolicyScan.
THEOREM UnfinishedCallFails ==
  Spec => [](phase = "done" /\ ~AnsweredWhole =>
               \A a \in PowerShellAdapters, words \in SUBSET {"disconnect", "module"} :
                 CollectedPayload(a, Told(words)) \in FailedPayloads(a))
<1>1. BridgeInv /\ GuardsHold =>
        (phase = "done" /\ ~AnsweredWhole =>
           \A a \in PowerShellAdapters, words \in SUBSET {"disconnect", "module"} :
             CollectedPayload(a, Told(words)) \in FailedPayloads(a))
  <2>. SUFFICES ASSUME BridgeInv, GuardsHold, phase = "done", ~AnsweredWhole,
                       NEW a \in PowerShellAdapters,
                       NEW words \in SUBSET {"disconnect", "module"}
                PROVE  CollectedPayload(a, Told(words)) \in FailedPayloads(a)
    OBVIOUS
  <2>1. Told(words) \in FailedEnvelopes
    BY UnhealthyUnlessWhole DEF Told, FailedEnvelopes
  <2>. QED  BY <2>1 DEF FailedPayloads
<1>. QED  BY <1>1, BridgeInvariant, GuardsInvariant, PTL

\* From the process to the verdict: after such a call no check that rests on its
\* adapter passes or fails, whatever the rest of the bundle is.
THEOREM UnfinishedCallIsNotJudged ==
  Spec => [](phase = "done" /\ ~AnsweredWhole =>
               \A a \in PowerShellAdapters : \A words, b, c, o :
                 /\ a \in DOMAIN b /\ b[a] = CollectedPayload(a, Told(words))
                 /\ LostTo({FailedCall(a)}, c)
                 => Verdict(c, b, o) \notin Definite)
<1>1. BridgeInv /\ GuardsHold =>
        (phase = "done" /\ ~AnsweredWhole =>
           \A a \in PowerShellAdapters : \A words, b, c, o :
             /\ a \in DOMAIN b /\ b[a] = CollectedPayload(a, Told(words))
             /\ LostTo({FailedCall(a)}, c)
             => Verdict(c, b, o) \notin Definite)
  <2>. SUFFICES ASSUME BridgeInv, GuardsHold, phase = "done", ~AnsweredWhole,
                       NEW a \in PowerShellAdapters, NEW words, NEW b, NEW c, NEW o,
                       a \in DOMAIN b, b[a] = CollectedPayload(a, Told(words)),
                       LostTo({FailedCall(a)}, c)
                PROVE  Verdict(c, b, o) \notin Definite
    OBVIOUS
  <2>1. Told(words).health # "ok"
    BY UnhealthyUnlessWhole DEF Told
  <2>2. \A s : Missing(b, a, s)
    BY <2>1, UnhealthyCarriesNothing, MissingIsWithout
  <2>3. \A l \in {FailedCall(a)} : \A s : Takes(l, l.adapter, s) => Missing(b, l.adapter, s)
    BY <2>2 DEF FailedCall
  <2>4. LostFrom(b, c)
    BY <2>3, LossReachesTheBundle
  <2>. QED  BY <2>4, LostFromHasNoVerdict
<1>. QED  BY <1>1, BridgeInvariant, GuardsInvariant, PTL
=============================================================================
