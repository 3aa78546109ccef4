--------------------------- MODULE EvidencePlanner --------------------------
(***************************************************************************)
(* engine/planner.py: EvidencePlanner builds a collection plan by a        *)
(* depth-first visit of the evidence the selected checks require, then     *)
(* runs the collectors one after the other in plan order.                  *)
(*                                                                         *)
(* The recursion of _visit is the stack of keys being visited.  In the     *)
(* code a key enters "temporary" as its frame is pushed and leaves it for  *)
(* "permanent" as its collector is appended to "ordered", so the two sets  *)
(* are the ranges of the two sequences.  A dependency that is already      *)
(* permanent is a visit that returns at once; the visits that do something *)
(* are those of the least dependency not yet permanent, in sorted order.   *)
(***************************************************************************)
EXTENDS EvidenceGraph

CONSTANT Outcome    \* healths a collector's own envelope may carry

ASSUME OutcomesAreHealths == Outcome \subseteq Health

VARIABLES
  config,     \* the input of this run, never changed
  phase,      \* "new", "visit", "collect", "plan_error", "done" or "aborted"
  stack,      \* keys whose _visit is in progress, innermost last
  ordered,    \* PlanBuildState.ordered, then CollectionPlan.steps
  next,       \* index of the next plan step
  envelopes,  \* health of the envelopes recorded so far, by key
  calls       \* history: the collectors called, in order

vars == <<config, phase, stack, ordered, next, envelopes, calls>>
planVars == <<stack, ordered>>
runVars == <<next, envelopes, calls>>

Phase == {"new", "visit", "collect", "plan_error", "done", "aborted"}

Temporary == Range(stack)
Permanent == Range(ordered)

\* sorted(...): the first key of a nonempty set
First(S) == CHOOSE k \in S : \A j \in S : k <= j

Top == stack[Len(stack)]

Init == /\ config \in Configs
        /\ phase = "new"
        /\ stack = <<>>
        /\ ordered = <<>>
        /\ next = 1
        /\ envelopes = <<>>
        /\ calls = <<>>

-----------------------------------------------------------------------------
(***************************************************************************)
(* Planning.                                                               *)
(***************************************************************************)

\* EvidencePlanner.__init__: _build_producers raises on a duplicate
Construct ==
  /\ phase = "new"
  /\ phase' = IF DuplicateProducer(config) THEN "plan_error" ELSE "visit"
  /\ UNCHANGED <<config, planVars, runVars>>

\* Mutant of Pending: only the keys of the checks are visited, not what they depend on
PendingRootsOnly == IF stack = <<>> THEN RequiredKeys(config) \ Permanent ELSE {}

\* Mutant of Pending: a key whose visit is in progress is passed over, not reported
PendingSkipsTemporary ==
  (IF stack = <<>> THEN RequiredKeys(config) ELSE DependsOn(config, Top))
    \ (Permanent \cup Temporary)

\* keys the running loop has still to visit: of the checks, or of the top frame
Pending == (IF stack = <<>> THEN RequiredKeys(config) ELSE DependsOn(config, Top))
             \ Permanent

\* _visit(key): the guards of the call, in the order of the code
VisitRaises(k) == k \in Temporary \/ k \notin Produced(config)

Enter ==
  /\ phase = "visit"
  /\ Pending # {}
  /\ ~VisitRaises(First(Pending))
  /\ stack' = Append(stack, First(Pending))
  /\ UNCHANGED <<config, phase, ordered, runVars>>

\* Mutant of Reject: only the missing producer is reported; a cycle is never left
RejectMissingOnly ==
  /\ phase = "visit"
  /\ Pending # {}
  /\ First(Pending) \notin Produced(config)
  /\ phase' = "plan_error"
  /\ UNCHANGED <<config, planVars, runVars>>

Reject ==
  /\ phase = "visit"
  /\ Pending # {}
  /\ VisitRaises(First(Pending))
  /\ phase' = "plan_error"
  /\ UNCHANGED <<config, planVars, runVars>>

\* the end of _visit: every dependency is permanent
Leave ==
  /\ phase = "visit"
  /\ stack # <<>>
  /\ Pending = {}
  /\ ordered' = Append(ordered, Top)
  /\ stack' = SubSeq(stack, 1, Len(stack) - 1)
  /\ UNCHANGED <<config, phase, runVars>>

\* Mutant of Planned: the loop over the required keys ends after the first
PlannedEarly ==
  /\ phase = "visit"
  /\ stack = <<>>
  /\ ordered # <<>>
  /\ phase' = "collect"
  /\ UNCHANGED <<config, planVars, runVars>>

\* build_plan returns
Planned ==
  /\ phase = "visit"
  /\ stack = <<>>
  /\ Pending = {}
  /\ phase' = "collect"
  /\ UNCHANGED <<config, planVars, runVars>>

-----------------------------------------------------------------------------
(***************************************************************************)
(* Collecting: one step of the plan at a time.                             *)
(***************************************************************************)
Current == ordered[next]

\* envelopes.get(dependency, EvidenceEnvelope.missing(dependency)).health
HealthOf(k) == IF k \in DOMAIN envelopes THEN envelopes[k] ELSE "missing"

\* Mutant of Blocked: any unusable evidence so far blocks the rest of the run
BlockedByAnything(k) == \E d \in DOMAIN envelopes : ~IsUsable(envelopes[d])

\* Mutant of Blocked: only evidence never collected blocks
BlockedByMissingOnly(k) == \E d \in DependsOn(config, k) : HealthOf(d) = "missing"

\* _blocked_dependency(...) is not None
Blocked(k) == \E d \in DependsOn(config, k) : ~IsUsable(HealthOf(d))

\* envelopes[spec.produces] = envelope, and on to the next step
Record(h) ==
  /\ envelopes' = [k \in DOMAIN envelopes \cup {Current} |->
                     IF k = Current THEN h ELSE envelopes[k]]
  /\ next' = next + 1
  /\ UNCHANGED <<config, phase, planVars>>

AtStep == phase = "collect" /\ next <= Len(ordered)

\* Mutant of SkipUnsupported: a failed dependency is looked at before the cloud
SkipUnsupportedLast ==
  /\ AtStep
  /\ ~Producer(config, Current).supported
  /\ Record(IF Blocked(Current) THEN "unavailable" ELSE "unsupported")
  /\ UNCHANGED calls

SkipUnsupported ==
  /\ AtStep
  /\ ~Producer(config, Current).supported
  /\ Record("unsupported")
  /\ UNCHANGED calls

SkipBlocked ==
  /\ AtStep
  /\ Producer(config, Current).supported
  /\ Blocked(Current)
  /\ Record("unavailable")
  /\ UNCHANGED calls

Callable == /\ AtStep
            /\ Producer(config, Current).supported
            /\ ~Blocked(Current)

\* the collector returns an envelope for its own key: taken as it is
CollectorReturns ==
  /\ Callable
  /\ \E h \in Outcome : Record(h)
  /\ calls' = Append(calls, Current)

\* Mutant of CollectorFails: an envelope for another key is stored under that key
CollectorStoresForeignKey ==
  /\ Callable
  /\ \E k \in Key \ {Current}, h \in Outcome :
       envelopes' = [j \in DOMAIN envelopes \cup {k} |->
                       IF j = k THEN h ELSE envelopes[j]]
  /\ next' = next + 1
  /\ UNCHANGED <<config, phase, planVars>>
  /\ calls' = Append(calls, Current)

\* the collector raises, or returns an envelope for another key
CollectorFails ==
  /\ Callable
  /\ Record("error")
  /\ calls' = Append(calls, Current)

Finish ==
  /\ phase = "collect"
  /\ next > Len(ordered)
  /\ phase' = "done"
  /\ UNCHANGED <<config, planVars, runVars>>

\* the progress callback raises, or the operator interrupts the run: collect()
\* propagates the exception and returns no result
Abort ==
  /\ phase = "collect"
  /\ phase' = "aborted"
  /\ UNCHANGED <<config, planVars, runVars>>

Plan == Construct \/ Enter \/ Reject \/ Leave \/ Planned
Collect == SkipUnsupported \/ SkipBlocked \/ CollectorReturns \/ CollectorFails \/ Finish

Next == Plan \/ Collect \/ Abort

Spec == Init /\ [][Next]_vars

\* one thread runs the planner and every collector call returns or raises (the
\* clients carry transport timeouts); nothing obliges a run to be aborted
FairSpec == Spec /\ WF_vars(Plan \/ Collect)

-----------------------------------------------------------------------------
(***************************************************************************)
(* CollectionResult.                                                       *)
(***************************************************************************)
RequirementsOf(id) == {i \in SelectedChecks(config) : config.checks[i].id = id}

\* check_health: the worst health among the keys of the first requirement
CheckHealth(id) ==
  IF RequirementsOf(id) = {} THEN "missing"
  ELSE LET keys == config.checks[First(RequirementsOf(id))].keys
           unhealthy == {HealthOf(k) : k \in keys} \ {"ok"}
       IN IF unhealthy = {} THEN "ok" ELSE Worst(unhealthy)

-----------------------------------------------------------------------------
(***************************************************************************)
(* Properties.                                                             *)
(***************************************************************************)

\* The shape of the planner's state: plan and stack hold keys, the plan index
\* stays within one past the plan, envelopes carry healths.
TypeOK ==
  /\ config \in Configs
  /\ phase \in Phase
  /\ stack \in Seq(Key)
  /\ ordered \in Seq(Key)
  /\ next \in 1 .. Len(ordered) + 1
  /\ envelopes \in [{ordered[i] : i \in 1 .. next - 1} -> Health]
  /\ calls \in Seq(Key)

\* The plan is a topological order: no collector is planned twice (two checks
\* sharing evidence share its collection), and each comes after everything it
\* depends on, whatever the order in which checks and dependencies name the keys.
PlanOrder ==
  \A i \in DOMAIN ordered :
    /\ DependsOn(config, ordered[i]) \subseteq {ordered[j] : j \in 1 .. i - 1}
    /\ \A j \in DOMAIN ordered : ordered[i] = ordered[j] => i = j

\* build_plan returns exactly the evidence the selected checks need, directly or
\* through dependencies: nothing is missing, nothing is collected in vain.
PlanExact ==
  phase \in {"collect", "done", "aborted"} => Permanent = Needed(config)

\* CollectionPlanError is raised for a defective input and only for one: a
\* duplicate producer, needed evidence nobody produces, or a dependency cycle
\* among the needed evidence.  A defect elsewhere in the registry is no obstacle.
RefusedIffDefective ==
  /\ phase = "plan_error" => Defective(config)
  /\ phase \in {"collect", "done", "aborted"} => ~Defective(config)

\* A collector is called at most once per run, and only after every dependency
\* was collected with usable evidence (_blocked_dependency).
CallsJustified ==
  \A i \in DOMAIN calls :
    /\ \A d \in DependsOn(config, calls[i]) : HealthOf(d) = "ok"
    /\ \A j \in DOMAIN calls : calls[i] = calls[j] => i = j

\* Failures stay on their branch: evidence that was processed without calling its
\* collector is unsupported on this cloud, or one of its own dependencies failed;
\* and evidence whose dependencies are all usable was really attempted.
BlockedOnlyByDependency ==
  \A k \in DOMAIN envelopes :
    k \in Range(calls) <=> /\ Producer(config, k).supported
                           /\ \A d \in DependsOn(config, k) : HealthOf(d) = "ok"

\* A check reported healthy rests on healthy evidence all the way down: its own
\* keys and everything they were derived from were collected with health ok.
HealthyCheckIsGrounded ==
  phase = "done" =>
    \A id \in CheckId :
      CheckHealth(id) = "ok" =>
        \A k \in Needs(config, config.checks[First(RequirementsOf(id))].keys) :
          HealthOf(k) = "ok"

\* No step of a run rewrites an envelope recorded before: a later collector cannot
\* change what an earlier one was found to be.
EnvelopesAreFinal ==
  [][\A k \in DOMAIN envelopes : k \in DOMAIN envelopes' /\ envelopes'[k] = envelopes[k]]_vars

\* refinement mapping: the phases of the planner, seen from outside
StatusOfPhase ==
  IF phase \in {"new", "visit"} THEN "planning"
  ELSE IF phase = "collect" THEN "collecting"
  ELSE IF phase = "plan_error" THEN "refused"
  ELSE phase

\* The planner implements evidence collection as EvidenceCollection promises it.
Abstract == INSTANCE EvidenceCollection WITH status <- StatusOfPhase, health <- envelopes

Implements == Abstract!Spec

\* Every run ends with a result, a plan error or an exception: the visit of a
\* cyclic graph does not recurse for ever and every planned step is taken.
Terminates == <>(phase \in {"plan_error", "done", "aborted"})
=============================================================================
