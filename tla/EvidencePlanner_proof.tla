------------------------ MODULE EvidencePlanner_proof -----------------------
(***************************************************************************)
(* Proofs about EvidencePlanner, for every registry of collectors, every   *)
(* selection of checks and every outcome of the collectors.                *)
(*                                                                         *)
(* The argument: the visit keeps the plan closed under dependencies and    *)
(* the stack a dependency path that avoids the plan (PlanInv); collection  *)
(* walks that plan front to back, so the envelopes are those of a prefix   *)
(* of it, and each was recorded for the reason the code gives (RunInv).    *)
(***************************************************************************)
EXTENDS EvidencePlanner, WellFoundedInduction, SequenceTheorems, TLAPS

\* A nonempty set of keys has a first one, so the loops over sorted keys are defined.
LEMMA FirstIsLeast ==
  ASSUME NEW S \in SUBSET Nat, S # {}
  PROVE  First(S) \in S /\ \A j \in S : First(S) <= j
<1> DEFINE R == {ss \in Nat \X Nat : ss[1] < ss[2]}
<1>1. IsWellFoundedOn(R, Nat)
  BY NatLessThanWellFounded DEF OpToRel
<1>2. PICK k \in S : \A j \in S : ~ (<<j, k>> \in R)
  <2> HIDE DEF R
  <2> QED BY <1>1, WFMin
<1>3. ASSUME NEW j \in S PROVE k <= j
  <2>1. j \in Nat /\ k \in Nat
    OBVIOUS
  <2>2. j < k => <<j, k>> \in R
    BY <2>1
  <2>3. ~ (j < k)
    BY <1>2, <2>2
  <2>4. QED
    BY <2>1, <2>3
<1>4. \E i \in S : \A j \in S : i <= j
  BY <1>3
<1>5. QED
  BY ONLY <1>4, Zenon DEF First

-----------------------------------------------------------------------------
(***************************************************************************)
(* Facts about an input.                                                   *)
(***************************************************************************)

\* The collector found for a produced key is one of the registered ones.
LEMMA ProducerIsRegistered ==
  ASSUME NEW c \in Configs, NEW k \in Produced(c)
  PROVE  Producer(c, k) \in CollectorSpec
<1>1. c.collectors \in Seq(CollectorSpec)
  BY ConfigsAreInputs
<1>2. PICK i \in DOMAIN c.collectors :
        /\ c.collectors[i].produces = k
        /\ i = CHOOSE j \in DOMAIN c.collectors : c.collectors[j].produces = k
  <2>1. \E j \in DOMAIN c.collectors : c.collectors[j].produces = k
    BY DEF Produced
  <2>2. QED
    BY <2>1, Zenon
<1>3. c.collectors[i] \in CollectorSpec
  BY <1>1
<1>4. QED
  BY <1>2, <1>3 DEF Producer

\* Keys only: what an input names as produced, required or depended on.
LEMMA InputsAreKeys ==
  ASSUME NEW c \in Configs
  PROVE  /\ Produced(c) \subseteq Key
         /\ RequiredKeys(c) \subseteq Key
         /\ \A k : DependsOn(c, k) \subseteq Key
<1>1. c.collectors \in Seq(CollectorSpec) /\ c.checks \in Seq(CheckEvidenceRequirement)
  BY ConfigsAreInputs
<1>2. Produced(c) \subseteq Key
  <2>1. \A i \in DOMAIN c.collectors : c.collectors[i] \in CollectorSpec
    BY <1>1
  <2>2. \A i \in DOMAIN c.collectors : c.collectors[i].produces \in Key
    BY <2>1 DEF CollectorSpec
  <2>3. QED
    BY <2>2 DEF Produced
<1>3. RequiredKeys(c) \subseteq Key
  <2>1. \A i \in DOMAIN c.checks : c.checks[i] \in CheckEvidenceRequirement
    BY <1>1
  <2>2. \A i \in DOMAIN c.checks : c.checks[i].keys \subseteq Key
    BY <2>1 DEF CheckEvidenceRequirement
  <2>3. QED
    BY <2>2 DEF RequiredKeys, SelectedChecks
<1>4. ASSUME NEW k PROVE DependsOn(c, k) \subseteq Key
  BY ProducerIsRegistered DEF DependsOn, CollectorSpec
<1>5. QED
  BY <1>2, <1>3, <1>4

\* Needs(c, R) holds R and is closed under dependencies.
LEMMA NeedsIsClosed ==
  ASSUME NEW c \in Configs, NEW R \in SUBSET Key
  PROVE  /\ R \subseteq Needs(c, R)
         /\ ClosedUnderDependsOn(c, Needs(c, R))
<1>1. R \subseteq Needs(c, R)
  BY DEF Needs
<1>2. ASSUME NEW k \in Needs(c, R), NEW d \in DependsOn(c, k)
      PROVE  d \in Needs(c, R)
  <2>1. d \in Key
    BY InputsAreKeys
  <2>2. ASSUME NEW S \in SUBSET Key, R \subseteq S, ClosedUnderDependsOn(c, S)
        PROVE  d \in S
    BY <2>2 DEF Needs, ClosedUnderDependsOn
  <2>3. QED
    BY <2>1, <2>2 DEF Needs
<1>3. QED
  BY <1>1, <1>2 DEF ClosedUnderDependsOn

\* ... and is the least such set.
LEMMA NeedsIsLeast ==
  ASSUME NEW c \in Configs, NEW R, NEW S \in SUBSET Key,
         R \subseteq S, ClosedUnderDependsOn(c, S)
  PROVE  Needs(c, R) \subseteq S
  BY DEF Needs

\* A sequence of keys that is a topological order has no cycle among its keys.
LEMMA OrderedIsAcyclic ==
  ASSUME NEW c \in Configs, NEW s \in Seq(Key),
         \A i \in DOMAIN s : DependsOn(c, s[i]) \subseteq {s[j] : j \in 1 .. i - 1},
         Needed(c) \subseteq Range(s)
  PROVE  ~Cyclic(c)
<1> SUFFICES ASSUME NEW C \in SUBSET Needed(c), C # {},
                    \A k \in C : DependsOn(c, k) \cap C # {}
             PROVE  FALSE
  BY DEF Cyclic
<1> DEFINE I == {i \in DOMAIN s : s[i] \in C}
<1>1. I \in SUBSET Nat /\ I # {}
  <2>1. DOMAIN s = 1 .. Len(s)
    OBVIOUS
  <2>2. PICK k \in C : k \in Range(s)
    OBVIOUS
  <2>3. \E i \in DOMAIN s : s[i] = k
    BY <2>2 DEF Range
  <2>4. QED
    BY <2>1, <2>2, <2>3
<1>2. PICK i \in I : \A j \in I : i <= j
  <2> HIDE DEF I
  <2> QED BY <1>1, FirstIsLeast
<1>3. PICK d \in DependsOn(c, s[i]) : d \in C
  OBVIOUS
<1>4. PICK j \in 1 .. i - 1 : s[j] = d
  BY <1>3
<1>5. j \in I /\ j < i
  BY <1>3, <1>4
<1>6. QED
  BY <1>2, <1>5

\* The keys of a sequence after one more is appended, and after the last is dropped.
LEMMA RangeAfterAppend ==
  ASSUME NEW S, NEW s \in Seq(S), NEW e \in S
  PROVE  /\ Append(s, e) \in Seq(S)
         /\ Len(Append(s, e)) = Len(s) + 1
         /\ \A i \in 1 .. Len(s) : Append(s, e)[i] = s[i]
         /\ Append(s, e)[Len(s) + 1] = e
         /\ Range(Append(s, e)) = Range(s) \cup {e}
  BY AppendProperties DEF Range

LEMMA PopProperties ==
  ASSUME NEW S, NEW s \in Seq(S), s # <<>>
  PROVE  /\ SubSeq(s, 1, Len(s) - 1) \in Seq(S)
         /\ Len(SubSeq(s, 1, Len(s) - 1)) = Len(s) - 1
         /\ \A i \in 1 .. Len(s) - 1 : SubSeq(s, 1, Len(s) - 1)[i] = s[i]
<1>1. Len(s) \in Nat /\ Len(s) # 0
  OBVIOUS
<1>2. \A i \in 1 .. Len(s) - 1 : s[i] \in S
  OBVIOUS
<1>3. SubSeq(s, 1, Len(s) - 1) \in Seq(S)
  BY <1>1, <1>2
<1>4. Len(SubSeq(s, 1, Len(s) - 1)) = Len(s) - 1
  <2>1. Len(s) - 1 \in Int /\ 1 \in Int
    BY <1>1
  <2> DEFINE t == SubSeq(s, 1, Len(s) - 1)
  <2>2. Len(t) = IF 1 <= Len(s) - 1 THEN Len(s) - 1 - 1 + 1 ELSE 0
    BY <2>1, <1>2, SubSeqProperties
  <2> HIDE DEF t
  <2>3. Len(t) = Len(s) - 1
    <3>1. ASSUME NEW m \in Nat, m # 0, NEW l, l = IF 1 <= m - 1 THEN m - 1 - 1 + 1 ELSE 0
          PROVE  l = m - 1
      <4>1. CASE m = 1 BY <4>1, <3>1
      <4>2. CASE m > 1 BY <4>2, <3>1
      <4>3. QED BY <3>1, <4>1, <4>2
    <3>2. QED
      BY <1>1, <2>2, <3>1
  <2>4. QED
    BY <2>3 DEF t
<1>5. \A i \in 1 .. Len(s) - 1 : SubSeq(s, 1, Len(s) - 1)[i] = s[i]
  BY <1>1
<1>6. QED
  BY <1>3, <1>4, <1>5

-----------------------------------------------------------------------------
(***************************************************************************)
(* The planning invariant.                                                 *)
(***************************************************************************)

\* the stack is a path of dependencies, outside the plan, within what is needed
StackIsPath ==
  /\ \A i \in 1 .. Len(stack) - 1 : stack[i + 1] \in DependsOn(config, stack[i])
  /\ \A i, j \in 1 .. Len(stack) : stack[i] = stack[j] => i = j
  /\ Temporary \cap Permanent = {}
  /\ Temporary \cup Permanent \subseteq Needed(config) \cap Produced(config)

PlanInv ==
  /\ config \in Configs
  /\ phase \in Phase
  /\ stack \in Seq(Key)
  /\ ordered \in Seq(Key)
  /\ PlanOrder
  /\ StackIsPath
  /\ phase \in {"visit", "collect", "done", "aborted"} => ~DuplicateProducer(config)
  /\ phase \in {"collect", "done", "aborted"} => RequiredKeys(config) \subseteq Permanent
  /\ phase = "plan_error" => Defective(config)

\* What is left to visit is a set of needed keys, so its first element is one.
LEMMA PendingIsNeeded ==
  ASSUME PlanInv, Pending # {}
  PROVE  /\ First(Pending) \in Pending
         /\ First(Pending) \in Needed(config)
         /\ First(Pending) \in Key
         /\ First(Pending) \notin Permanent
         /\ stack # <<>> => First(Pending) \in DependsOn(config, Top) /\ Top \in Needed(config)
<1>1. /\ config \in Configs /\ stack \in Seq(Key) /\ ordered \in Seq(Key)
      /\ Temporary \subseteq Needed(config)
  BY DEF PlanInv, StackIsPath
<1>2. stack # <<>> => Top \in Needed(config)
  BY <1>1 DEF Top, Temporary, Range
<1>3. /\ RequiredKeys(config) \subseteq Needed(config)
      /\ ClosedUnderDependsOn(config, Needed(config))
  BY <1>1, InputsAreKeys, NeedsIsClosed DEF Needed
<1>4. Pending \subseteq Needed(config)
  BY <1>2, <1>3 DEF Pending, ClosedUnderDependsOn
<1>5. Needed(config) \subseteq Key
  BY DEF Needed, Needs
<1>6. First(Pending) \in Pending
  BY <1>4, <1>5, KeysAreOrdered, FirstIsLeast
<1>7. QED
  BY <1>2, <1>4, <1>5, <1>6 DEF Pending

\* The planning invariant reads nothing that collection changes.
LEMMA PlanInvStable ==
  ASSUME PlanInv, UNCHANGED <<config, planVars>>, phase' \in Phase,
         phase' \in {"visit", "collect", "done", "aborted"} => ~DuplicateProducer(config),
         phase' \in {"collect", "done", "aborted"} => RequiredKeys(config) \subseteq Permanent,
         phase' = "plan_error" => Defective(config)
  PROVE  PlanInv'
  BY DEF PlanInv, PlanOrder, StackIsPath, planVars, Temporary, Permanent

LEMMA EnterPreservesPlanInv ==
  ASSUME PlanInv, Enter
  PROVE  PlanInv'
<1> DEFINE k == First(Pending)
<1>1. /\ k \in Needed(config) /\ k \in Key /\ k \notin Permanent /\ k \notin Temporary
      /\ k \in Produced(config)
      /\ stack # <<>> => k \in DependsOn(config, Top)
  BY PendingIsNeeded DEF Enter, VisitRaises
<1>2. stack \in Seq(Key) /\ stack' = Append(stack, k)
  BY DEF PlanInv, Enter
<1> HIDE DEF k
<1>3. /\ stack' \in Seq(Key)
      /\ Len(stack') = Len(stack) + 1
      /\ \A i \in 1 .. Len(stack) : stack'[i] = stack[i]
      /\ stack'[Len(stack) + 1] = k
      /\ Temporary' = Temporary \cup {k}
  BY <1>1, <1>2, RangeAfterAppend DEF Temporary
<1>4. UNCHANGED <<config, phase, ordered>> /\ Permanent' = Permanent
  BY DEF Enter, Permanent
<1>5. \A i \in 1 .. Len(stack) : stack[i] # k
  BY <1>1, <1>2 DEF Temporary, Range
<1>6. StackIsPath'
  <2>1. ASSUME NEW i \in 1 .. Len(stack') - 1
        PROVE  stack'[i + 1] \in DependsOn(config, stack'[i])
    <3>1. CASE i = Len(stack)
      <4>1. stack # <<>> /\ stack'[i] = Top /\ stack'[i + 1] = k
        BY <1>2, <1>3, <3>1 DEF Top
      <4>2. QED
        BY <1>1, <4>1
    <3>2. CASE i # Len(stack)
      <4>1. Len(stack) \in Nat /\ i \in 1 .. Len(stack) - 1
        BY <1>2, <1>3, <3>2
      <4>2. stack'[i] = stack[i] /\ stack'[i + 1] = stack[i + 1]
        BY <1>3, <4>1
      <4>3. QED
        BY <4>1, <4>2 DEF PlanInv, StackIsPath
    <3>3. QED
      BY <3>1, <3>2
  <2>2. ASSUME NEW i \in 1 .. Len(stack'), NEW j \in 1 .. Len(stack'), stack'[i] = stack'[j]
        PROVE  i = j
    <3>1. \A a, b \in 1 .. Len(stack) : stack[a] = stack[b] => a = b
      BY DEF PlanInv, StackIsPath
    <3>2. QED
      BY <1>2, <1>3, <1>5, <2>2, <3>1
  <2>3. Temporary' \cap Permanent' = {}
    BY <1>1, <1>3, <1>4 DEF PlanInv, StackIsPath
  <2>4. Temporary' \cup Permanent' \subseteq Needed(config) \cap Produced(config)
    BY <1>1, <1>3, <1>4 DEF PlanInv, StackIsPath
  <2>5. QED
    BY <1>4, <2>1, <2>2, <2>3, <2>4 DEF StackIsPath
<1>7. PlanOrder'
  BY <1>4 DEF PlanInv, PlanOrder
<1>8. QED
  BY <1>3, <1>4, <1>6, <1>7 DEF PlanInv, Permanent

LEMMA LeavePreservesPlanInv ==
  ASSUME PlanInv, Leave
  PROVE  PlanInv'
<1>1. /\ stack \in Seq(Key) /\ stack # <<>> /\ ordered \in Seq(Key)
      /\ ordered' = Append(ordered, Top)
      /\ stack' = SubSeq(stack, 1, Len(stack) - 1)
      /\ UNCHANGED <<config, phase>>
  BY DEF PlanInv, Leave
<1>2. Len(stack) \in Nat /\ Len(stack) >= 1 /\ Top \in Key /\ Top \in Temporary
  BY <1>1 DEF Top, Temporary, Range
<1>3. /\ ordered' \in Seq(Key)
      /\ Len(ordered') = Len(ordered) + 1
      /\ \A i \in 1 .. Len(ordered) : ordered'[i] = ordered[i]
      /\ ordered'[Len(ordered) + 1] = Top
      /\ Permanent' = Permanent \cup {Top}
  BY <1>1, <1>2, RangeAfterAppend DEF Permanent
<1>4. /\ stack' \in Seq(Key)
      /\ Len(stack') = Len(stack) - 1
      /\ \A i \in 1 .. Len(stack') : stack'[i] = stack[i]
  BY <1>1, <1>2, PopProperties
<1>5. Temporary' = Temporary \ {Top}
  <2>1. \A i, j \in 1 .. Len(stack) : stack[i] = stack[j] => i = j
    BY DEF PlanInv, StackIsPath
  <2>2. Temporary = {stack[i] : i \in 1 .. Len(stack)}
    BY <1>1 DEF Temporary, Range
  <2>3. Temporary' = {stack[i] : i \in 1 .. Len(stack) - 1}
    BY <1>4 DEF Temporary, Range
  <2>4. QED
    BY <1>2, <2>1, <2>2, <2>3 DEF Top
<1>6. StackIsPath'
  <2>1. /\ \A i \in 1 .. Len(stack') - 1 : stack'[i + 1] \in DependsOn(config', stack'[i])
        /\ \A i, j \in 1 .. Len(stack') : stack'[i] = stack'[j] => i = j
    BY <1>1, <1>2, <1>4 DEF PlanInv, StackIsPath
  <2>2. /\ Temporary' \cap Permanent' = {}
        /\ Temporary' \cup Permanent' \subseteq Needed(config') \cap Produced(config')
    BY <1>1, <1>2, <1>3, <1>5 DEF PlanInv, StackIsPath
  <2>3. QED
    BY <2>1, <2>2 DEF StackIsPath
<1>7. DependsOn(config, Top) \subseteq Permanent
  BY <1>1 DEF Leave, Pending
<1>8. Top \notin Permanent
  BY <1>2 DEF PlanInv, StackIsPath
<1>9. PlanOrder'
  <2>1. Permanent = {ordered[j] : j \in 1 .. Len(ordered)}
    BY <1>1 DEF Permanent, Range
  <2>2. ASSUME NEW i \in 1 .. Len(ordered')
        PROVE  DependsOn(config, ordered'[i]) \subseteq {ordered'[j] : j \in 1 .. i - 1}
    <3>1. CASE i = Len(ordered) + 1
      <4>1. {ordered'[j] : j \in 1 .. i - 1} = {ordered[j] : j \in 1 .. Len(ordered)}
        BY <1>1, <1>3, <3>1
      <4>2. QED
        BY <1>3, <1>7, <2>1, <3>1, <4>1
    <3>2. CASE i # Len(ordered) + 1
      <4>1. i \in 1 .. Len(ordered)
        BY <1>1, <1>3, <3>2
      <4>2. {ordered'[j] : j \in 1 .. i - 1} = {ordered[j] : j \in 1 .. i - 1}
        BY <1>1, <1>3, <4>1
      <4>3. QED
        BY <1>1, <1>3, <4>1, <4>2 DEF PlanInv, PlanOrder
    <3>3. QED
      BY <3>1, <3>2
  <2>3. ASSUME NEW i \in 1 .. Len(ordered'), NEW j \in 1 .. Len(ordered'),
               ordered'[i] = ordered'[j]
        PROVE  i = j
    <3>1. \A a, b \in 1 .. Len(ordered) : ordered[a] = ordered[b] => a = b
      BY <1>1 DEF PlanInv, PlanOrder
    <3>2. \A a \in 1 .. Len(ordered) : ordered[a] # Top
      BY <1>8, <2>1
    <3>3. QED
      BY <1>1, <1>3, <2>3, <3>1, <3>2
  <2>4. DOMAIN ordered' = 1 .. Len(ordered')
    BY <1>3
  <2>5. QED
    BY <1>1, <2>2, <2>3, <2>4 DEF PlanOrder
<1>10. QED
  BY <1>1, <1>3, <1>4, <1>6, <1>9 DEF PlanInv

\* The visit raises only for a defect: nobody produces the key, or the stack from
\* its earlier visit up to now is a cycle.
LEMMA RejectFindsDefect ==
  ASSUME PlanInv, Reject
  PROVE  Defective(config)
<1> DEFINE k == First(Pending)
<1>1. /\ k \in Needed(config)
      /\ stack # <<>> => k \in DependsOn(config, Top)
      /\ stack \in Seq(Key)
  BY PendingIsNeeded DEF Reject, PlanInv
<1>2. k \in Temporary \/ k \notin Produced(config)
  BY DEF Reject, VisitRaises
<1> HIDE DEF k
<1>3. CASE k \notin Produced(config)
  BY <1>1, <1>3 DEF Defective
<1>4. CASE k \in Temporary
  <2>1. PICK j \in 1 .. Len(stack) : stack[j] = k
    BY <1>1, <1>4 DEF Temporary, Range
  <2> DEFINE C == {stack[i] : i \in j .. Len(stack)}
  <2>2. Len(stack) \in Nat /\ stack # <<>>
    BY <1>1, <2>1
  <2>3. C \subseteq Needed(config)
    BY <1>1, <2>1 DEF PlanInv, StackIsPath, Temporary, Range
  <2>4. k \in C
    BY <2>1, <2>2
  <2>5. ASSUME NEW i \in j .. Len(stack)
        PROVE  DependsOn(config, stack[i]) \cap C # {}
    <3>1. CASE i = Len(stack)
      BY <1>1, <2>2, <2>4, <3>1 DEF Top
    <3>2. CASE i # Len(stack)
      <4>1. i \in 1 .. Len(stack) - 1 /\ i + 1 \in j .. Len(stack)
        BY <2>1, <2>2, <3>2
      <4>2. stack[i + 1] \in DependsOn(config, stack[i])
        BY <4>1 DEF PlanInv, StackIsPath
      <4>3. QED
        BY <4>1, <4>2
    <3>3. QED
      BY <3>1, <3>2
  <2>6. QED
    BY <2>3, <2>4, <2>5 DEF Defective, Cyclic
<1>5. QED
  BY <1>2, <1>3, <1>4

LEMMA PlanInvInit == Init => PlanInv
<1> SUFFICES ASSUME Init PROVE PlanInv
  OBVIOUS
<1>1. stack \in Seq(Key) /\ ordered \in Seq(Key) /\ Len(stack) = 0 /\ DOMAIN ordered = {}
  BY DEF Init
<1>2. Temporary = {} /\ Permanent = {}
  BY DEF Init, Temporary, Permanent, Range
<1>3. QED
  BY <1>1, <1>2 DEF Init, PlanInv, PlanOrder, StackIsPath, Phase

LEMMA PlanInvStep ==
  ASSUME PlanInv, [Next]_vars
  PROVE  PlanInv'
<1>1. CASE Construct
  BY <1>1, PlanInvStable DEF Construct, Phase, PlanInv, Defective
<1>2. CASE Enter
  BY <1>2, EnterPreservesPlanInv
<1>3. CASE Reject
  BY <1>3, RejectFindsDefect, PlanInvStable DEF Reject, Phase
<1>4. CASE Leave
  BY <1>4, LeavePreservesPlanInv
<1>5. CASE Planned
  <2>1. RequiredKeys(config) \subseteq Permanent
    BY <1>5 DEF Planned, Pending
  <2>2. QED
    BY <1>5, <2>1, PlanInvStable DEF Planned, Phase, PlanInv
<1>6. CASE Collect
  <2>1. /\ UNCHANGED <<config, planVars>>
        /\ phase' \in {"collect", "done"}
        /\ phase = "collect"
    BY <1>6 DEF Collect, SkipUnsupported, SkipBlocked, CollectorReturns, CollectorFails,
                Finish, Record, Callable, AtStep
  <2>2. QED
    BY <2>1, PlanInvStable DEF PlanInv, Phase
<1>7. CASE Abort
  BY <1>7, PlanInvStable DEF Abort, PlanInv, Phase
<1>8. CASE UNCHANGED vars
  BY <1>8, PlanInvStable DEF vars, planVars, PlanInv
<1>9. QED
  BY <1>1, <1>2, <1>3, <1>4, <1>5, <1>6, <1>7, <1>8 DEF Next, Plan

LEMMA PlanInvariance == Spec => []PlanInv
<1>1. PlanInv /\ [Next]_vars => PlanInv'
  BY PlanInvStep
<1>2. QED
  BY PlanInvInit, <1>1, PTL DEF Spec

\* The plan is a topological order without repetition, for every registry, every
\* selection of checks and every order in which the visit meets the keys.
THEOREM PlanOrderHolds == Spec => []PlanOrder
<1>1. PlanInv => PlanOrder
  BY DEF PlanInv
<1>2. QED
  BY PlanInvariance, <1>1, PTL

\* Once the visit has covered the required keys, the plan is what is needed.
LEMMA PlannedIsNeeded ==
  ASSUME PlanInv, RequiredKeys(config) \subseteq Permanent
  PROVE  Permanent = Needed(config)
<1>1. Permanent \subseteq Needed(config)
  BY DEF PlanInv, StackIsPath
<1>2. Permanent \in SUBSET Key
  BY DEF PlanInv, Permanent, Range
<1>3. ClosedUnderDependsOn(config, Permanent)
  BY DEF PlanInv, PlanOrder, ClosedUnderDependsOn, Permanent, Range
<1>4. Needed(config) \subseteq Permanent
  BY <1>2, <1>3, NeedsIsLeast DEF PlanInv, Needed
<1>5. QED
  BY <1>1, <1>4

\* build_plan returns exactly the needed evidence, for every input.
THEOREM PlanExactHolds == Spec => []PlanExact
<1>1. PlanInv => PlanExact
  BY PlannedIsNeeded DEF PlanInv, PlanExact
<1>2. QED
  BY PlanInvariance, <1>1, PTL

\* A plan that covers what is needed shows the input to be sound.
LEMMA PlannedIsSound ==
  ASSUME PlanInv, RequiredKeys(config) \subseteq Permanent, ~DuplicateProducer(config)
  PROVE  ~Defective(config)
<1>1. Needed(config) = Permanent
  BY PlannedIsNeeded
<1>2. Needed(config) \subseteq Produced(config)
  BY <1>1 DEF PlanInv, StackIsPath
<1>3. ~Cyclic(config)
  BY <1>1, OrderedIsAcyclic DEF PlanInv, PlanOrder, Permanent
<1>4. QED
  BY <1>2, <1>3 DEF Defective

\* The planner refuses defective inputs and no others, for every input.
THEOREM RefusedIffDefectiveHolds == Spec => []RefusedIffDefective
<1>1. PlanInv => RefusedIffDefective
  BY PlannedIsSound DEF PlanInv, RefusedIffDefective
<1>2. QED
  BY PlanInvariance, <1>1, PTL

-----------------------------------------------------------------------------
(***************************************************************************)
(* The collection invariant.                                               *)
(***************************************************************************)

\* the envelopes are those of the steps taken, each recorded for its reason
RunInv ==
  /\ next \in 1 .. Len(ordered) + 1
  /\ envelopes \in [{ordered[i] : i \in 1 .. next - 1} -> Health]
  /\ calls \in Seq(Key)
  /\ Range(calls) \subseteq DOMAIN envelopes
  /\ CallsJustified
  /\ BlockedOnlyByDependency
  /\ \A k \in DOMAIN envelopes : envelopes[k] = "ok" => k \in Range(calls)
  /\ phase \in {"new", "visit", "plan_error"} => next = 1

\* Whatever was recorded had all it depends on recorded before it.
LEMMA RecordedIsClosed ==
  ASSUME PlanInv, RunInv, NEW k \in DOMAIN envelopes
  PROVE  DependsOn(config, k) \subseteq DOMAIN envelopes
<1>1. next \in 1 .. Len(ordered) + 1 /\ Len(ordered) \in Nat /\ DOMAIN ordered = 1 .. Len(ordered)
  BY DEF RunInv, PlanInv
<1>2. PICK i \in 1 .. next - 1 : k = ordered[i]
  BY DEF RunInv
<1>3. i \in DOMAIN ordered
  BY <1>1
<1>4. DependsOn(config, k) \subseteq {ordered[j] : j \in 1 .. i - 1}
  BY <1>2, <1>3 DEF PlanInv, PlanOrder
<1>5. {ordered[j] : j \in 1 .. i - 1} \subseteq {ordered[j] : j \in 1 .. next - 1}
  BY <1>1
<1>6. QED
  BY <1>4, <1>5 DEF RunInv

\* The collector at hand has not run, and all it depends on is known.
LEMMA CurrentIsReady ==
  ASSUME PlanInv, RunInv, AtStep
  PROVE  /\ Current \in Key
         /\ Current \in Permanent
         /\ Current \notin DOMAIN envelopes
         /\ DependsOn(config, Current) \subseteq DOMAIN envelopes
         /\ {ordered[i] : i \in 1 .. next} = DOMAIN envelopes \cup {Current}
         /\ next + 1 \in 1 .. Len(ordered) + 1
<1>1. /\ next \in Nat /\ next >= 1 /\ next <= Len(ordered) /\ Len(ordered) \in Nat
      /\ ordered \in Seq(Key) /\ DOMAIN ordered = 1 .. Len(ordered)
  BY DEF RunInv, PlanInv, AtStep
<1>2. next \in DOMAIN ordered
  BY <1>1
<1>3. DOMAIN envelopes = {ordered[i] : i \in 1 .. next - 1}
  BY DEF RunInv
<1>4. Current \in Key /\ Current \in Permanent
  BY <1>1, <1>2 DEF Current, Permanent, Range
<1>5. Current \notin DOMAIN envelopes
  <2>1. ASSUME NEW i \in 1 .. next - 1, ordered[i] = ordered[next]
        PROVE  FALSE
    <3>1. i \in DOMAIN ordered /\ i # next
      BY <1>1
    <3>2. QED
      BY <1>2, <2>1, <3>1 DEF PlanInv, PlanOrder
  <2>2. QED
    BY <1>3, <2>1 DEF Current
<1>6. DependsOn(config, Current) \subseteq DOMAIN envelopes
  BY <1>2, <1>3 DEF Current, PlanInv, PlanOrder
<1>7. {ordered[i] : i \in 1 .. next} = DOMAIN envelopes \cup {Current}
  <2>1. 1 .. next = (1 .. next - 1) \cup {next}
    BY <1>1
  <2>2. QED
    BY <1>3, <2>1 DEF Current
<1>8. next + 1 \in 1 .. Len(ordered) + 1
  BY <1>1
<1>9. QED
  BY <1>4, <1>5, <1>6, <1>7, <1>8

\* A step that records an envelope keeps the invariant when it either called the
\* collector with usable dependencies, or had a reason not to and reports a failure.
LEMMA RecordPreservesRunInv ==
  ASSUME PlanInv, RunInv, AtStep, NEW h \in Health, Record(h),
         \/ /\ Producer(config, Current).supported /\ ~Blocked(Current)
            /\ calls' = Append(calls, Current)
         \/ /\ ~Producer(config, Current).supported \/ Blocked(Current)
            /\ h # "ok" /\ UNCHANGED calls
  PROVE  RunInv'
<1> DEFINE c == Current
<1>1. /\ c \in Key /\ c \notin DOMAIN envelopes
      /\ DependsOn(config, c) \subseteq DOMAIN envelopes
      /\ {ordered[i] : i \in 1 .. next} = DOMAIN envelopes \cup {c}
      /\ next + 1 \in 1 .. Len(ordered) + 1
  BY CurrentIsReady
<1>2. /\ UNCHANGED <<config, phase, ordered>> /\ next' = next + 1
      /\ envelopes' = [k \in DOMAIN envelopes \cup {c} |-> IF k = c THEN h ELSE envelopes[k]]
  BY DEF Record, planVars
<1>3. next \in Nat /\ phase = "collect"
  BY DEF RunInv, PlanInv, AtStep
<1>4. envelopes' \in [{ordered'[i] : i \in 1 .. next' - 1} -> Health]
  <2>1. {ordered'[i] : i \in 1 .. next' - 1} = DOMAIN envelopes \cup {c}
    BY <1>1, <1>2, <1>3
  <2>2. \A k \in DOMAIN envelopes : envelopes[k] \in Health
    BY DEF RunInv
  <2>3. QED
    BY <1>2, <2>1, <2>2
<1>5. /\ DOMAIN envelopes' = DOMAIN envelopes \cup {c}
      /\ envelopes'[c] = h
      /\ \A k \in DOMAIN envelopes : envelopes'[k] = envelopes[k]
      /\ \A k \in DOMAIN envelopes : HealthOf(k)' = HealthOf(k)
  BY <1>1, <1>2 DEF HealthOf
<1>6. \A k \in DOMAIN envelopes' : \A d \in DependsOn(config, k) : HealthOf(d)' = HealthOf(d)
  BY <1>1, <1>5, RecordedIsClosed
<1>7. Blocked(c) <=> \E d \in DependsOn(config, c) : HealthOf(d) # "ok"
  BY DEF Blocked, IsUsable
<1>8. calls \in Seq(Key) /\ Range(calls) \subseteq DOMAIN envelopes
  BY DEF RunInv
<1>9. ASSUME Producer(config, c).supported, ~Blocked(c), calls' = Append(calls, c)
      PROVE  RunInv'
  <2>1. /\ calls' \in Seq(Key) /\ Len(calls') = Len(calls) + 1
        /\ \A i \in 1 .. Len(calls) : calls'[i] = calls[i]
        /\ calls'[Len(calls) + 1] = c
        /\ Range(calls') = Range(calls) \cup {c}
        /\ DOMAIN calls = 1 .. Len(calls) /\ DOMAIN calls' = 1 .. Len(calls) + 1
        /\ Len(calls) \in Nat
    BY <1>1, <1>8, <1>9, RangeAfterAppend
  <2>2. \A i \in DOMAIN calls : calls[i] \in DOMAIN envelopes /\ calls[i] # c
    BY <1>1, <1>8 DEF Range
  <2>3. CallsJustified'
    <3>1. ASSUME NEW i \in DOMAIN calls', NEW d \in DependsOn(config, calls'[i])
          PROVE  HealthOf(d)' = "ok"
      <4>1. CASE i = Len(calls) + 1
        <5>1. calls'[i] = c /\ c \in DOMAIN envelopes'
          BY <1>5, <2>1, <4>1
        <5>2. HealthOf(d) = "ok"
          BY <1>7, <1>9, <5>1
        <5>3. HealthOf(d)' = HealthOf(d)
          BY <1>6, <5>1
        <5>4. QED
          BY <5>2, <5>3
      <4>2. CASE i \in DOMAIN calls
        <5>1. calls'[i] = calls[i] /\ calls[i] \in DOMAIN envelopes'
          BY <1>5, <2>1, <2>2, <4>2
        <5>2. HealthOf(d) = "ok"
          BY <4>2, <5>1 DEF RunInv, CallsJustified
        <5>3. HealthOf(d)' = HealthOf(d)
          BY <1>6, <5>1
        <5>4. QED
          BY <5>2, <5>3
      <4>3. QED
        BY <2>1, <4>1, <4>2
    <3>2. ASSUME NEW i \in DOMAIN calls', NEW j \in DOMAIN calls', calls'[i] = calls'[j]
          PROVE  i = j
      <4>1. \A a, b \in DOMAIN calls : calls[a] = calls[b] => a = b
        BY DEF RunInv, CallsJustified
      <4>2. QED
        BY <2>1, <2>2, <3>2, <4>1
    <3>3. QED
      BY <1>2, <3>1, <3>2 DEF CallsJustified
  <2>4. BlockedOnlyByDependency'
    <3>1. ASSUME NEW k \in DOMAIN envelopes'
          PROVE  k \in Range(calls') <=>
                   /\ Producer(config, k).supported
                   /\ \A d \in DependsOn(config, k) : HealthOf(d)' = "ok"
      <4>1. CASE k = c
        BY <1>6, <1>7, <1>9, <2>1, <3>1, <4>1
      <4>2. CASE k # c
        BY <1>5, <1>6, <2>1, <3>1, <4>2 DEF RunInv, BlockedOnlyByDependency
      <4>3. QED
        BY <4>1, <4>2
    <3>2. QED
      BY <1>2, <3>1 DEF BlockedOnlyByDependency
  <2>5. Range(calls') \subseteq DOMAIN envelopes'
    BY <1>5, <1>8, <2>1
  <2>6. \A k \in DOMAIN envelopes' : envelopes'[k] = "ok" => k \in Range(calls')
    BY <1>5, <2>1 DEF RunInv
  <2>7. QED
    BY <1>1, <1>2, <1>3, <1>4, <2>1, <2>3, <2>4, <2>5, <2>6 DEF RunInv
<1>10. ASSUME ~Producer(config, c).supported \/ Blocked(c), h # "ok", UNCHANGED calls
       PROVE  RunInv'
  <2>1. CallsJustified'
    <3>1. \A i \in DOMAIN calls : calls[i] \in DOMAIN envelopes
      BY <1>8 DEF Range
    <3>2. QED
      BY <1>2, <1>5, <1>6, <1>10, <3>1 DEF RunInv, CallsJustified
  <2>2. BlockedOnlyByDependency'
    <3>1. ASSUME NEW k \in DOMAIN envelopes'
          PROVE  k \in Range(calls) <=>
                   /\ Producer(config, k).supported
                   /\ \A d \in DependsOn(config, k) : HealthOf(d)' = "ok"
      <4>1. CASE k = c
        BY <1>1, <1>6, <1>7, <1>8, <1>10, <3>1, <4>1
      <4>2. CASE k # c
        BY <1>5, <1>6, <3>1, <4>2 DEF RunInv, BlockedOnlyByDependency
      <4>3. QED
        BY <4>1, <4>2
    <3>2. QED
      BY <1>2, <1>10, <3>1 DEF BlockedOnlyByDependency
  <2>3. \A k \in DOMAIN envelopes' : envelopes'[k] = "ok" => k \in Range(calls')
    BY <1>5, <1>10 DEF RunInv
  <2>4. QED
    BY <1>1, <1>2, <1>3, <1>4, <1>5, <1>8, <1>10, <2>1, <2>2, <2>3 DEF RunInv
<1>11. QED
  BY <1>9, <1>10

\* Steps that record nothing keep the collection invariant.
LEMMA RunInvStable ==
  ASSUME RunInv, PlanInv, UNCHANGED <<config, runVars>>, ordered' \in Seq(Key),
         \A i \in 1 .. next - 1 : ordered'[i] = ordered[i],
         next <= Len(ordered') + 1,
         phase' \in {"new", "visit", "plan_error"} => next = 1
  PROVE  RunInv'
<1>1. next \in Nat /\ next >= 1 /\ Len(ordered') \in Nat
  BY DEF RunInv, PlanInv
<1>2. UNCHANGED <<config, next, envelopes, calls>>
  BY DEF runVars
<1>3. {ordered'[i] : i \in 1 .. next - 1} = {ordered[i] : i \in 1 .. next - 1}
  OBVIOUS
<1>4. next' \in 1 .. Len(ordered') + 1
  BY <1>1, <1>2
<1>5. envelopes' \in [{ordered'[i] : i \in 1 .. next' - 1} -> Health]
  BY <1>2, <1>3 DEF RunInv
<1>6. CallsJustified' /\ BlockedOnlyByDependency'
  BY <1>2 DEF RunInv, CallsJustified, BlockedOnlyByDependency, HealthOf
<1>7. QED
  BY <1>2, <1>4, <1>5, <1>6 DEF RunInv

LEMMA RunInvInit == Init => RunInv
<1> SUFFICES ASSUME Init PROVE RunInv
  OBVIOUS
<1>1. /\ next = 1 /\ Len(ordered) = 0 /\ calls = <<>> /\ envelopes = <<>>
      /\ {ordered[i] : i \in 1 .. next - 1} = {}
  BY DEF Init
<1>2. DOMAIN envelopes = {} /\ DOMAIN calls = {} /\ calls \in Seq(Key) /\ Range(calls) = {}
  BY <1>1 DEF Range
<1>3. envelopes \in [{ordered[i] : i \in 1 .. next - 1} -> Health]
  BY <1>1, <1>2
<1>4. QED
  BY <1>1, <1>2, <1>3 DEF RunInv, CallsJustified, BlockedOnlyByDependency

LEMMA RunInvStep ==
  ASSUME PlanInv, RunInv, [Next]_vars
  PROVE  RunInv'
<1>1. /\ next \in 1 .. Len(ordered) + 1 /\ Len(ordered) \in Nat /\ ordered \in Seq(Key)
      /\ phase \in {"new", "visit", "plan_error"} => next = 1
  BY DEF RunInv, PlanInv
<1>2. CASE Construct \/ Enter \/ Reject \/ Planned \/ Finish \/ Abort \/ UNCHANGED vars
  <2>1. /\ UNCHANGED <<config, runVars>> /\ UNCHANGED ordered
        /\ phase' \in {"new", "visit", "plan_error"} => phase \in {"new", "visit", "plan_error"}
    BY <1>2 DEF Construct, Enter, Reject, Planned, Finish, Abort, vars, planVars, runVars
  <2>2. QED
    BY <1>1, <2>1, RunInvStable
<1>3. CASE Leave
  <2>1. /\ UNCHANGED <<config, runVars>> /\ phase = "visit" /\ ordered' = Append(ordered, Top)
    BY <1>3 DEF Leave
  <2>2. ordered' \in Seq(Key) /\ Len(ordered') = Len(ordered) + 1
    <3>1. Top \in Key
      BY <1>3 DEF Leave, Top, PlanInv
    <3>2. QED
      BY <1>1, <2>1, <3>1, RangeAfterAppend
  <2>3. next = 1
    BY <1>1, <2>1
  <2>4. QED
    BY <1>1, <2>1, <2>2, <2>3, RunInvStable
<1>4. CASE SkipUnsupported
  <2>1. AtStep /\ Record("unsupported") /\ ~Producer(config, Current).supported /\ UNCHANGED calls
    BY <1>4 DEF SkipUnsupported
  <2>2. "unsupported" \in Health /\ "unsupported" # "ok"
    BY DEF Health
  <2>3. QED
    BY <2>1, <2>2, RecordPreservesRunInv
<1>5. CASE SkipBlocked
  <2>1. AtStep /\ Record("unavailable") /\ Blocked(Current) /\ UNCHANGED calls
    BY <1>5 DEF SkipBlocked
  <2>2. "unavailable" \in Health /\ "unavailable" # "ok"
    BY DEF Health
  <2>3. QED
    BY <2>1, <2>2, RecordPreservesRunInv
<1>6. CASE CollectorReturns
  <2>1. PICK h \in Outcome : Record(h)
    BY <1>6 DEF CollectorReturns
  <2>2. /\ AtStep /\ Producer(config, Current).supported /\ ~Blocked(Current)
        /\ calls' = Append(calls, Current) /\ h \in Health
    BY <1>6, OutcomesAreHealths DEF CollectorReturns, Callable
  <2>3. QED
    BY <2>1, <2>2, RecordPreservesRunInv
<1>7. CASE CollectorFails
  <2>1. /\ AtStep /\ Producer(config, Current).supported /\ ~Blocked(Current)
        /\ calls' = Append(calls, Current) /\ Record("error")
    BY <1>7 DEF CollectorFails, Callable
  <2>2. "error" \in Health
    BY DEF Health
  <2>3. QED
    BY <2>1, <2>2, RecordPreservesRunInv
<1>8. QED
  BY <1>2, <1>3, <1>4, <1>5, <1>6, <1>7 DEF Next, Plan, Collect

LEMMA Invariance == Spec => [](PlanInv /\ RunInv)
<1>1. Init => PlanInv /\ RunInv
  BY PlanInvInit, RunInvInit
<1>2. PlanInv /\ RunInv /\ [Next]_vars => (PlanInv /\ RunInv)'
  BY PlanInvStep, RunInvStep
<1>3. QED
  BY <1>1, <1>2, PTL DEF Spec

\* Type correctness of the planner's state, for every input.
THEOREM TypeCorrect == Spec => []TypeOK
<1>1. PlanInv /\ RunInv => TypeOK
  BY DEF PlanInv, RunInv, TypeOK
<1>2. QED
  BY Invariance, <1>1, PTL

\* No collector is called twice, or on evidence that is not usable.
THEOREM CallsJustifiedHolds == Spec => []CallsJustified
<1>1. RunInv => CallsJustified
  BY DEF RunInv
<1>2. QED
  BY Invariance, <1>1, PTL

\* Evidence is left uncollected only for the cloud or for a failed dependency of its own.
THEOREM BlockedOnlyByDependencyHolds == Spec => []BlockedOnlyByDependency
<1>1. RunInv => BlockedOnlyByDependency
  BY DEF RunInv
<1>2. QED
  BY Invariance, <1>1, PTL

\* No step changes an envelope that was recorded.
THEOREM EnvelopesAreFinalHolds == Spec => EnvelopesAreFinal
<1>1. ASSUME PlanInv, RunInv, [Next]_vars
      PROVE  [\A k \in DOMAIN envelopes : k \in DOMAIN envelopes' /\ envelopes'[k] = envelopes[k]]_vars
  <2>1. CASE UNCHANGED envelopes
    BY <2>1
  <2>2. CASE AtStep /\ \E h : Record(h)
    BY <1>1, <2>2, CurrentIsReady DEF Record
  <2>3. UNCHANGED envelopes \/ (AtStep /\ \E h : Record(h))
    BY <1>1 DEF Next, Plan, Collect, Construct, Enter, Reject, Leave, Planned, Finish, Abort, vars,
                runVars, SkipUnsupported, SkipBlocked, CollectorReturns, CollectorFails, Callable
  <2>4. QED
    BY <2>1, <2>2, <2>3
<1>2. QED
  BY Invariance, <1>1, PTL DEF Spec, EnvelopesAreFinal

\* Worst picks one of a nonempty set of healths.
LEMMA WorstIsOne ==
  ASSUME NEW hs \in SUBSET Health, hs # {}
  PROVE  Worst(hs) \in hs
<1>1. \A h \in Health : HealthRank[h] \in Nat
  BY DEF Health, HealthRank
<1> DEFINE ranks == {HealthRank[h] : h \in hs}
<1>2. ranks \in SUBSET Nat /\ ranks # {}
  BY <1>1
<1>3. PICK m \in ranks : \A r \in ranks : m <= r
  <2> HIDE DEF ranks
  <2> QED BY <1>2, FirstIsLeast
<1>4. \E h \in hs : \A g \in hs : HealthRank[h] <= HealthRank[g]
  BY <1>3
<1>5. QED
  BY ONLY <1>4, Zenon DEF Worst

\* A healthy check rests on healthy evidence all the way down: the keys with health
\* ok are closed under dependencies, so they hold all that the check's keys need.
THEOREM HealthyCheckIsGroundedHolds == Spec => []HealthyCheckIsGrounded
<1>1. ASSUME PlanInv, RunInv, phase = "done", NEW id \in CheckId, CheckHealth(id) = "ok"
      PROVE  \A k \in Needs(config, config.checks[First(RequirementsOf(id))].keys) :
               HealthOf(k) = "ok"
  <2> DEFINE keys == config.checks[First(RequirementsOf(id))].keys
  <2> DEFINE good == {k \in DOMAIN envelopes : envelopes[k] = "ok"}
  <2>1. \A k \in keys : HealthOf(k) = "ok"
    <3> DEFINE unhealthy == {HealthOf(k) : k \in keys} \ {"ok"}
    <3>1. "ok" = IF unhealthy = {} THEN "ok" ELSE Worst(unhealthy)
      BY <1>1 DEF CheckHealth
    <3>2. \A k : HealthOf(k) \in Health
      BY <1>1 DEF HealthOf, RunInv, Health
    <3>3. unhealthy \in SUBSET Health /\ "ok" \notin unhealthy
      BY <3>2
    <3>4. unhealthy = {}
      <4> HIDE DEF unhealthy
      <4> QED BY <3>1, <3>3, WorstIsOne
    <3>5. QED
      BY <3>4
  <2>2. good \in SUBSET Key /\ config \in Configs
    BY <1>1 DEF RunInv, PlanInv
  <2>3. keys \subseteq good
    BY <2>1 DEF HealthOf
  <2>4. ClosedUnderDependsOn(config, good)
    BY <1>1, RecordedIsClosed DEF RunInv, BlockedOnlyByDependency, ClosedUnderDependsOn, HealthOf
  <2>5. Needs(config, keys) \subseteq good
    <3> HIDE DEF good, keys
    <3> QED BY <2>2, <2>3, <2>4, NeedsIsLeast
  <2>6. QED
    BY <2>5 DEF HealthOf
<1>2. PlanInv /\ RunInv => HealthyCheckIsGrounded
  BY <1>1 DEF HealthyCheckIsGrounded
<1>3. QED
  BY Invariance, <1>2, PTL

-----------------------------------------------------------------------------
(***************************************************************************)
(* Refinement: under the mapping of EvidencePlanner, every step of the     *)
(* planner is a step of EvidenceCollection or leaves it where it was.      *)
(***************************************************************************)

AbstractStep == [Abstract!Next]_(Abstract!vars)

\* The abstract specification speaks of the same inputs: its copies of the
\* definitions of EvidenceGraph and EvidenceHealth are those used here.
LEMMA SameInputs ==
  ASSUME NEW c
  PROVE  /\ Abstract!Needed(c) = Needed(c)
         /\ Abstract!Defective(c) <=> Defective(c)
         /\ \A k : Abstract!Producer(c, k) = Producer(c, k)
         /\ \A k : Abstract!DependsOn(c, k) = DependsOn(c, k)
         /\ \A h : Abstract!IsUsable(h) <=> IsUsable(h)
         /\ Abstract!Health = Health
<1>1. /\ \A k : Abstract!Producer(c, k) = Producer(c, k)
      /\ Abstract!Produced(c) = Produced(c)
  BY DEF Abstract!Producer, Producer, Abstract!Produced, Produced
<1>2. \A k : Abstract!DependsOn(c, k) = DependsOn(c, k)
  BY <1>1 DEF Abstract!DependsOn, DependsOn
<1>3. Abstract!RequiredKeys(c) = RequiredKeys(c)
  BY DEF Abstract!RequiredKeys, RequiredKeys, Abstract!SelectedChecks, SelectedChecks,
         Abstract!Selected, Selected
<1>4. \A S : Abstract!ClosedUnderDependsOn(c, S) <=> ClosedUnderDependsOn(c, S)
  BY <1>2 DEF Abstract!ClosedUnderDependsOn, ClosedUnderDependsOn
<1>5. Abstract!Needed(c) = Needed(c)
  BY <1>3, <1>4 DEF Abstract!Needed, Needed, Abstract!Needs, Needs
<1>6. Abstract!Cyclic(c) <=> Cyclic(c)
  BY <1>2, <1>5 DEF Abstract!Cyclic, Cyclic
<1>7. Abstract!Defective(c) <=> Defective(c)
  BY <1>1, <1>5, <1>6 DEF Abstract!Defective, Defective, Abstract!DuplicateProducer, DuplicateProducer
<1>8. QED
  BY <1>1, <1>2, <1>5, <1>7 DEF Abstract!IsUsable, IsUsable, Abstract!Health, Health

LEMMA PlanRefines ==
  ASSUME PlanInv, Plan
  PROVE  AbstractStep
<1>1. CASE Construct
  <2>1. CASE DuplicateProducer(config)
    BY <1>1, <2>1, SameInputs DEF Construct, runVars, Defective, StatusOfPhase, AbstractStep, Abstract!Next, Abstract!Refuse
  <2>2. CASE ~DuplicateProducer(config)
    BY <1>1, <2>2 DEF Construct, runVars, StatusOfPhase, AbstractStep, Abstract!vars
  <2>3. QED
    BY <2>1, <2>2
<1>2. CASE Enter \/ Leave
  BY <1>2 DEF Enter, Leave, runVars, StatusOfPhase, AbstractStep, Abstract!vars
<1>3. CASE Reject
  BY <1>3, RejectFindsDefect, SameInputs DEF Reject, runVars, StatusOfPhase, AbstractStep, Abstract!Next, Abstract!Refuse
<1>4. CASE Planned
  <2>1. ~Defective(config)
    <3>1. RequiredKeys(config) \subseteq Permanent /\ ~DuplicateProducer(config)
      BY <1>4 DEF Planned, Pending, PlanInv
    <3>2. QED
      BY <3>1, PlannedIsSound
  <2>2. QED
    BY <1>4, <2>1, SameInputs DEF Planned, runVars, StatusOfPhase, AbstractStep, Abstract!Next, Abstract!Accept
<1>5. QED
  BY <1>1, <1>2, <1>3, <1>4 DEF Plan

\* Recording an admissible health for the current key is an observation of it.
LEMMA RecordObserves ==
  ASSUME PlanInv, RunInv, AtStep, NEW h, Record(h), h \in Abstract!Admissible(Current)
  PROVE  AbstractStep
<1>1. /\ Current \in Key /\ Current \in Permanent /\ Current \notin DOMAIN envelopes
      /\ DependsOn(config, Current) \subseteq DOMAIN envelopes
  BY CurrentIsReady
<1>2. phase = "collect" /\ UNCHANGED <<config, phase>>
  BY DEF AtStep, Record
<1>3. Current \in Needed(config)
  BY <1>1 DEF PlanInv, StackIsPath
<1>4. envelopes' = [j \in DOMAIN envelopes \cup {Current} |->
                      IF j = Current THEN h ELSE envelopes[j]]
  BY DEF Record
<1>5. Abstract!Observe(Current)
  BY <1>1, <1>2, <1>3, <1>4, SameInputs DEF StatusOfPhase, Abstract!Observe
<1>6. QED
  BY <1>1, <1>5 DEF StatusOfPhase, AbstractStep, Abstract!Next

LEMMA CollectRefines ==
  ASSUME PlanInv, RunInv, Collect
  PROVE  AbstractStep
<1>1. ASSUME AtStep
      PROVE  Blocked(Current) <=> \E d \in DependsOn(config, Current) : ~IsUsable(envelopes[d])
  BY <1>1, CurrentIsReady DEF Blocked, HealthOf
<1>2. CASE SkipUnsupported
  BY <1>2, RecordObserves, SameInputs DEF SkipUnsupported, Abstract!Admissible
<1>3. CASE SkipBlocked
  <2>1. "unavailable" \in Abstract!Admissible(Current)
    BY <1>1, <1>3, SameInputs DEF SkipBlocked, Abstract!Admissible
  <2>2. QED
    BY <1>3, <2>1, RecordObserves DEF SkipBlocked
<1>4. CASE CollectorReturns \/ CollectorFails
  <2>1. AtStep /\ Producer(config, Current).supported /\ ~Blocked(Current)
    BY <1>4 DEF CollectorReturns, CollectorFails, Callable
  <2>2. PICK h \in Health : Record(h)
    BY <1>4, OutcomesAreHealths DEF CollectorReturns, CollectorFails, Health
  <2>3. h \in Abstract!Admissible(Current)
    BY <1>1, <2>1, <2>2, SameInputs DEF Abstract!Admissible
  <2>4. QED
    BY <2>1, <2>2, <2>3, RecordObserves
<1>5. CASE Finish
  <2>1. next = Len(ordered) + 1 /\ phase = "collect" /\ phase' = "done" /\ UNCHANGED <<config, envelopes>>
    BY <1>5 DEF Finish, runVars, RunInv, PlanInv
  <2>2. DOMAIN envelopes = Permanent
    BY <2>1 DEF RunInv, PlanInv, Permanent, Range
  <2>3. Permanent = Needed(config)
    BY <2>1, PlannedIsNeeded DEF PlanInv
  <2>4. QED
    BY <2>1, <2>2, <2>3, SameInputs DEF StatusOfPhase, AbstractStep, Abstract!Next, Abstract!Finish
<1>6. QED
  BY <1>2, <1>3, <1>4, <1>5 DEF Collect

\* The planner implements EvidenceCollection, for every input.
THEOREM PlannerImplements == Spec => Implements
<1>1. Init => Abstract!Init
  BY DEF Init, StatusOfPhase, Abstract!Init
<1>2. PlanInv /\ RunInv /\ [Next]_vars => AbstractStep
  <2> SUFFICES ASSUME PlanInv, RunInv, [Next]_vars PROVE AbstractStep
    OBVIOUS
  <2>1. CASE Plan
    BY <2>1, PlanRefines
  <2>2. CASE Collect
    BY <2>2, CollectRefines
  <2>3. CASE Abort
    BY <2>3 DEF Abort, runVars, StatusOfPhase, AbstractStep, Abstract!Next, Abstract!Abort
  <2>4. CASE UNCHANGED vars
    BY <2>4 DEF vars, StatusOfPhase, AbstractStep, Abstract!vars
  <2>5. QED
    BY <2>1, <2>2, <2>3, <2>4 DEF Next
<1>3. QED
  BY Invariance, <1>1, <1>2, PTL DEF Spec, Implements, Abstract!Spec, AbstractStep
=============================================================================
