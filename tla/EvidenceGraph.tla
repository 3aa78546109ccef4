--------------------------- MODULE EvidenceGraph ----------------------------
(***************************************************************************)
(* What a collection run is given (engine/planner.py): the collectors with *)
(* the evidence they produce and depend on, and the checks of the scan     *)
(* with the evidence they require.  One such input is a record             *)
(*                                                                         *)
(*   collectors : sequence of [produces, dependsOn, supported]             *)
(*   checks     : sequence of [id, keys, enabled, profiles]                *)
(*   profiles   : the profile ids the scan runs with                       *)
(*                                                                         *)
(* The planner sorts keys by their text; keys are natural numbers here and *)
(* the order is <.  "supported" stands for the membership of the scan's    *)
(* cloud in CollectorSpec.supported_clouds.                                *)
(***************************************************************************)
EXTENDS Naturals, Sequences, FiniteSets, Functions, EvidenceHealth

CONSTANTS Key,      \* evidence keys
          CheckId,  \* assessment checks
          Profile,  \* profile ids
          Configs   \* the collection inputs considered

CollectorSpec == [produces : Key, dependsOn : SUBSET Key, supported : BOOLEAN]

CheckEvidenceRequirement ==
  [id : CheckId, keys : SUBSET Key, enabled : BOOLEAN, profiles : SUBSET Profile]

ASSUME KeysAreOrdered == Key \subseteq Nat

ASSUME ConfigsAreInputs ==
  \A c \in Configs : /\ c.collectors \in Seq(CollectorSpec)
                     /\ c.checks \in Seq(CheckEvidenceRequirement)
                     /\ c.profiles \subseteq Profile

-----------------------------------------------------------------------------
\* _build_producers refuses a second collector for the same evidence
DuplicateProducer(c) ==
  \E i, j \in DOMAIN c.collectors :
    i # j /\ c.collectors[i].produces = c.collectors[j].produces

Produced(c) == {c.collectors[i].produces : i \in DOMAIN c.collectors}

\* self._producers.get(key)
Producer(c, k) ==
  c.collectors[CHOOSE i \in DOMAIN c.collectors : c.collectors[i].produces = k]

DependsOn(c, k) == IF k \in Produced(c) THEN Producer(c, k).dependsOn ELSE {}

\* _check_selected
Selected(c, i) ==
  LET check == c.checks[i]
  IN /\ check.enabled
     /\ \/ c.profiles = {}
        \/ check.profiles = {}
        \/ check.profiles \cap c.profiles # {}

SelectedChecks(c) == {i \in DOMAIN c.checks : Selected(c, i)}

\* _required_keys
RequiredKeys(c) == UNION {c.checks[i].keys : i \in SelectedChecks(c)}

-----------------------------------------------------------------------------
(***************************************************************************)
(* Reference definitions, independent of the planner's traversal.          *)
(***************************************************************************)
ClosedUnderDependsOn(c, S) == \A k \in S : DependsOn(c, k) \subseteq S

\* the least set that holds the keys of R and all they depend on
Needs(c, R) ==
  {k \in Key : \A S \in SUBSET Key :
                 R \subseteq S /\ ClosedUnderDependsOn(c, S) => k \in S}

Needed(c) == Needs(c, RequiredKeys(c))

\* in a finite graph, a cycle is a nonempty set none of whose members can go first
Cyclic(c) ==
  \E C \in SUBSET Needed(c) :
    C # {} /\ \A k \in C : DependsOn(c, k) \cap C # {}

Defective(c) ==
  \/ DuplicateProducer(c)
  \/ ~ Needed(c) \subseteq Produced(c)
  \/ Cyclic(c)
=============================================================================
