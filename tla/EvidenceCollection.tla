------------------------- MODULE EvidenceCollection -------------------------
(***************************************************************************)
(* What evidence collection promises, with no order of traversal, no stack *)
(* and no plan: an input whose dependencies cannot be satisfied is refused *)
(* before anything is collected; otherwise every piece of evidence the     *)
(* checks need is observed exactly once, after all it depends on, and a    *)
(* collector runs only on usable dependencies.                             *)
(***************************************************************************)
EXTENDS EvidenceGraph

VARIABLES config,  \* the input of this run
          status,  \* "planning", "collecting", "refused", "done" or "aborted"
          health   \* health of every piece of evidence observed so far

vars == <<config, status, health>>

Init == /\ config \in Configs
        /\ status = "planning"
        /\ health = <<>>

Refuse == /\ status = "planning"
          /\ Defective(config)
          /\ status' = "refused"
          /\ UNCHANGED <<config, health>>

Accept == /\ status = "planning"
          /\ ~Defective(config)
          /\ status' = "collecting"
          /\ UNCHANGED <<config, health>>

\* what may be reported for k once its dependencies are known
Admissible(k) ==
  IF ~Producer(config, k).supported THEN {"unsupported"}
  ELSE IF \E d \in DependsOn(config, k) : ~IsUsable(health[d]) THEN {"unavailable"}
  ELSE Health

Observe(k) ==
  /\ status = "collecting"
  /\ k \in Needed(config) \ DOMAIN health
  /\ DependsOn(config, k) \subseteq DOMAIN health
  /\ \E h \in Admissible(k) :
       health' = [j \in DOMAIN health \cup {k} |-> IF j = k THEN h ELSE health[j]]
  /\ UNCHANGED <<config, status>>

Finish == /\ status = "collecting"
          /\ DOMAIN health = Needed(config)
          /\ status' = "done"
          /\ UNCHANGED <<config, health>>

Abort == /\ status = "collecting"
         /\ status' = "aborted"
         /\ UNCHANGED <<config, health>>

Next == \/ Refuse \/ Accept \/ Finish \/ Abort
        \/ \E k \in Key : Observe(k)

Spec == Init /\ [][Next]_vars
=============================================================================
