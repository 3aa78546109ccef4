-------------------------- MODULE MCEvidencePlanner -------------------------
(***************************************************************************)
(* Inputs for model checking EvidencePlanner.                              *)
(***************************************************************************)
EXTENDS EvidencePlanner

\* one collector per produced key, in key order
Registered(deps, unsupported) ==
  LET produced == SelectSeq(<<1, 2, 3, 4, 5, 6>>, LAMBDA k : k \in DOMAIN deps)
  IN [i \in DOMAIN produced |->
        [produces |-> produced[i], dependsOn |-> deps[produced[i]],
         supported |-> produced[i] \notin unsupported]]

Check(id, keys) == [id |-> id, keys |-> keys, enabled |-> TRUE, profiles |-> {}]

\* every graph over three keys, cycles and missing producers included, and a
\* check that requires the first key or the other two
ThreeKeys == 1 .. 3

Graphs == UNION {[P -> SUBSET ThreeKeys] : P \in SUBSET ThreeKeys}

AllGraphs ==
  {[collectors |-> Registered(g, {}), checks |-> <<Check(1, R)>>, profiles |-> {}] :
     g \in Graphs, R \in {{1}, {2, 3}}}
  \cup
  {[collectors |-> Registered([k \in {1} |-> {}], {}) \o Registered([k \in {1, 2} |-> {}], {}),
    checks |-> <<Check(1, {2})>>, profiles |-> {}]}

\* the shapes of the runtime graph: a chain (sentinel_workspace, la_usage_by_table),
\* a join (device_reconciliation), evidence two checks share, evidence no check
\* needs, and a collector the scan's cloud does not support
RuntimeDeps == [k \in 1 .. 6 |->
                  CASE k = 2 -> {1}
                    [] k = 5 -> {2, 3, 4}
                    [] OTHER -> {}]

RuntimeChecks == <<Check(1, {2}), Check(2, {3, 5}), Check(3, {4}), Check(2, {4})>>

ProfileChecks ==
  <<[id |-> 1, keys |-> {6}, enabled |-> FALSE, profiles |-> {}],
    [id |-> 2, keys |-> {5}, enabled |-> TRUE, profiles |-> {"smb"}],
    [id |-> 3, keys |-> {2, 3}, enabled |-> TRUE, profiles |-> {"full"}]>>

RuntimeGraph ==
  {[collectors |-> Registered(RuntimeDeps, u), checks |-> RuntimeChecks, profiles |-> {}] :
     u \in {{}, {3}}}
  \cup
  {[collectors |-> Registered(RuntimeDeps, {1, 2}), checks |-> ProfileChecks, profiles |-> {"full"}]}

AllInputs == AllGraphs \cup RuntimeGraph

AllHealths == Health
=============================================================================
