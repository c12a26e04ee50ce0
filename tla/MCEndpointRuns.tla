--------------------------- MODULE MCEndpointRuns ---------------------------
(* Instances of EndpointRuns for TLC.                                       *)
EXTENDS EndpointRuns, TLC

CONSTANTS q1, q2, r1, r2, t1, t2

\* The routes that a query can take, of which a whole-path query has only one.
RouteOf(q) == IF q = q1 THEN {"flat", "factorised", "closure"} ELSE {"path"}

\* Every setting of persist, CIRCUIT_GRAPH and cleanup.
AllConfigs == {c \in Config : c.route \in RouteOf(c.query)}

\* Circuits of both queries share t2.  The closure plan builds t1 too, which its
\* normalised circuit no longer has and that of the other plans of the query still has.
BuiltOf == [q \in QueryTexts |-> [c \in Routes |->
    IF c = "path" THEN {t2} ELSE IF c = "closure" THEN {t1, t2} ELSE {t1}]]
KeptOf == [BuiltOf EXCEPT ![q1]["closure"] = {t2}]

\* Any settings, but at most one run feeds back both kinds of rows and at most one names
\* its graph: two of them add states and no interaction that the other pairs lack.  Two
\* runs with automatic graphs are of one query, and the kind of store is varied where a
\* graph is named: otherwise they do not touch each other's circuits.
MCInit == /\ Init
          /\ Cardinality({r \in Runs : config[r].route = "closure"}) <= 1
          /\ Cardinality({r \in Runs : config[r].graph = "named"}) <= 1
          /\ \A r, s \in Runs : config[r].graph = "auto" /\ config[s].graph = "auto" =>
                 config[r].query = config[s].query
          /\ union \/ \E r \in Runs : config[r].graph = "named"

MCSpec == MCInit /\ [][Next]_vars /\ Fairness

\* Runs differ in nothing but their settings, which Init chooses.
RunSymmetry == Permutations(Runs)
=============================================================================
