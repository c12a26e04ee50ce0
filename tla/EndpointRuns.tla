---------------------------- MODULE EndpointRuns ----------------------------
(***************************************************************************)
(* CircuitRun.main against a remote endpoint, once per run, with several    *)
(* runs sharing the endpoint: what each leaves there (private rows in the   *)
(* default graph, the finished circuit in a named graph) and how it is      *)
(* removed again -- by the plan's own finally block, by CIRCUIT_CLEANUP     *)
(* with its one retry, and after a crash by reference/wdbench/recover_store *)
(* and validate_stores.                                                     *)
(*                                                                          *)
(* Data abstraction: the construction (modules PlanExecution, PathFixpoint) *)
(* is one CONSTRUCT whose rows are written in batches; a row is <<run, i>>, *)
(* one batch, of the kind the run's route gives it.  A circuit is a set of  *)
(* triples, one as it was built and another once it is normalised; gate     *)
(* IRIs are hashes of the contents, so circuits share triples, also those   *)
(* of different queries.                                                    *)
(***************************************************************************)
EXTENDS Integers, Sequences, FiniteSets

CONSTANTS
    Runs,         \* CircuitRun processes
    QueryTexts,   \* the queries they are given
    Configs,      \* the settings a run may be started with
    Triples,      \* of circuits
    Built, Kept,  \* per query and route: the circuit before and after normalisation
    MayFail,      \* a request may fail
    MayKill,      \* a process may be killed
    LateCommit,   \* the endpoint may apply a failed or orphaned update later
    MayRecover    \* the operator runs recover_store

Routes == {"flat", "factorised", "closure", "path"}

\* Rows a route feeds back: a message row is an anchor (urn:sc:message, urn:sc:gate)
\* and its columns (urn:sc:value:...), which a batch boundary may separate, in the
\* order of the endpoint's response; a path row is the descriptor or an
\* urn:sc:path:... row.
Items(route) == CASE route = "flat"       -> << >>
                  [] route = "factorised" -> <<"anchor", "column">>
                  [] route = "closure"    -> <<"path", "anchor", "column">>
                  [] route = "path"       -> <<"path", "path">>

\* graph: not persisted, urn:circuit:run:<hash of the query>, or CIRCUIT_GRAPH.
Config == [query : QueryTexts, route : Routes, graph : {"none", "auto", "named"},
           cleanup : BOOLEAN]

ASSUME EndpointAssumption ==
    /\ Configs \subseteq Config
    /\ {Built, Kept} \subseteq [QueryTexts -> [Routes -> SUBSET Triples]]
    /\ {MayFail, MayKill, LateCommit, MayRecover} \subseteq BOOLEAN

VARIABLES
    config,     \* the settings of each run
    union,      \* the store's default graph is the union of all (RDF4J, GraphDB)
    phase,      \* where main is
    workspace,  \* rows registered for removal
    todo,       \* rows still to be written, or still to be removed
    shed,       \* triples CIRCUIT_CLEANUP is still to remove
    aborted,    \* the construction failed
    attempts,   \* endpoint cleanup attempts
    reported,   \* the cleanup stages that reported "success": false
    rows,       \* private rows in the default graph
    late,       \* rows of failed updates the endpoint may still apply
    graphs,     \* pairs <<named graph, triple>>
    recovery,   \* recover_store: none since the last start, updated, ok, invalid
    recovered   \* history: the runs that had ended when the store was recovered

settings == <<config, union>>
runVars == <<phase, workspace, todo, shed, aborted, attempts, reported>>
vars == <<settings, runVars, rows, late, graphs, recovery, recovered>>

Terminal == {"done", "failed", "killed"}
IsPlan(r)   == config[r].route # "path"
Feedback(r) == Items(config[r].route) # << >>
Persists(r) == config[r].graph # "none"
Circuit(r)  == Kept[config[r].query][config[r].route]
Kind(x)     == Items(config[x[1]].route)[x[2]]
Own(r, I)   == {r} \X I
OwnRows(r)  == {x \in rows : x[1] = r}

\* runGraph.
RunGraph(r) == IF config[r].graph = "auto" THEN <<"run", config[r].query>> ELSE <<"named">>

NeedsCleanup_PersistOnly(r) == config[r].cleanup /\ Persists(r)

\* needsEndpointCleanup.
NeedsCleanup(r) == config[r].cleanup /\ (Persists(r) \/ Feedback(r))

\* What main removes is pathWorkspace or, for a plan with feedback, the circuit as it
\* was built, which holds no row.
RemovedRows(r) == IF IsPlan(r) THEN {} ELSE workspace[r]
RemovedTriples(r) ==
    IF IsPlan(r) /\ Feedback(r) THEN Built[config[r].query][config[r].route] ELSE {}

\* con.remove names no graph: on a store with a union default graph every graph loses
\* the triples, on another only the default graph, where there are none.
Without(T) == IF union THEN {g \in graphs : g[2] \notin T} ELSE graphs

-----------------------------------------------------------------------------
(* The construction                                                         *)

Start(r) ==
    /\ phase[r] = "planned"
    /\ recovery # "updated"
    /\ phase' = [phase EXCEPT ![r] = "construct"]
    /\ recovery' = "none"
    /\ UNCHANGED <<settings, workspace, todo, shed, aborted, attempts, reported, rows, late,
                   graphs, recovered>>

\* A CONSTRUCT answers; its rows are registered before the first is written.
Construct(r) ==
    /\ phase[r] = "construct"
    /\ workspace' = [workspace EXCEPT ![r] = DOMAIN Items(config[r].route)]
    /\ todo' = [todo EXCEPT ![r] = DOMAIN Items(config[r].route)]
    /\ phase' = [phase EXCEPT ![r] = "write"]
    /\ UNCHANGED <<settings, shed, aborted, attempts, reported, rows, late, graphs,
                   recovery, recovered>>

AddBatch(r) ==
    /\ phase[r] = "write"
    /\ \E i \in todo[r] : /\ rows' = rows \cup {<<r, i>>}
                         /\ todo' = [todo EXCEPT ![r] = @ \ {i}]
    /\ UNCHANGED <<settings, phase, workspace, shed, aborted, attempts, reported, late,
                   graphs, recovery, recovered>>

\* The finally block of executeConstructionPlan starts to remove the workspace; a
\* whole-path query has none.
AfterConstruction(r, failed) ==
    /\ phase' = [phase EXCEPT ![r] = IF IsPlan(r) THEN "unwind"
                                     ELSE IF failed THEN "failed" ELSE "persist"]
    /\ aborted' = [aborted EXCEPT ![r] = failed]

InFlight(r) == IF phase[r] = "write" THEN Own(r, todo[r]) ELSE {}

\* An update the client gives up on: lost, applied, or applied later.
Uncertain(r) ==
    \/ UNCHANGED <<rows, late>>
    \/ \E x \in InFlight(r) : rows' = rows \cup {x} /\ UNCHANGED late
    \/ LateCommit /\ \E x \in InFlight(r) : late' = late \cup {x} /\ UNCHANGED rows

ConstructionFails(r) ==
    /\ MayFail
    /\ phase[r] \in {"construct", "write"}
    /\ Uncertain(r)
    /\ todo' = [todo EXCEPT ![r] = workspace[r]]
    /\ AfterConstruction(r, TRUE)
    /\ UNCHANGED <<settings, workspace, shed, attempts, reported, graphs, recovery, recovered>>

ConstructionDone(r) ==
    /\ phase[r] = "write"
    /\ todo[r] = {}
    /\ todo' = [todo EXCEPT ![r] = workspace[r]]
    /\ AfterConstruction(r, FALSE)
    /\ UNCHANGED <<settings, workspace, shed, attempts, reported, rows, late, graphs,
                   recovery, recovered>>

\* One remove request of the finally block.
UnwindBatch(r) ==
    /\ phase[r] = "unwind"
    /\ \E i \in todo[r] : /\ rows' = rows \ {<<r, i>>}
                         /\ todo' = [todo EXCEPT ![r] = @ \ {i}]
    /\ UNCHANGED <<settings, phase, workspace, shed, aborted, attempts, reported, late,
                   graphs, recovery, recovered>>

UnwindReports_Silent(r) == reported[r]

\* "success": false in the workspace_cleanup event.
UnwindReports(r) == reported[r] \cup {"workspace_cleanup"}

UnwindFails(r) ==
    /\ MayFail
    /\ phase[r] = "unwind"
    /\ \E i \in todo[r] : rows' \in {rows, rows \ {<<r, i>>}}
    /\ todo' = [todo EXCEPT ![r] = {}]
    /\ reported' = [reported EXCEPT ![r] = UnwindReports(r)]
    /\ UNCHANGED <<settings, phase, workspace, shed, aborted, attempts, late, graphs,
                   recovery, recovered>>

\* An exception of the construction leaves main here.
Unwound(r) ==
    /\ phase[r] = "unwind"
    /\ todo[r] = {}
    /\ phase' = [phase EXCEPT ![r] = IF aborted[r] THEN "failed" ELSE "persist"]
    /\ UNCHANGED <<settings, workspace, todo, shed, aborted, attempts, reported, rows, late,
                   graphs, recovery, recovered>>

-----------------------------------------------------------------------------
(* Persisting the circuit, and CIRCUIT_CLEANUP                               *)

AfterPersist(r) == IF NeedsCleanup(r) THEN "clear" ELSE "done"

Persisted(r) == {RunGraph(r)} \X Circuit(r)

Persist(r) ==
    /\ phase[r] = "persist"
    /\ graphs' = IF Persists(r) THEN graphs \cup Persisted(r) ELSE graphs
    /\ phase' = [phase EXCEPT ![r] = AfterPersist(r)]
    /\ UNCHANGED <<settings, workspace, todo, shed, aborted, attempts, reported, rows, late,
                   recovery, recovered>>

PersistFails(r) ==
    /\ MayFail
    /\ phase[r] = "persist"
    /\ Persists(r)
    /\ graphs' \in {graphs, graphs \cup Persisted(r)}
    /\ phase' = [phase EXCEPT ![r] = "failed"]
    /\ UNCHANGED <<settings, workspace, todo, shed, aborted, attempts, reported, rows, late,
                   recovery, recovered>>

Cleared_All(r) == IF Persists(r) THEN {} ELSE graphs

Cleared(r) == IF Persists(r) THEN {g \in graphs : g[1] # RunGraph(r)} ELSE graphs

\* cleanupEndpointState: drop the named graph, then remove the rows or the triples.
ClearGraph(r) ==
    /\ phase[r] = "clear"
    /\ graphs' = Cleared(r)
    /\ todo' = [todo EXCEPT ![r] = RemovedRows(r)]
    /\ shed' = [shed EXCEPT ![r] = RemovedTriples(r)]
    /\ phase' = [phase EXCEPT ![r] = "remove"]
    /\ UNCHANGED <<settings, workspace, aborted, attempts, reported, rows, late, recovery, recovered>>

RemoveBatch(r) ==
    /\ phase[r] = "remove"
    /\ \/ /\ \E i \in todo[r] : /\ rows' = rows \ {<<r, i>>}
                               /\ todo' = [todo EXCEPT ![r] = @ \ {i}]
          /\ UNCHANGED <<shed, graphs>>
       \/ /\ \E t \in shed[r] : /\ graphs' = Without({t})
                               /\ shed' = [shed EXCEPT ![r] = @ \ {t}]
          /\ UNCHANGED <<todo, rows>>
    /\ UNCHANGED <<settings, phase, workspace, aborted, attempts, reported, late, recovery, recovered>>

Attempts(r) == attempts[r] + 1

Retried(n) == n < 2

\* The first failure is retried on a fresh connection and from the start; the second is
\* only reported.
CleanupFails(r) ==
    /\ MayFail
    /\ \/ /\ phase[r] = "clear"
          /\ Persists(r)
          /\ graphs' \in {graphs, Cleared(r)}
          /\ UNCHANGED rows
       \/ /\ phase[r] = "remove"
          /\ \E i \in todo[r] : rows' \in {rows, rows \ {<<r, i>>}}
          /\ UNCHANGED graphs
       \/ /\ phase[r] = "remove"
          /\ \E t \in shed[r] : graphs' \in {graphs, Without({t})}
          /\ UNCHANGED rows
    /\ attempts' = [attempts EXCEPT ![r] = Attempts(r)]
    /\ phase' = [phase EXCEPT ![r] = IF Retried(Attempts(r)) THEN "clear" ELSE "done"]
    /\ reported' = [reported EXCEPT ![r] = IF Retried(Attempts(r)) THEN @
                                           ELSE @ \cup {"endpoint_cleanup"}]
    /\ todo' = [todo EXCEPT ![r] = {}] /\ shed' = [shed EXCEPT ![r] = {}]
    /\ UNCHANGED <<settings, workspace, aborted, late, recovery, recovered>>

CleanupDone(r) ==
    /\ phase[r] = "remove"
    /\ todo[r] = {} /\ shed[r] = {}
    /\ phase' = [phase EXCEPT ![r] = "done"]
    /\ UNCHANGED <<settings, workspace, todo, shed, aborted, attempts, reported, rows, late,
                   graphs, recovery, recovered>>

-----------------------------------------------------------------------------
(* The environment: kills, late updates, recovery                           *)

\* The harness kills a run that exceeds its deadline; what it remembered is gone.
Kill(r) ==
    /\ MayKill
    /\ phase[r] \notin Terminal \cup {"planned"}
    /\ Uncertain(r)
    /\ phase' = [phase EXCEPT ![r] = "killed"]
    /\ workspace' = [workspace EXCEPT ![r] = {}]
    /\ todo' = [todo EXCEPT ![r] = {}] /\ shed' = [shed EXCEPT ![r] = {}]
    /\ aborted' = [aborted EXCEPT ![r] = FALSE] /\ attempts' = [attempts EXCEPT ![r] = 0]
    /\ UNCHANGED <<settings, reported, graphs, recovery, recovered>>

ApplyLate ==
    /\ late # {}
    /\ \E x \in late : rows' = rows \cup {x} /\ late' = late \ {x}
    /\ UNCHANGED <<settings, runVars, graphs, recovery, recovered>>

\* CLEANUP_UPDATE: graphs named urn:circuit:run:..., and every subject that has an
\* anchor.  A column whose own anchor is gone and a path row have none.
Recovered(x) == \/ Kind(x) = "anchor"
                \/ Kind(x) = "column" /\ <<x[1], x[2] - 1>> \in rows

\* Every subject of a circuit has one: with a union default graph the second half of the
\* update finds those of other named graphs too.
RemainingGraphs == IF union THEN {} ELSE {g \in graphs : g[1][1] # "run"}

\* No run is active on the dedicated store.
Recover ==
    /\ MayRecover
    /\ recovery = "none"
    /\ \A r \in Runs : phase[r] \in Terminal \cup {"planned"}
    /\ rows' = {x \in rows : ~Recovered(x)}
    /\ graphs' = RemainingGraphs
    /\ recovery' = "updated"
    /\ recovered' = {r \in Runs : phase[r] \in Terminal}
    /\ UNCHANGED <<settings, runVars, late>>

\* GENERATED_STATE_ASK.
GeneratedState == \/ \E x \in rows : Kind(x) = "anchor"
                  \/ \E g \in graphs : union \/ g[1][1] = "run"

\* validate_stores.validate: the ASK, and the repository size, which counts every
\* statement in every graph.
Valid == ~GeneratedState /\ rows = {} /\ graphs = {}

Validate ==
    /\ recovery = "updated"
    /\ recovery' = IF Valid THEN "ok" ELSE "invalid"
    /\ UNCHANGED <<settings, runVars, rows, late, graphs, recovered>>

-----------------------------------------------------------------------------
Init ==
    /\ config \in [Runs -> Configs] /\ union \in BOOLEAN
    /\ phase = [r \in Runs |-> "planned"]
    /\ workspace = [r \in Runs |-> {}]
    /\ todo = [r \in Runs |-> {}] /\ shed = [r \in Runs |-> {}]
    /\ aborted = [r \in Runs |-> FALSE]
    /\ attempts = [r \in Runs |-> 0]
    /\ reported = [r \in Runs |-> {}]
    /\ rows = {} /\ late = {} /\ graphs = {} /\ recovery = "none" /\ recovered = {}

RunStep(r) ==
    \/ Construct(r) \/ AddBatch(r) \/ ConstructionFails(r) \/ ConstructionDone(r)
    \/ UnwindBatch(r) \/ UnwindFails(r) \/ Unwound(r)
    \/ Persist(r) \/ PersistFails(r)
    \/ ClearGraph(r) \/ RemoveBatch(r) \/ CleanupFails(r) \/ CleanupDone(r)

Finished == (\A r \in Runs : phase[r] \in Terminal) /\ UNCHANGED vars

Next == \/ \E r \in Runs : Start(r) \/ RunStep(r) \/ Kill(r)
        \/ ApplyLate \/ Recover \/ Validate \/ Finished

\* A started run goes on: each of its requests is answered or fails.
Fairness == \A r \in Runs : WF_vars(RunStep(r))

Spec == Init /\ [][Next]_vars /\ Fairness

-----------------------------------------------------------------------------
(* Properties                                                               *)

AllRows == {<<r, i>> : r \in Runs, i \in 1..3}

TypeOK ==
    /\ config \in [Runs -> Configs] /\ union \in BOOLEAN
    /\ phase \in [Runs -> {"planned", "construct", "write", "unwind", "persist", "clear",
                           "remove"} \cup Terminal]
    /\ {todo, workspace} \subseteq [Runs -> SUBSET (1..3)]
    /\ \A r \in Runs : /\ todo[r] \subseteq workspace[r]
                       /\ workspace[r] \subseteq DOMAIN Items(config[r].route)
    /\ shed \in [Runs -> SUBSET Triples]
    /\ aborted \in [Runs -> BOOLEAN]
    /\ attempts \in [Runs -> 0..2]
    /\ reported \in [Runs -> SUBSET {"workspace_cleanup", "endpoint_cleanup"}]
    /\ rows \subseteq AllRows /\ late \subseteq AllRows
    /\ recovery \in {"none", "updated", "ok", "invalid"}

\* What the benchmark relies on: a run that succeeded and reported no failed cleanup
\* stage has left no row behind (a whole-path run only with CIRCUIT_CLEANUP), however
\* its earlier attempts went.
CleanExitMeansCleanStore ==
    \A r \in Runs :
        phase[r] = "done" /\ reported[r] = {} /\ (IsPlan(r) \/ config[r].cleanup)
            => OwnRows(r) = {}

\* A run that has begun its cleanup, or may have before it was killed.
CleansUp(s) == config[s].cleanup /\ phase[s] \in {"clear", "remove", "done", "killed"}

\* A triple of a circuit persisted in CIRCUIT_GRAPH is lost only to a run with the same
\* graph that cleans up or, where removing names no graph and reaches all, to a run that
\* cleans up after it built the same triple, whatever its own graph and query are, or to
\* the recovery of the store.  No other run's cleanup touches it.
PersistedCircuitStays ==
    \A r \in Runs : phase[r] = "done" /\ config[r].graph = "named" =>
        \A t \in Circuit(r) :
            \/ <<RunGraph(r), t>> \in graphs
            \/ \E s \in Runs : /\ CleansUp(s)
                               /\ config[s].graph = "named" \/ (union /\ t \in RemovedTriples(s))
            \/ union /\ r \in recovered

\* A run that crashed, failed or reported a failed cleanup, or that was told to keep what
\* it wrote.
AtFault(r) ==
    \/ phase[r] \in {"failed", "killed"} \/ reported[r] # {}
    \/ phase[r] = "done" /\ ~config[r].cleanup /\ (config[r].graph = "named" \/ ~IsPlan(r))

\* When a store does not validate after a recovery, everything in it has such a run behind
\* it: runs that ended well never spoil it, whatever other runs did meanwhile.
OnlyFaultyRunsSpoilTheStore ==
    recovery = "invalid" =>
        /\ rows # {} \/ graphs # {}
        /\ \A x \in rows : AtFault(x[1])
        /\ \A g \in graphs : \E r \in Runs : AtFault(r) /\ g \in Persisted(r)

\* The comment on addPathFeedbackRows says that the descriptor row "lets crash recovery
\* find those rows".
RecoveryFindsPathRows ==
    recovery = "updated" /\ late = {} => \A x \in rows : Kind(x) # "path"

=============================================================================
