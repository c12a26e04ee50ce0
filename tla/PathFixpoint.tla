---------------------------- MODULE PathFixpoint ----------------------------
(***************************************************************************)
(* CircuitRun.buildPathCircuit and CircuitRewriter.PathQuery: the           *)
(* client-driven fixpoint that builds the circuit of a property path e+ or  *)
(* e* on a remote endpoint, for several runs that share the endpoint.       *)
(*                                                                          *)
(* For each source a run discovers the reachable subgraph by breadth-first  *)
(* search, materialises the base relation, seeds level 0, composes level k  *)
(* with the base into level k+1 round after round, and finally projects the *)
(* levels to answers.  After each CONSTRUCT the reach gates it emitted are  *)
(* written to the endpoint as private rows, which is where the next         *)
(* CONSTRUCT finds them.                                                    *)
(*                                                                          *)
(* Data abstraction: a fact <<x, y, p>> is its own provenance token; a gate  *)
(* <<level, from, to>> is described by its lineages, the sets of facts its  *)
(* derivations multiply.  In a world W (the facts that hold) the gate is    *)
(* true iff one of its lineages is included in W.                           *)
(***************************************************************************)
EXTENDS Integers, Sequences, FiniteSets

CONSTANTS
    Nodes,        \* the RDF nodes
    AllSources,   \* stands for the source of a path whose subject is unbound
    Preds,        \* the predicates
    Datasets,     \* the sets of facts the endpoint may hold
    Runs,         \* concurrent runs: each has its own random workspace id
    Queries,      \* the path queries a run may evaluate
    ValuesBatch,  \* PATH_VALUES_BATCH: the most nodes in one VALUES clause
    MayFail       \* a request of a run may fail

Fact == Nodes \X Nodes \X Preds
Base == -1                                   \* the level name "base"

\* reachIri: a gate is named by level, from and to; the source is not part of
\* the name, so the runs for two sources of one query share the base gates.
Gate == (Int \X Nodes) \X Nodes
GateOf(l, u, v) == <<<<l, u>>, v>>
From(g) == g[1][2]
To(g) == g[2]

\* A path query: the UNION alternatives of e, each a sequence of predicates; the
\* sources the construction is replayed for; e* or e+; CIRCUIT_EXACT_LEVELS.
Query == [alternatives : SUBSET (Seq(Preds) \ {<< >>}),
          sources : Seq(Nodes \cup {AllSources}), star : BOOLEAN, exact : BOOLEAN]

ASSUME PathAssumption ==
    /\ AllSources \notin Nodes
    /\ Datasets \subseteq SUBSET Fact /\ \A facts \in Datasets : IsFiniteSet(facts)
    /\ Queries \subseteq Query
    /\ ValuesBatch \in Nat \ {0}
    /\ MayFail \in BOOLEAN

VARIABLES
    data,        \* the facts on the endpoint
    query,       \* the query each run evaluates
    phase,       \* where buildFromOneSource is
    sourceIndex, \* the source the run is at
    reach,       \* the nodes the breadth-first search has found
    frontier,    \* nodes it has still to expand in this round
    next,        \* nodes it found in this round
    pending,     \* nodes whose base relation is still to be materialised
    k,           \* the round counter
    lastLevel,   \* the last level that holds a gate
    reachNodes,  \* end points of the level gates seen so far
    circuit,     \* client-side: pairs <<gate, lineage>>
    answers,     \* client-side: triples <<source, target, lineage>>
    store        \* private rows on the endpoint: pairs <<key, gate>>

search == <<reach, frontier, next, pending>>
rounds == <<k, lastLevel, reachNodes>>
vars == <<data, query, phase, sourceIndex, search, rounds, circuit, answers, store>>

Source(r) == query[r].sources[sourceIndex[r]]
Bound(r)  == Source(r) \in Nodes

Mentions(f, n) == f[1] = n \/ f[2] = n
ActiveNodes == {n \in Nodes : \E f \in data : Mentions(f, n)}

\* The matches of one alternative: the facts of a chain of its predicates.
Chains(a) == {c \in [DOMAIN a -> data] :
                 /\ \A i \in DOMAIN a : c[i][3] = a[i]
                 /\ \A i \in DOMAIN a : i < Len(a) => c[i][2] = c[i+1][1]}

\* One hop of e: <<u, v, the facts it multiplies>>.
Hops(r) == UNION {{<<c[1][1], c[Len(a)][2], {c[i] : i \in DOMAIN a}>> : c \in Chains(a)} :
                     a \in query[r].alternatives}

Key_Shared(r, l) == <<"run", <<query[r].alternatives, query[r].star>>, Source(r), l>>

\* feedbackFromPredicate/feedbackToPredicate: workspace, path fingerprint,
\* source and level.
Key(r, l) == <<r, <<query[r].alternatives, query[r].star>>, Source(r), l>>

\* The gates of level l that the next CONSTRUCT of run r matches.
Rows(r, l) == {x[2] : x \in {y \in store : y[1] = Key(r, l)}}

Lineages(r, g) == {d[2] : d \in {x \in circuit[r] : x[1] = g}}

\* valueBatches: the batches of S, of ValuesBatch nodes but for the last one.
Batch(S, B) ==
    /\ B # {} /\ Cardinality(B) <= ValuesBatch
    /\ B = S \/ Cardinality(B) = ValuesBatch

-----------------------------------------------------------------------------
(* Breadth-first search of the reachable subgraph                           *)

StartNodes(r) == IF Bound(r) THEN {Source(r)} ELSE {}

\* The next source (pinSource resets the per-source state).
StartSource(r) ==
    /\ phase[r] = "start"
    /\ sourceIndex[r] <= Len(query[r].sources)
    /\ phase' = [phase EXCEPT ![r] = "search"]
    /\ reach' = [reach EXCEPT ![r] = StartNodes(r)]
    /\ frontier' = [frontier EXCEPT ![r] = StartNodes(r)]
    /\ next' = [next EXCEPT ![r] = {}]
    /\ pending' = [pending EXCEPT ![r] = {}]
    /\ k' = [k EXCEPT ![r] = 0]
    /\ lastLevel' = [lastLevel EXCEPT ![r] = 0]
    /\ reachNodes' = [reachNodes EXCEPT ![r] = {}]
    /\ UNCHANGED <<data, query, sourceIndex, circuit, answers, store>>

NewTargets_Revisit(r, B) == {h[2] : h \in {x \in Hops(r) : x[1] \in B}}

NewTargets(r, B) == {h[2] : h \in {x \in Hops(r) : x[1] \in B}} \ reach[r]

\* One frontierStepQuery: the one-hop targets of a batch of the frontier.
ExpandBatch(r) ==
    /\ phase[r] = "search"
    /\ \E B \in SUBSET frontier[r] :
        /\ Batch(frontier[r], B)
        /\ reach' = [reach EXCEPT ![r] = @ \cup NewTargets(r, B)]
        /\ IF B = frontier[r]
             THEN /\ frontier' = [frontier EXCEPT ![r] = next[r] \cup NewTargets(r, B)]
                  /\ next' = [next EXCEPT ![r] = {}]
             ELSE /\ frontier' = [frontier EXCEPT ![r] = @ \ B]
                  /\ next' = [next EXCEPT ![r] = @ \cup NewTargets(r, B)]
    /\ UNCHANGED <<data, query, phase, sourceIndex, pending, rounds, circuit, answers, store>>

\* The search is over; with an unbound source there is none, and the base of all
\* nodes is materialised at once.
SearchDone(r) ==
    /\ phase[r] = "search"
    /\ frontier[r] = {}
    /\ phase' = [phase EXCEPT ![r] = "base"]
    /\ pending' = [pending EXCEPT ![r] = IF Bound(r) THEN reach[r] ELSE Nodes]
    /\ UNCHANGED <<data, query, sourceIndex, reach, frontier, next, rounds, circuit,
                   answers, store>>

-----------------------------------------------------------------------------
(* What each CONSTRUCT emits: pairs <<gate, lineage>>                        *)

\* The base relation, from the nodes of one VALUES clause.
BaseGates(r, B) == {<<GateOf(Base, h[1], h[2]), h[3]>> : h \in {x \in Hops(r) : x[1] \in B}}

\* sourceFilter: a bound source keeps only its own pairs.
FromSource(r, n) == Bound(r) => n = Source(r)

\* seedReach0.
SeedGates(r) ==
    UNION {{<<GateOf(0, From(g), To(g)), d>> : d \in Lineages(r, g)} :
               g \in {x \in Rows(r, Base) : FromSource(r, From(x))}}

\* zeroLenConstruct: length zero at the source, or at every active node when it is
\* unbound; one derivation per fact that mentions the node.
ZeroLengthGates(r) ==
    {<<GateOf(0, f[1], f[1]), {f}>> : f \in {x \in data : FromSource(r, x[1])}}
    \cup {<<GateOf(0, f[2], f[2]), {f}>> : f \in {x \in data : FromSource(r, x[2])}}

Level0(r) == SeedGates(r) \cup (IF query[r].star THEN ZeroLengthGates(r) ELSE {})

Joins(a, b) == To(a) = From(b)

\* step(k), part (A): level k composed with the base.
Composed(r) ==
    UNION {{<<GateOf(k[r] + 1, From(p[1]), To(p[2])), d \cup e>> :
               d \in Lineages(r, p[1]), e \in Lineages(r, p[2])} :
           p \in {x \in Rows(r, k[r]) \X Rows(r, Base) : Joins(x[1], x[2])}}

\* step(k), part (B): the cumulative form carries level k forward.
Carried(r) ==
    IF query[r].exact THEN {}
    ELSE UNION {{<<GateOf(k[r] + 1, From(g), To(g)), d>> : d \in Lineages(r, g)} :
                   g \in Rows(r, k[r])}

NextLevel(r) == Composed(r) \cup Carried(r)

-----------------------------------------------------------------------------
(* runFeed and the level-indexed rounds                                     *)

GatesOf(new) == {d[1] : d \in new}

\* The base relation does not count as reached.
EndPoints(l, gates) ==
    IF l = Base THEN {} ELSE {From(g) : g \in gates} \cup {To(g) : g \in gates}

\* The gates emitted at level l are retained, and their rows written.
RunFeed(r, l, new) ==
    /\ circuit' = [circuit EXCEPT ![r] = @ \cup new]
    /\ store' = store \cup {<<Key(r, l), g>> : g \in GatesOf(new)}
    /\ reachNodes' = [reachNodes EXCEPT ![r] = @ \cup EndPoints(l, GatesOf(new))]

\* One batch of base constructs (all of them, without VALUES, when unbound).
BaseBatch(r) ==
    /\ phase[r] = "base"
    /\ \E B \in SUBSET pending[r] :
        /\ IF Bound(r) THEN Batch(pending[r], B) ELSE B = pending[r]
        /\ RunFeed(r, Base, BaseGates(r, B))
        /\ pending' = [pending EXCEPT ![r] = @ \ B]
        /\ phase' = [phase EXCEPT ![r] = IF pending[r] = B THEN "seed" ELSE "base"]
    /\ UNCHANGED <<data, query, sourceIndex, reach, frontier, next, k, lastLevel, answers>>

Seed(r) ==
    /\ phase[r] = "seed"
    /\ RunFeed(r, 0, Level0(r))
    /\ phase' = [phase EXCEPT ![r] = "round"]
    /\ UNCHANGED <<data, query, sourceIndex, search, k, lastLevel, answers>>

AtLeastOne(n) == IF n < 1 THEN 1 ELSE n

Cap_OneLess(r) == AtLeastOne(Cardinality(IF Bound(r) THEN reach[r] ELSE ActiveNodes) - 2)

\* The round bound: |V_s| - 1, at least one round.
Cap(r) == AtLeastOne(Cardinality(IF Bound(r) THEN reach[r] ELSE ActiveNodes) - 1)

\* "exact reachable-set bound |V_s|-1", over the end points of the gates.
EnoughRounds(n, ends) == n >= Cardinality(ends) - 1

RoundStep(r) ==
    /\ phase[r] = "round"
    /\ k[r] < Cap(r)
    /\ NextLevel(r) # {}
    /\ RunFeed(r, k[r] + 1, NextLevel(r))
    /\ k' = [k EXCEPT ![r] = @ + 1]
    /\ lastLevel' = [lastLevel EXCEPT ![r] = k[r] + 1]
    /\ phase' = [phase EXCEPT ![r] = IF EnoughRounds(k[r] + 1, reachNodes'[r])
                                     THEN "finish" ELSE "round"]
    /\ UNCHANGED <<data, query, sourceIndex, search, answers>>

\* The cap is reached, or a round produces nothing: lastLevel stays.
RoundsOver(r) ==
    /\ phase[r] = "round"
    /\ k[r] < Cap(r) => NextLevel(r) = {}
    /\ phase' = [phase EXCEPT ![r] = "finish"]
    /\ UNCHANGED <<data, query, sourceIndex, search, rounds, circuit, answers, store>>

\* finalFeedbackMatch: every exact level, or the last cumulative one.
FinalLevels(r) == IF query[r].exact THEN 0..lastLevel[r] ELSE {lastLevel[r]}

FinalGates(r) == {g \in UNION {Rows(r, l) : l \in FinalLevels(r)} : FromSource(r, From(g))}

\* projectAnswers (materializeRows for an operand) for the current source.
Finish(r) ==
    /\ phase[r] = "finish"
    /\ answers' = [answers EXCEPT ![r] = @ \cup
                      UNION {{<<From(g), To(g), d>> : d \in Lineages(r, g)} : g \in FinalGates(r)}]
    /\ sourceIndex' = [sourceIndex EXCEPT ![r] = @ + 1]
    /\ phase' = [phase EXCEPT ![r] = "start"]
    /\ UNCHANGED <<data, query, search, rounds, circuit, store>>

SourcesDone(r) ==
    /\ phase[r] = "start"
    /\ sourceIndex[r] > Len(query[r].sources)
    /\ phase' = [phase EXCEPT ![r] = "done"]
    /\ UNCHANGED <<data, query, sourceIndex, search, rounds, circuit, answers, store>>

\* What the CONSTRUCTs of the current phase emit, and at which level.
Emitted(r) == CASE phase[r] = "base"  -> BaseGates(r, pending[r])
                [] phase[r] = "seed"  -> Level0(r)
                [] phase[r] = "round" -> NextLevel(r)
                [] OTHER              -> {}

EmittedLevel(r) == CASE phase[r] = "base" -> Base [] phase[r] = "seed" -> 0
                     [] OTHER -> k[r] + 1

\* A request fails and the exception leaves buildPathCircuit: the client-side
\* circuit is lost, and any part of the rows being written stays behind.
Fail(r) ==
    /\ MayFail
    /\ phase[r] \in {"search", "base", "seed", "round", "finish"}
    /\ \E gates \in SUBSET GatesOf(Emitted(r)) :
          store' = store \cup {<<Key(r, EmittedLevel(r)), g>> : g \in gates}
    /\ phase' = [phase EXCEPT ![r] = "failed"]
    /\ circuit' = [circuit EXCEPT ![r] = {}]
    /\ answers' = [answers EXCEPT ![r] = {}]
    /\ UNCHANGED <<data, query, sourceIndex, search, rounds>>

-----------------------------------------------------------------------------
Init ==
    /\ data \in Datasets
    /\ query \in [Runs -> Queries]
    /\ phase = [r \in Runs |-> "start"]
    /\ sourceIndex = [r \in Runs |-> 1]
    /\ reach = [r \in Runs |-> {}]
    /\ frontier = [r \in Runs |-> {}]
    /\ next = [r \in Runs |-> {}]
    /\ pending = [r \in Runs |-> {}]
    /\ k = [r \in Runs |-> 0]
    /\ lastLevel = [r \in Runs |-> 0]
    /\ reachNodes = [r \in Runs |-> {}]
    /\ circuit = [r \in Runs |-> {}]
    /\ answers = [r \in Runs |-> {}]
    /\ store = {}

RunStep(r) == \/ StartSource(r) \/ ExpandBatch(r) \/ SearchDone(r) \/ BaseBatch(r)
              \/ Seed(r) \/ RoundStep(r) \/ RoundsOver(r) \/ Finish(r) \/ SourcesDone(r)

Terminated == (\A r \in Runs : phase[r] \in {"done", "failed"}) /\ UNCHANGED vars

Next == \/ \E r \in Runs : RunStep(r)
        \/ \E r \in Runs : Fail(r)
        \/ Terminated

\* Every run is driven by a process of its own, and its requests are answered.
Fairness == \A r \in Runs : WF_vars(RunStep(r))

Spec == Init /\ [][Next]_vars /\ Fairness

-----------------------------------------------------------------------------
(* Properties                                                               *)

TypeOK ==
    /\ data \in Datasets
    /\ query \in [Runs -> Queries]
    /\ phase \in [Runs -> {"start", "search", "base", "seed", "round", "finish",
                           "done", "failed"}]
    /\ sourceIndex \in [Runs -> Nat \ {0}]
    /\ \A r \in Runs : phase[r] \notin {"start", "done", "failed"} =>
           sourceIndex[r] <= Len(query[r].sources)
    /\ reach \in [Runs -> SUBSET Nodes]
    /\ frontier \in [Runs -> SUBSET Nodes]
    /\ next \in [Runs -> SUBSET Nodes]
    /\ pending \in [Runs -> SUBSET Nodes]
    /\ k \in [Runs -> Nat]
    /\ lastLevel \in [Runs -> Nat]
    /\ reachNodes \in [Runs -> SUBSET Nodes]
    /\ circuit \in [Runs -> SUBSET (Gate \X SUBSET data)]
    /\ answers \in [Runs -> SUBSET (Nodes \X Nodes \X SUBSET data)]

\* v can be reached from u by at least one hop of e in the world W: it is in every
\* set of nodes that holds the one-hop targets of u and of its own members.
Connects(r, W, u, v) ==
    \A C \in SUBSET Nodes :
        (\A h \in Hops(r) : h[3] \subseteq W /\ (h[1] = u \/ h[1] \in C) => h[2] \in C)
            => v \in C

\* What the path query means in the world W: e+, and for e* also the zero-length
\* path at every node that some fact of W mentions.
Holds(r, W, u, v) ==
    \/ Connects(r, W, u, v)
    \/ query[r].star /\ u = v /\ \E f \in W : Mentions(f, u)

\* What the circuit of the run says of the answer <<u, v>> in the world W.
Says(r, W, u, v) == \E a \in answers[r] : a[1] = u /\ a[2] = v /\ a[3] \subseteq W

\* The nodes whose answers are complete.
Answered(r) ==
    LET finished == {query[r].sources[i] : i \in 1..(sourceIndex[r] - 1)}
    IN  IF AllSources \in finished THEN Nodes ELSE finished

\* Every derivation of a level gate is a walk of facts from its source to its
\* target (or the zero-length one), also when rounds go on around a cycle: no gate
\* ever says more than the path query means.
LineageSound ==
    \A r \in Runs : \A d \in circuit[r] :
        d[1][1][1] # Base => Holds(r, d[2], From(d[1]), To(d[1]))

\* No answer is published that the query does not have: in every world where the
\* circuit says yes, the path exists.
AnswersSound ==
    \A r \in Runs : \A a \in answers[r] : Holds(r, a[3], a[1], a[2])

\* When a source is finished its answers are exact in every world: neither the
\* round bound nor the convergence test cuts off a derivation some world needs
\* ("|V_s|-1 rounds capture every simple path -> exact provenance").
AnswersExact ==
    \A r \in Runs : phase[r] # "failed" =>
        \A u \in Answered(r), v \in Nodes, W \in SUBSET data :
            Says(r, W, u, v) <=> Holds(r, W, u, v)

\* Every row a run can match is a gate of its own circuit: it never composes with
\* a gate that another run of the same query wrote, or that a failed one left
\* behind ("concurrent runs ... cannot see each other's rows").
RowsAreOwn ==
    \A r \in Runs : phase[r] \in {"search", "base", "seed", "round", "finish"} =>
        \A l \in {Base} \cup 0..lastLevel[r] : \A g \in Rows(r, l) : Lineages(r, g) # {}

\* Every run ends: the search, the batches and the rounds are all bounded.
Termination == \A r \in Runs : <>(phase[r] \in {"done", "failed"})

=============================================================================
