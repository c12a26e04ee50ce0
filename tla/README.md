# A verification project for SPARQLcirc

SPARQLcirc evaluates a SPARQL query on a remote RDF endpoint not to a table of
answers but to a *circuit*: a directed graph of Times, Plus and Minus gates over
the facts of the data, with one root per answer, from which the probability (or
any semiring value) of the answer is computed afterwards. The repository is an
engine (Java) that builds circuits by sequences of CONSTRUCT queries, and an
experimental side (Python) that freezes the inputs of an experiment, runs the engine
and its competitors under deadlines, compiles and counts the circuits, and keeps
records from which figures are drawn. What is hard, and what is modelled, is:

1. the order and the overlap of the CONSTRUCT steps (`PlanExecution`),
2. the fixpoint that builds the circuit of a property path (`PathFixpoint`),
3. what a run leaves on an endpoint it shares with others, when requests fail,
   processes are killed and updates are applied late (`EndpointRuns`),
4. whether a recorded run, cell, batch or experiment says the truth about what
   happened, when its processes are killed and resumed at any point (`RunPipeline`,
   `CellRunner`, `WikidataShard`, `WikidataPqe`, `ExperimentLog`),
5. whether the frozen inputs are what was validated (`FreezeInputs`,
   `StoreRegistration`),
6. whether a probability that is published is the probability of the answer
   (`CircuitCompiler`, `DecisionDiagram`, `ProvenanceDag`).

`E/` below stands for `src/engine/src/main/java/npcs/`, `R/` for `src/reference/`.

## 1. Inventory

`PROJECT.json` lists every component with its sources and status, every hazard
with its line, every run, theorem, mutant and finding.

### The engine (Java, `E/`)

| Component | State | Operations | What is hard | What makes it correct | Here |
|---|---|---|---|---|---|
| Construction-plan executor, `CircuitRun.executeConstructionPlan`, `scheduleLevels`, `runLevelConcurrently` | levels, worker tasks, the workspace of private rows, the accumulated circuit | schedule, query, split the answer into gates and rows, register, write in batches, merge, remove the workspace | steps of a level overlap on several connections; a task fails while others write; responses get lost; the caller is interrupted | the circuit does not depend on the schedule; no query reads a half-written relation; nothing is left behind | `PlanExecution` |
| Property-path fixpoint, `CircuitRun.buildPathCircuit`, `CircuitRewriter.PathQuery` | reachable set, frontier, level-indexed reach gates, round counter, last level | breadth-first search, base relation, seed, rounds, projection, replay for several sources | cycles, two different round bounds, an emptiness test, several sources sharing base gates, concurrent runs of one query | the answers are exact in every possible world; it terminates; runs do not mix | `PathFixpoint` |
| Run lifecycle, `CircuitRun.main` | removal set, cleanup attempts, the structured log, named graphs | construct, persist, clean up, retry once on a new connection | partial cleanup, retry of what was partly done, kills, graph names shared between invocations | a clean exit means a clean store; a persisted circuit is lost only to named causes | `EndpointRuns` |
| Normaliser, `CircuitNormalizer` | gate graph, worklist | fold unary Plus gates | chains, cycles, shared children, answer gates | the function of every answer root is preserved | – |
| Planner, `CircuitRewriter`, `Filters`, `ConstructionMode`, `CircuitEncoding` | none between queries | translate each operator to CONSTRUCT texts with declared reads and writes | forgotten dependencies, hash-consed operands | every relation read was written by an earlier step | paths only |
| Factorised BGP rewriter, `FactoredBgpRewriter` | elimination order, message relations | eliminate variables one by one | rows cut in half by a batch | equal to the join it replaces | – |
| NPCS rewriting, `rewrite/NpcsRewriter`, `QueryGuard`, `Prov`, `Terms` | none | rewrite a query to one that returns provenance polynomials | syntax only | equivalence with the semantics | – |
| Reification, `rewrite/Reification`, `Skolem` | none | encode statements and terms | collisions | injective | – |
| Command lines, `App`, `ExecCheck`, `RunExample`, `PathIsoSeq`, `Utf8Text` | none | start the above | – | – | – |

### The reference side (Python, `R/`)

| Component | State | Operations | What is hard | What makes it correct | Here |
|---|---|---|---|---|---|
| Circuit reading, `circuit_io.py` | gate tables | parse, infer gate types, merge answer roots | missing types, several roots for an answer | one root per answer with the same function | `CircuitCompiler` |
| Knowledge compilers, `compile*.py`, `ddnnf_wmc.py`, `d4_*.py`, `export_cnf.py` | memo tables, managers, partial files | compile to OBDD / d-DNNF, count | shared roots, complement edges, variables a dump does not name, cycles, a deadline between answers | the count is the sum over the possible worlds | `CircuitCompiler`, `DecisionDiagram` |
| NPCS post-processing and PQE front ends, `npcs_postprocess.py`, `pqe*.py` | arenas, the interned graph, artifacts | merge rows, parse, normalise, intern, validate, count, publish | truncated texts, equal expressions of different answers, a kill between two artifacts | the graph means what the rows mean; metrics vouch for the rest | `ProvenanceDag`, `CircuitCompiler` |
| Evaluation, `gates.py`, `gamma.py`, `wmc.py`, `factor.py`, `event_probabilities.py` | memo tables | evaluate in a semiring | sharing, Minus | equals summation over the possible worlds | – |
| One run, `paper/watdiv10m_runner.py`, `sparql_results_tsv.py` | worker processes, the wire, run directory, stage journal | start the engine, stream the response, compile offline under a deadline, judge | chunk borders, lost connections, two deadlines, a killed worker whose child lives on | an ok run is complete; leftovers ask for recovery | `RunPipeline` |
| Cells and batches, `paper/watdiv10m_batch.py`, `watdiv10m_runner.py` | terminal cells, attempt directories | run a cell in a process, resume a batch, resume offline work | kills between two records, concurrent resumptions, reuse of terminal cells | verdicts are true of the files; one runner or left-over worker at a time | `CellRunner` |
| Wikidata drivers, `wdbench/run_*.py`, `summarize*.py` | cells, archives, completion and validation documents | run a shard, archive partial cells, evaluate | orphan cell processes, a batch beside a growing shard | documents say what directories hold | `WikidataShard`, `WikidataPqe` |
| Recovery and validation, `wdbench/recover_store.py`, `validate_stores.py` | none | delete generated state by its anchors, check it is gone | rows without an anchor, updates that arrive afterwards | a validated store is clean | `EndpointRuns` |
| Controlled experiments, `paper/compiler_granularity.py`, `controlled_mechanisms.py` | append-only CSV, lock, completion document | measure attempts in killable workers, append, resume, bind | torn tails, orphaned workers, moved identities | the log is a prefix of the schedule under one identity | `ExperimentLog` |
| Input freezing, `paper/freeze_inputs.py` | canary triple, two locks, three names of a file | capture, probe, canary, publish, validate twice, load | the deadline between insert and delete, failing unlinks, concurrent freezers | what loads was validated | `FreezeInputs`, `StoreRegistration` |
| Artifact cache, `paper/circuit_cache.py` | payload and sidecar files, lock | publish two files, verify, adopt | a crash between two renames, readers without the lock | a served artifact is the stored one | – |
| Deadlines and sampling, `experiment_timeouts.py`, `stage_memory.py` | nested timers, thread | arm, restore | expiry while nesting | no deadline is lost | – |
| TPC-H/ProvSQL, treewidth evidence, workload preparation, oracles, `src/presentation` | files | batch measurement, tables, figures | – | – | – |

### How they interact

`App`/`CircuitRun.main` asks the planner for a plan (or a `PathQuery`), executes
it against the endpoint, normalises the circuit, optionally persists it into a
named graph and prints it. A run of an experiment (`_endpoint_run`) starts
`CircuitRun` in a process group, kills it at its deadline, and takes from its exit code
and its structured log (`workspace_cleanup`, `endpoint_cleanup`) whether the store needs
recovery before another process uses it; an operator then runs
`recover_store`, which is followed by `validate_stores`. The run's offline worker
decodes and counts what came out, a cell compares its repetitions, a driver walks the
cells, and the summaries read what drivers and evaluations left. All of them first
load the document `freeze_inputs` published. Engine runs share the endpoint:
private rows in its default graph, circuits in named graphs. Everything else is shared
through directories: files appear by rename or hard link, survive their
processes, and are never trusted without a terminal record.

## 2. The modules

| Module | What it is |
|---|---|
| `Construction` | the abstract promise of a plan: gates are only added, and the caller gets exactly the wanted circuit or an exception |
| `PlanExecution`, `PlanExecutionProofs` | one run of `executeConstructionPlan`; its theorems |
| `PathFixpoint`, `PathFixpointProofs` | `buildPathCircuit` and `PathQuery`, several runs on one endpoint; its theorems |
| `EndpointRuns`, `EndpointRunsProofs` | `main` around both, several runs on one endpoint, recovery and validation; its theorems |
| `RunPipeline`, `RunPipelineProofs` | one run of `watdiv10m_runner`: endpoint worker, engine process, stream, offline worker, verdict; its theorems |
| `CellRunner`, `CellRunnerProofs` | cells of runs, the batch driver and resumed offline work; its theorems, and those of `CircuitCompiler` |
| `WikidataShard`, `WikidataPqe`, `WikidataShardProofs` | a shard's driver and cells; the evaluation batch beside it (extends the first); theorems about both, and those of `ProvenanceDag` |
| `ExperimentLog`, `ExperimentLogProofs` | the protocol shared by the two controlled experiments; its theorems |
| `FreezeInputs`, `FreezeInputsProofs` | concurrent freezers of one document; its theorems |
| `StoreRegistration` | what a freezer accepts of a store, and what a loader accepts of its hashes |
| `DecisionDiagram` | reduced ordered decision diagrams and the two ways to count them |
| `CircuitCompiler` | from stored triples to the probability of every answer; theorems in `CellRunnerProofs` |
| `ProvenanceDag` | from the rows of an NPCS response to a canonical graph and its artifacts; theorem in `WikidataShardProofs` |
| `ProvenanceMeaning` | what the texts of such a response mean, and what the graph must say therefore (extends `ProvenanceDag`; recursive) |
| `MC...` | instances for TLC |

Operators whose name ends in `_Something` (`Cap_OneLess`, `Register_Late`) are
mutated forms of the operator of the same name: each is a plausible mistake, which
makes a property of some run fail when it replaces the original.

### PlanExecution

A plan is a sequence of steps; a step has rounds, each reading and writing
private relations (`CircuitConstructionPlan.Step`; a plain step has one round, a
closure atom several). `ScheduleStep` is one iteration of `scheduleLevels`.
`SubmitLevel`, `AwaitLevel`, `LevelFails`, `LevelsDone` and `Interrupt` are the
level loop and `runLevelConcurrently`; `BeginQuery`, `FinishQuery`,
`QueryFails`, `WriteChunk`, `WriteFails` are a task (`executePlainStep`,
`evaluate`, `addBatched`, and `runFeed` for a round of a path step);
`RemoveChunk`, `RemoveFails`, `CleanupDone` are the finally block. With one
worker the schedule is plan order, as in the code.

Abstractions. A relation consists of chunks (the `FEEDBACK_BATCH` updates), and
chunk `x` of an output derives from chunk `x` of every input: a query that ran too
early therefore shows in the output. A gate is named by step, round and chunk.
A query takes its snapshot when it starts and may also see rows that appear while
its answer is streamed. `LandLate` is the endpoint applying an update whose
client gave up.

The plans are an arbitrary set of well-formed plans. `WellFormed` is what the
executor relies on and the rewriters produce: only path steps leave their
dependencies undeclared, a plain step is one CONSTRUCT, and what is read was
written by an earlier step or round.

`KeepsPromise` is the refinement: with `wanted` the circuit of sequential
execution, and the outcome read from `main` and `aborted`, every behaviour is one
of `Construction`.

### PathFixpoint

Each run goes through `start`, `search`, `base`, `seed`, `round`, `finish` for each
of its sources. `ExpandBatch` is one `frontierStepQuery`; `BaseBatch`, `Seed` and
`RoundStep` are the CONSTRUCTs of `PathQuery.init`, `seedReach0`/`zeroLenConstruct`
and `step`, with `runFeed` retaining the gates and writing the rows; `RoundsOver`
is the cap or the empty round; `Finish` is `projectAnswers`/`materializeRows` and
`SourcesDone` the end of the loop over sources. `Fail` is a request that fails
anywhere, leaving any part of the rows being written.

Abstractions. A fact is its own provenance token. A gate carries its lineages: the
sets of facts its derivations multiply; it is true in a world iff one of them is
included in it. A hop of the path's sub-expression is an alternative, a sequence
of predicates. The CONSTRUCTs of one round commute (their keys are those of one
run, source and level), so a round is one step. A zero-length path exists at a
node that some fact of the world mentions, which is what `zeroLenConstruct`
computes. How a run removes its path rows is in `EndpointRuns`.

### EndpointRuns

A run has one of four routes (flat, factorised, with a closure, whole path), may
persist its circuit (in `urn:circuit:run:<hash of the query>` or in the graph
`CIRCUIT_GRAPH` names) and may ask for `CIRCUIT_CLEANUP`. `Construct`, `AddBatch`,
`ConstructionFails`, `ConstructionDone` abstract the construction to one CONSTRUCT
whose rows are written batch by batch in the order of the response;
`UnwindBatch`, `UnwindFails`, `Unwound` are the finally block of the plan (a
whole-path query has none); `Persist`, `PersistFails`; `ClearGraph`,
`RemoveBatch`, `CleanupFails`, `CleanupDone` are `cleanupEndpointState` with its one
retry. `Kill` is the deadline of the harness, `ApplyLate` the endpoint,
`Recover` and `Validate` the operator's two scripts, which run only when no run is
active, as the drivers prescribe for a dedicated store.

Abstractions. Rows come in the kinds that recovery tells apart: an anchor
(`urn:sc:message`, `urn:sc:gate`), a column of a message row, a path row. The
repository size that `validate_stores` compares counts statements in all graphs,
hence `Valid`. A circuit is a set of triples, `Built` by the plan and `Kept` after
normalisation, and circuits of different runs, routes and queries may share triples, since
gate IRIs are hashes. What `CIRCUIT_CLEANUP` removes for a plan with feedback is the circuit
as it was built (`RemovedTriples`) and none of its rows (`RemovedRows`), triple by triple and
without a graph (`con.remove`, 1061). What that reaches depends on the store: `union` says
that its default graph is the union of all (RDF4J, GraphDB), and then `Without` takes the
triples from every graph, those of other runs included; on other stores the default graph
has none of them. The recovery update depends on it in the same way: subjects are found by
their anchors, which every gate has, in any graph or only in the default graph
(`RemainingGraphs`). Not modelled: the loading of the data, exits on invalid arguments or a
read-only endpoint, the embedded in-memory store, and base facts that the recovery update may
take for gates (a leaf that fed a collapsed unary Plus; `validate_stores` notices by the size).

### RunPipeline

Three processes and a response. The endpoint worker (`ReadQuery`, `Connect`, `Chunk`,
`ConnectionLost`, `Finish`, `PersistRows`, `PersistEvidence`, `Check`, `WriteResult`)
is `_endpoint_run` with `_run_c`, `_run_java_rewrite` and the transfer; its engine
(`EngineWrites`, `EngineEnds`) is reduced to whether the store holds its rows and what it
reports; `ProtocolStatus` is `_parse_c_stderr` in the order of its checks. `Chunk` reads
any number of bytes and feeds them to `TsvLineStream` (`pending`, `Consumed`,
`FinalLine`) and the collector, which forgets its rows beyond `ExactRowLimit`. The offline
worker walks its stages (`StageStart`, `StageWork`, `StageComplete`) with a journal
whose last line may be torn. The runner (`OuterTimeout`, `WorkerJudged`,
`OfflineJudged`, `PersistNpcsAnswers`) has deadlines of its own, kills groups, and judges
from what files it finds (`OfflineStatus`, `ActiveStage`).

Abstractions. A line on the wire is two halves and a newline, so a chunk may end
inside a term: half a delimited term does not parse, half a bare one is another term.
A row is an answer key and a derivation. A killed worker's Java process gets a signal
and may still write until it ends.

### CellRunner

`Driver*` is `watdiv10m_batch.run` (reuse a terminal cell, refuse a partial one, invoke,
collect, finish); `RunnerBegins`, `EndpointRuns`, `OfflineRuns`, `RunRecorded`,
`CellFinished` are `_run_cell`; `Resume*` is `_resume_offline_cell` with its numbered
attempt directories and the consolidation of one that died before its manifest. `Kill` kills any
one process: a killed driver leaves its runner behind, and a killed runner its worker, which
`_run_child` starts in a session of its own and which goes on using the store and its
directory (`LeftOver`). `MovePartial` is the operator who moves a partial cell away, as the
driver's refusal asks, once its runner is gone; that a worker may be left, nothing tells.

A left-over worker keeps its slot. While the directory it was started in is in place, no runner
comes there: the driver refuses a partial cell, and with it every later one. Once the
directory is moved, the worker makes it again when it writes (`LeftOverWrites`: the path, and
the run directory in `stray`, which a new runner's `mkdir` then trips over, `RunOpens`), or
works beside the runner that has begun the cell anew. `disturbed` is a history variable
naming the cells begun beside such a worker. What that worker writes into their run
directories is not modelled, and the verdict properties leave these cells out; that it is
the only way in which two can be at work at once is what `OneCellAtATime` says.

Abstractions. A run's endpoint phase yields a failure or an artifact, and
`Answers[artifact]` are the answers it gives; two circuits may differ and give the same
answers. What one run goes through is `RunPipeline`.

### WikidataShard and WikidataPqe

A session of the driver visits the plan's cells: `Look`, `Archive` (`archive_partial`),
`Reuse`, `Spawn`, `Collect`, `Finish`. A cell process (`CopyQuery`, `OpenExecution`,
`Execute`, `WriteCell`) runs one circuit method or the pair of NPCS methods, which share
the endpoint's response and fail separately. `Validated` is `write_query_validations`.
`WikidataPqe` adds `run_pqe_batch`: it fixes the circuit cells that succeeded
(archived ones are found too, by `rglob`) in a configuration it refuses to change,
evaluates each, and ends in `batch.json`; and the summaries, as to which directories they
count as ok.

A cell process that outlives its driver can write into the directory the next driver
archives and recreates: nothing in the code prevents it. `disturbed` is a history
variable that names such cells; the properties leave them out and show that no other cell
is affected. `LeftoverLeavesATrace` says least after an archiving: the archive is then a trace
of whatever is in the store, since no document names the process that left it.

### ExperimentLog

An invocation waits for the lock, loads and repairs the CSV (`Canonical`, torn tail,
lone CR), walks the schedule (`RecordNotRun`, `Spawn`, `Collect`, `EvidenceRefused`), and
publishes the completion document, by hard link or by replacement as the experiment does
(`timed`), with its checks before and after. A worker inherits the lock's descriptor,
survives its driver, may answer after the deadline and may leave a group that survives
every signal. `env` is the identity an invocation snapshots (HEAD, tools, frozen
inputs), which may move between any two steps.

### FreezeInputs and StoreRegistration

A freezer goes through capture, sentinels, canary, check, twice (`round`: before and
during publication), with publication by a hard link between: while the document has two
links no loader accepts it. The canary runs in a forked worker under a deadline
(`WorkerSends`, `WorkerAsks`, `WorkerCleansUp`, `WorkerProves`), and its updates may be
answered, lost on the way or lost on the way back and applied later (`pending`). What ends a
freezer under its canary decides about the locks: a deadline or an error kills the process
first (`CanaryFailed`), a killed freezer's process has inherited them (`Kill`,
`LocksOutlive`), and an interrupt of the wait releases them while the process, which has a
session of its own, goes on (`Interrupt`).
`RollsBack` is the handler of an exception, whose unlinks may fail. A second freezer that
finds the name adopts it after the same checks. `StoreRegistration` has no behaviour: it
states which triples of access mode, data names and endpoints a freezer accepts, what it
writes about them, and what a loader accepts of that; `FreezeInputs` extends it.

### CircuitCompiler and DecisionDiagram

`ReadCircuit` and `ReadDag` read the triples of a circuit or an NPCS graph and infer
types, `MergeAnswerRoots` joins the roots of one answer, `Prepare` checks the weights and
chooses an order; `NextRoot`, `Expand`, `PopExpanded`, `PopKnown`, `RootCompiled` are
the iterative depth-first search of `_compile_roots` with one manager or one per
root, in any variable order; `CuddCount` follows complement edges, `OracleCount` the
bundled ROBDD. `Export`, `DumpCount`, `D4Answer`, `D4Timeout`, `D4Done` are the Tseitin
clauses, the evaluation of an external compiler's dump, partial results and the deadline;
`Portfolio` counts read-once circuits in one pass. The names `CompilerInit`, `CompilerNext` and
`CompilerSpec` let the module be extended beside another one. A gate is a number, a weight a number of
`Unit`-ths, a count a number of `Unit^MaxVars`-ths, so that all arithmetic is exact.

### ProvenanceDag and ProvenanceMeaning

`Extract` merges the rows of an answer under a sum; `ParseOpen` to `ParseEnd` are the stack
machine of `parse_expression` on lexemes (a row may be cut short); `NormalizeNode` is one
node of the loop in `normalize_boolean`, `Normalized` its end; `Reach` and `Reached` are
`_Arena.reachable`, `InternNode` one node of the loop in `MultiRootDag.add_answer`, `AddAnswer`
the root it ends with, and `Validate` is `MultiRootDag.validate`; `CompileAnswer`,
`CompileShared` and `Publish` are the counting and the order in which artifacts are renamed
into place, and `Crash` ends the process anywhere. A normalised expression is its shape, which is
the sort key of the code, so that a set of operands stands for the sorted and
deduplicated list.

A row has a text and how much of it was received. That the text is the one of an
expression, and what an expression means, is in `ProvenanceMeaning`, with the properties that
speak of meanings: its recursive operators stay out of the module that is proved about.

## 3. What the runs check

| Run | Instance | Question and result |
|---|---|---|
| `plan_safety` | 5 plans of up to 5 steps over 4 relations of 2 chunks, 2 workers, any request may fail | no read is incomplete (`ReadsAreComplete`), the cleanup runs alone (`CleanupRunsAlone`) and leaves nothing (`NoResidue`), the circuit is that of sequential execution (`CircuitIsSequential`) |
| `plan_promise` | the same plans, 3 workers, also interrupts and late updates | `Construction` is implemented (`KeepsPromise`), the run ends (`Termination`), every row that is or may get on the endpoint is registered (`RegisteredBeforeWritten`) |
| `path` | p+ and p\* on all graphs of at most 5 facts over 3 nodes (modulo swapping the two nodes that are no source); compound paths on four rich 4-node graphs, for none, one, two pinned sources or all; two runs of the same or a related query on a 2-node cycle, which may fail; batches of 2 | the answers are exact in every world (`AnswersExact`), runs match only their own rows (`RowsAreOwn`), termination |
| `endpoint` | two runs, all routes, graphs and cleanup settings (at most one closure, at most one named graph), all faults, recovery in between; a triple that all circuits share, or all but the normalised one; both kinds of store where a graph is named; runs are symmetric | a clean exit means no row (`CleanExitMeansCleanStore`), a persisted triple is lost only to cleanup of its graph, of the same triple, or to recovery (`PersistedCircuitStays`), everything in an invalid store has a culprit (`OnlyFaultyRunsSpoilTheStore`) |
| `endpoint_path_rows` | one run, kills, recovery | **violated**: `RecoveryFindsPathRows`, see below |
| `run_pipeline` | every method and response mode, four responses of up to 3 rows with `ExactRowLimit` 2, chunked and length-delimited transports, last line with or without newline | an ok run has all rows and derivations (`OkRunIsComplete`), the journal names the stage a dead worker was in (`StageStateIsTrue`), leftovers ask for recovery (`LeftoverNeedsRecovery`), every run is recorded (`RunIsRecorded`) |
| `cell_runner` | two C cells of one warm-up and two measured runs, 3 artifacts, two runner slots, one resumption slot with two attempts, one kill, one move | `OneCellAtATime`, `CellVerdictIsTrue`, `OkResumeIsTrue`, `RecoveryStopsTheDriver`, and a driver ends (`DriverEnds`) |
| `wikidata_shard` | one basic query (the NPCS pair and a circuit cell), one measured execution, two answers, two sessions and two starts of the evaluation; answers are symmetric | `LeftoverLeavesATrace`, `CompleteIsTrue`, `ParityIsOfTheCells`, `FiguresAreBacked` |
| `experiment_log` | two invocations, two cells of two attempts, two checksums, two identities, either experiment | `LogIsASchedulePrefix`, `CompletionBindsTheLog`, `MeasurementsDoNotOverlap`, `RefusalHasCause` |
| `freeze_inputs` | three symmetric freezers, the identity may move once; all endpoints of 3 origins and paths of up to 3 segments | `LoadableIsValidated`, `FreezersAgree`, `LeftoverCanaryHasAFailedOwner`, `OneCanaryAtATime`, `PublishedStoresLoad` |
| `circuit_compiler` | every circuit of two facts, an inner gate, one of three second gates and an answer gate, cyclic ones included; circuits of three facts with shared gates and two answer gates; broken triples; NPCS graphs with constants; 3 weight files | published probabilities are sums over the possible worlds (`ProbabilitiesAreExact`), exactly the cyclic circuits are refused (`CyclesAreRejected`) |
| `provenance_dag` | every expression of depth two over two tokens, some of depth five; responses of up to three rows, cut short and with lost rows; both modes | `DagDenotesResponse`, `DagIsCanonical`, `MetricsVouch` |

Why the bounds are enough to be interesting.

* The plans cover each kind of edge of the scheduler (read-write, write-write, barrier
  on both sides) and a mislabelled step; two chunks make a relation half-written; the
  widest level has three steps, so two workers queue and three do not.
* On three nodes there are cycles through all nodes, self-loops, islands and both boundary
  values of the round bound; on four nodes the longest simple path needs all rounds.
  Two runs per endpoint suffice for any pair of interfering accesses; a row is owned by
  one run.
* Responses have zero rows, as many as the limit, and one more; chunks may end at every
  position, the middle of a term included.
* A cut row of a response keeps its first lexeme or all but its last. A row cut to nothing
  and merged with other rows of its answer is left out of the instances: the code takes an
  empty operand of the merged sum for no operand (`npcs_postprocess.py:657-658` joins them,
  183 refuses only a text that is empty as a whole), so what the row has lost goes unnoticed and
  `DagDenotesResponse` would not hold there.
* Two measured runs can agree in answers and differ in circuits, or differ in both; a
  second driver meets a living runner of the first; a second attempt meets the
  directory of a dead one. Only the last run of the second cell varies: comparisons are
  between pairs of measured runs.
* The Wikidata protocol measures five executions; one warm-up and one measured execution
  already separate "first failed", "later failed" and "all done".
* Two slots per cell let a cell fail half way, two cells of one instance share a baseline.
  One change of identity separates before and after; the third freezer sees what two
  others made of each other.
* Three facts are the least with a gate that shares, and the least for which the order of
  variables changes the diagram of a mixed circuit.

**Deadlock** is checked wherever the end of the system is a state of its own, a
stuttering disjunct of `Next` (`Terminated`, `Finished`, `Idle`, `Ended`): any other stop is an
error, among them an empty level in the middle of a schedule. `cell_runner`, `wikidata_shard`,
`experiment_log` and `freeze_inputs` say `CHECK_DEADLOCK FALSE`: their processes stop, and
the operator who could start others has used up the bounded number of starts. A slot of
`cell_runner` whose worker was left behind is free again when the worker ends.

**Fairness.** `PlanExecution`: weak fairness of the caller's steps and of *some* task
step: the JVM schedules runnable threads, and the endpoint answers or fails each
request. Nothing forces a late update to arrive, or an interrupt to happen.
`PathFixpoint`, `EndpointRuns`: weak fairness of the steps of each run, which is a
process of its own. No run is forced to start, to fail or to be killed, and no
operator to recover. `RunPipeline`: the clock (`Expire`), the runner, and the kill of an
offline worker at its deadline; the endpoint, the endpoint worker and the engine may hang.
`CellRunner`: each started driver and runner takes its next step, because every child has a
hard deadline and is awaited; that anything is started, killed, moved or resumed is the
operator's choice. The other modules state safety only.

### Disagreements between code and comments

One has a run that reproduces it (`findings` quotes the lines):

* `endpoint_path_rows`: the descriptor row "lets crash recovery find" path rows
  (`CircuitRun.java:1290`); the recovery update (`recover_store.py:22`) has no anchor for
  them. `validate_stores` notices by the size of the repository.

Others, met while modelling and visible in the models, have none:

* `CircuitRun.java:1022`: after an interrupt `runLevelConcurrently` no longer waits for
  the tasks that are still running (the flag is set again at once, so every later
  `get()` throws), and the cleanup races them; the comment says every task is
  awaited. Nothing in the repository interrupts the thread; an embedding caller could.
  `CleanupRunsAlone` and `NoResidue` are therefore stated for runs without an interrupt.
* `CircuitRun.java:713`: "every step in one level is independent of every other"; there is no
  edge from a step to a later one that writes what it reads, and the two may share a level. A
  relation has one content, so the circuit does not change (`CircuitIsSequential`,
  `InFlightIsSound`).
* `CircuitRun.java:1189`: the empty-round test "only ever fires under exact levels",
  says its comment; a source without an outgoing hop leaves level 0 of e+ empty, and
  then it fires under cumulative levels. The answers remain exact.
* `CircuitRun.java:377`: "retain that exact removal set", says the comment, but for
  a plan the set is the circuit and does not hold the message rows. When the
  plan's own removal failed, `CIRCUIT_CLEANUP` does not remove them either (the
  failure is reported by `workspace_cleanup`, so `CleanExitMeansCleanStore` holds).
* `CircuitRun.java:519`: "only state written by this invocation", "a per-run
  graph"; the name is the hash of the query text, so two invocations of a query
  share it. And lines 222-226 promise that with a named graph the cleanup is "a SAFE per-run
  CLEAR GRAPH -- never the blanket con.remove() that could delete a content-addressed gate
  shared with another circuit"; for a plan with feedback the blanket removal follows the
  clear (line 525), also when the run has persisted nothing (line 528). Lines 429-433 do
  warn against the flag on a shared store. `PersistedCircuitStays` names these causes.
* `freeze_inputs.py:1024`: the store's lock is to "serialize canary mutations", but an
  interrupt in `proc.join` (1140, outside the `try` that kills the process) releases it
  explicitly (1097) while the canary process goes on. `OneCanaryAtATime` excepts it;
  whatever that process leaves has an owner that raised.
* `controlled_mechanisms.py:1555`, `:2275`: a file that ends in a lone CR is neither
  repaired as a torn tail nor accepted; every later invocation refuses it
  (`RefusalHasCause` names it).
* `controlled_mechanisms.py:804`, `:1892`: a value that is not finite is to be classified
  as `non-finite-binary64-result`, but its checksum is taken first and raises, so that the
  attempt is recorded as an error.
* `watdiv10m_runner.py:669`: a connection lost under a Content-Length reads as the
  end of a streamed response, which then counts as complete; `OkRunIsComplete` leaves
  that transport out. The JSON mode notices, since the document does not parse.
* `run_shard.py:199`: a cell process that outlived its driver writes into the directory
  the next driver archived (`disturbed`, above).
* `recover_store.py:102`: nothing validates again, so an update of a killed run that is
  applied after a successful validation stays unnoticed.

## 4. What is proved

The proofs are checked by TLAPS for every value of the constants.

**`PlanExecutionProofs`**, from `PlansAssumption` (every plan is well formed),
`ParallelismAssumption` and `FaultsAssumption`. The invariants build on one
another, each proved inductive relative to the ones before it:

* `TypeCorrect`.
* `WorkspaceCoversStore`: `RegisteredInv` adds that what a task has still to write is
  registered.
* `ScheduleIsSound`: `ScheduleInv` relates the levels assigned so far, the barrier
  and the dependencies; `LevelsRespectDependencies` alone is not inductive, because
  a step after a barrier is above it only if `afterLastBarrier` is.
* `ReadsComplete`: `PhaseInv` says which steps can be where while level `current` runs, and
  `StoreInv` that what a finished round wrote is complete on the endpoint until the cleanup
  starts.
* `InFlightIsSound`: from the same invariants, what steps in flight together may do to each
  other. They are not independent in every sense: a later step may write what an earlier one
  reads (hash-consed operands). Then the relation was filled before by a step that the reader
  had to wait for, and the writer repeats its rows (`EarlierWrites`).
* `CircuitExact`: `CircuitInv` says that the circuit and the gates waiting for the merge
  are gates of the sequential circuit, and that the gates of every merged step and
  of every finished path round are in it.
* `ImplementsConstruction`: initial states and steps of the refinement. It
  needs that no path step is in flight once the outcome is decided, which holds
  also after an interrupt: a path step is alone on its level, and only the wait for
  a level of several tasks can be interrupted.
* `CleanupAlone`, `CleanupComplete`: under the stated hypotheses that there are no
  interrupts, and no late updates for the second.

**`PathFixpointProofs`**, from `PathAssumption` (which includes that a dataset is a finite
set of facts), for every graph, query, batch size and number of runs. Two invariants:

* `PathInv`: every gate of a run's circuit is justified (a level gate's lineage contains a
  path of the query from its source to its target; a base gate's is one hop), answers are
  sound, and every row on the endpoint under the key of a run that has not failed is a gate
  of its circuit. With type correctness it gives `PathTypeCorrect`, `PathCircuitSound`,
  `PathAnswersSound` and `PathRunsIsolated`.
* `CompleteInv`, for the other half of `PathAnswersExact`: the search has followed every hop
  of the nodes it has expanded (`SearchInv`); the base relation has every hop of the nodes no
  longer pending (`BaseInv`); level 0 tells the hops of the source, each level those of the
  level before, and the cumulative form carries everything to the last level (`LevelInv`).
  None of this bounds the rounds. What does is `Progress`, which is in `LevelInv` too: in any
  world, after n rounds either no hop leads out of the set of nodes told of (`Closed`), or
  this set with the source has at least n + 2 nodes. The round cap and the convergence test
  both say that there are at most n + 1 nodes to be told of (`TooFew`), and an empty round
  that no hop leads out (`RoundsOverClosed`), so a run that stops is closed in every world. The
  induction over the length of paths that the claim seems to need is the induction over the
  steps of the run.

**`EndpointRunsProofs`**, from `EndpointAssumption`, for any number of runs:

* `EndpointTypeCorrect`, with `RetryInv`: fewer than two attempts until the run ends.
* `CleanExitIsClean`: `CleanAt` says for each phase where the rows of a run can be and
  that late updates only exist for runs that can no longer exit cleanly;
  `OthersUntouched` isolates the runs.
* `PersistedCircuitsStay`: needs `CleanupAsked`, that only a run with cleanup drops its
  graph, and `ShedInv`, that what a run is still to remove is of the circuit it built. Then
  only four kinds of step take a triple from a graph (`GraphChanges`), each of them makes one
  of the excuses of the property true, and an excuse stays true (`CleansUpStays`,
  `ExcusedStays`).
* `InvalidStoreHasACulprit`: needs that every triple in a graph was persisted by a run that
  is about to drop that graph, keeps it or did not end well (`GraphInv`), and that no run is
  active between recovery and the next start (`QuietInv`). `LeftByFaulty` combines them with
  the invariant for the rows.

**`CellRunnerProofs`**, from `RunnerAssumption`, for any number of cells, runs, artifacts,
processes, kills and moves:

* `CellTypeCorrect`; the type invariant includes that a resumption at work has its
  attempt directory.
* `OneRunnerWorks`: `ClaimInv` says that a terminal cell has its directory, that every
  directory belongs to a cell the driver has reached, and that at most one runner, or the
  worker it left, has claimed a cell it has not finished. The last needs the others: a
  restarted driver stops at the directory of the runner, or worker, that its predecessor
  left. `MovedInv` counts the workers that were left without their directory: no more
  than directories were moved.
* `RecoveryIsHeeded`: `DriverInv`, that of the cells a driver has invoked only the
  current one may require recovery.
* `CellsTellTheTruth`: `RecordInv` (a run that is recorded ok was ok in both phases and
  agrees with the first measured run) and `RunsInv` (where the runner of a cell is, and what
  is recorded before and after that run), with `TerminalCellsAreFrozen`: nobody touches
  the runs of a terminal cell.
* `ResumptionsTellTheTruth`: `ResumeInv` says who writes into which attempt, and what a
  resumption that is going to publish ok, or has, can rely on. Its core is `AllOkStays`: an
  ok result of an attempt is never overwritten, and the runs of a terminal cell are
  frozen, so that what one resumption computed stays true while others write.

* `CyclesRejected`, about `CircuitCompiler`, from `SourcesAssumption` (a stored artifact is a
  finite set of triples over numbered nodes, or a finite graph whose operands are its nodes),
  for every circuit, with any number of roots and gates. The inductive invariant
  `CompilerInv` is about the stack of `_compile_roots`, on which pending siblings lie between
  the entries that were opened. An opened entry leads to every entry above it, none of which
  is the same node, and its children are in the memo or have an entry above (`LedTo`); the
  nodes being visited are the opened ones (`PathInv`). So a child being visited leads back to
  itself, which is the cycle the search reports; and a node is memoised only when all its
  children are, so what is in the memo is above no cycle (`Ranked`), and neither is a root once
  compiled, whether its memo is kept for the next root or not. Both halves need that
  `Cone`, computed by closing a set once per node of the table, is the least closed set: it
  is `ConeIsLeast`, by counting, since a step that adds nothing ends the growth. That
  `parse` and `merge_answer_roots` give tables whose operands are in them (`CircuitIsTable` and
  `MergeStep`) is part of it.

**`FreezeInputsProofs`**, from `FreezeAssumption` and `RegistrationAssumption` (a depth is a
number), for any number of freezers:

* `FreezeTypeCorrect`.
* `CanariesTakeTurns`: `StoreInv`, that the freezer whose canary process runs holds the
  store's lock, alive or killed, unless it was interrupted under the process. Releasing a lock
  is releasing one's own: a canary process that ends never frees another's.
* `LoadableWasValidated`, `SuccessIsShared`: `OutputInv` (who publishes holds the output
  directory, and where it is says whether its temporary name exists and its document was
  validated) and `CreatedInv` (the published name is the link of at most one freezer that
  may withdraw it, and of none once a freezer succeeded).
* `CanariesAreOwned`: `CanaryInv`, that an insert is on its way only under a worker that
  goes on to clean up, and that a canary is not in the store before its worker inserts it
  or after the worker has proved its case.
* `EveryRegistrationHolds`, and `StoresOfADocumentLoad` with it. What is registered does not
  change while the program runs, so this is a fact about the operators of
  `StoreRegistration`, for all paths over any segments, of any depth, where the run enumerates
  three segments. `BindingShows` is one half, for every path: whichever binding
  `_bind_update_endpoint` finds, its hashes pass `Consistent`. `HashesDecide` is the other,
  on clear paths: there `Stripped` takes nothing away but a root's only slash, and `OrRoot`
  gives no two of them one hash (`OrRootTellsApart`), so equal hashes of parents are equal
  parents, and a path is its parent and its leaf (`ParentAndLeaf`). `StrippedIs` says where
  `rstrip` cuts, with the largest position that is not empty (`MaxUpTo`).

**`ExperimentLogProofs`**, from `ExperimentAssumption` (a schedule is not empty and no
fault of a worker is called `ok` or `not-run`; the faults of the code are `oom` and `error`),
for every schedule, any number of invocations, attempts, kills and moves of the environment.
The inductive invariant `LogInv` has five parts: an invocation at work holds the lock, and so
does a worker that runs, unless its driver was interrupted (`LockAt`); what an invocation that
has loaded the log remembers is what the file says, valid under its identity, and its place
says which slots are missing and what the completion document is (`MemoryAt`); the whole rows
are valid under the identity of the first of them, and only a success has a parity (`Sound`);
`CompletionBindsTheLog` itself; and what made an invocation stop stays true (`CauseAt`).

* `LogInvariant`: type correctness and `LogInv`. Its steps rest on lemmas about the operators:
  a valid checkpoint holds the first slots (`CheckpointSlots`) and with the next slot's row is
  one again (`AppendValid`), a torn write leaves the old rows or the new ones
  (`TornWritesFacts`), and the baseline the driver takes, the first *accepted* row of the
  instance, is the first *success* the validation expects (`BaselineIsFirst`): the first
  success can only be a baseline. Hence `Record` never refuses a row (`RecordKeeps`).
* `LogIsThePrefix`, `CompletionBinds`, `OneMeasurementAtATime`, `RefusalsAreJustified`: the
  four properties of the run. The third needs the worker to hold the lock by its inherited
  descriptor; the last needs that no invocation is past its loading while it finds the
  completion document half linked.

**`WikidataShardProofs`**, from `ShardAssumption` (a plan is not empty and has each physical
method at most once, which is how `build_plan`, `run_shard.py:95`, makes it) and
`PqeAssumption`, for any plan, number of measured executions, sessions and starts. The
inductive invariant of `ShardInvariant`: where each cell process is and what its directory
holds then (`ProcessAt`); state in the store has its process or a trace in a directory
(`StoreAt`); the driver leaves records behind it and archives nothing of a cell at work,
unless the cell is disturbed (`DriverInv`); the record of a cell is that of the runs in its
directory, with at most one process inside a calm cell (`CellAtWork`); what is archived with a
record belongs to a disturbed cell (`ArchivedInv`); and a parity that was published is that of
the recorded answers, if no cell was disturbed (`ParityInv`).

* `LeftoversShow`, `CompletionHolds`, `ParityHolds` follow from it.
* `BesideTheBatch`: a behaviour of shard and batch is one of the shard (the batch reads what
  the shard writes and writes elsewhere), so all of this holds beside the batch.
* `BatchInvariant`, `FiguresBacked`: the cell that an evaluation was taken from has a record
  that says it succeeded, unless it was disturbed (`Sourced`), or was archived with one; and an
  evaluation that counts as ok has no run that failed.

**`ProvenanceDag`, also in `WikidataShardProofs`**, from `ProvenanceAssumption` (responses are
sequences of rows whose answer keys are numbers; a key only has to be comparable), for every
response: any number of rows and answers, any text, legal or not, cut anywhere, in both modes.
`DagCanonical` states `DagIsCanonical`. Its inductive invariant `DagInv` follows the pipeline.

* `ParserInv`: the operands of a raw node, and of the operators still open, were made before it.
  So `NormalizeNode` finds the shapes of its operands (`MadeIs`).
* `NormalInv`: what is normalised is in normal form, each shape after its parts (`IsForm`);
  `NotIs` and `NaryIs` are the lemmas about `MakeNot` and `MakeNary`: flattening operands of
  the same operator cannot bring in another one, because they are in normal form.
* `ReachInv`: the parts of a shape that was looked at are reached or about to be; when nothing is
  left to look at, they are all reached.
* `InternInv`: a shape is interned after its parts, to a node with its contents, and two shapes
  never to one node. The least shape that waits therefore has its parts interned
  (`PartsAreInterned`). Because no two parts share a node, an operator keeps its two operands
  in the graph, and the node of a shape that waits is of no other shape of the answer
  (`InternedOnce`). A node that is new to the graph keeps it canonical (`CanonicalGrows`).
* `AnswersInv`: keys are distinct (`KeysAreOrdered`, by the order that a finite set of numbers
  has, `NumbersHaveAnOrder`), and the answer at work has no root yet; so a root is added with
  every answer, never twice.

**`RunPipelineProofs`**, from `PipelineAssumption` (the methods and modes there are, responses
are sequences, the limit is a number), for every set of responses, any rows and any limit.
`PipelineInvariant` has type correctness and seven parts: the worker, its verdict and its
file (`WorkerInv`); the engine and the store (`EngineInv`); where the offline worker and the
runner's verdict can be (`OfflineInv`); the journal names the stage at work and no other
(`JournalInv`); the collector is where the bytes are (`StreamInv`); and what each artifact of
the two phases holds (`ResponseInv`, `ArtifactInv`, of which each step needs that a file has one
writer, `FilesKept`).

* `LeftoversAreCovered` follows from the second and third part, `StageStateHolds` from the
  journal's: a torn line is neither a start nor a completion (`TornIsNothing`).
* `OkRunsAreComplete`. `StreamInv` says that after `n` bytes the collector holds the rows of
  `n \div 3` lines and the pending bytes are the others, and the work is in showing that a
  read keeps this, wherever it ends. `Fed` is recursive over the bytes read. It is given in closed form:
  `FedBytes` shows that the function "the rows of as many lines as have ended" satisfies the
  recursion, and that no other function does, by the least position where another could differ
  (`NatMin`, which is well-foundedness without an operator as parameter). Every line is parsed
  once and whole (`LineOf`, `RestOf`, `NextBytes`), and `Consume` is one line: header, row,
  or a row beyond the limit, with which all are forgotten. `FinishCollects` is the last line,
  with and without a newline.

**Only model-checked.** All liveness (`Termination`, `RunIsRecorded`, `DriverEnds`, the
fairness part of `KeepsPromise`), which is beyond the prover; `ProbabilitiesAreExact` of
`CircuitCompiler`, an induction over decision diagrams, clauses and circuits; and
`DagDenotesResponse` and `MetricsVouch` of `ProvenanceMeaning`, inductions over expressions.

## 5. Plan and what is not modelled

Next, in this order:

1. `CircuitCache`: payload and sidecar under a lock with crashes, and readers without
   it; abstract specification: a map from keys to complete artifacts.
2. `CircuitFolding`: `CircuitNormalizer` on every gate graph over four gates,
   against the function of the answer gates.
3. `FactoredJoin`: variable elimination of `FactoredBgpRewriter` against the join
   over small relations and every elimination order, feeding a well-formed plan.
4. The nesting of deadlines (`experiment_timeouts`); semiring evaluation (`gates.py`,
   `gamma.py`) against the sum over worlds.

Modules to be proved about use recursive functions or folds, never recursive
operators.

Not planned: the NPCS and SPARQL text rewriting, reification, file formats,
data preparation, figures and statistics (pure functions on text without control of
their own); the TPC-H and ProvSQL drivers, whose pattern of resumption is that of
`WikidataShard`; CUDD and d4 themselves, which are external and modelled by what they return.
Within modelled components are left out: the loading and cross-checking of
configurations and tool identities, the contents of reports, the exploratory mode of
`freeze_inputs`, `--continue-after-failure`, floating-point rounding, and memory figures.
