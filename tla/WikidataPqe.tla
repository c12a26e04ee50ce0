---------------------------- MODULE WikidataPqe ----------------------------
(***************************************************************************)
(* run_pqe_batch.py and the run_pqe.py processes it starts, beside the      *)
(* shard whose construction cells they read: a batch fixes its sources, the *)
(* circuit cells that succeeded, in batch-config.json, evaluates each once, *)
(* and ends in batch.json.  It may be killed, with its process or without   *)
(* it, and started again while the shard still grows.                       *)
(***************************************************************************)
EXTENDS WikidataShard

CONSTANT Starts  \* a bound on the starts of the batch

ASSUME PqeAssumption == Starts \in Nat \ {0}

VARIABLES
  config,    \* batch-config.json: none, or the circuit cells absent or failed
  target,    \* the PQE directory of each cell: absent, partial, or cell.json
  final,     \* whether there is a batch.json
  starts,    \* of the batch
  batch,     \* what it is doing, its cell, and the sources it has left
  worker     \* the PQE process, which may outlive its batch

pqe == <<config, target, final, starts, batch, worker>>

-----------------------------------------------------------------------------
Circuits == {c \in Cells : IsCircuit(c)}

\* The places of cell.json files, archived ones included (rglob): <<c>>, or
\* <<c, cell>> for an archived cell.
Places(c) == {e \in {<<c>>} : HasCell(c)} \cup {e \in interrupted : e[1] = c /\ e[2] # NoCell}
CellAt(e) == IF Len(e) = 1 THEN output[e[1]].cell ELSE e[2]

\* Those of the construction cells that succeeded.
Found == {e \in UNION {Places(c) : c \in Circuits} : CellOk(CellAt(e))}

Sources == {e[1] : e \in Found}
Ambiguous == Cardinality(Found) > Cardinality(Sources)

NoBatch == [doing |-> "ended", todo |-> {}, cell |-> 0]
NoWorker == [at |-> "none", cell |-> 0, runs |-> << >>, source |-> << >>]
Busy == batch.doing \in {"next", "await"}
Stops == batch' = NoBatch

SameConfig(absent) == config = << >> \/ config = <<absent>>

\* Two cells of one name, or a resumed batch with other sources, are refused, and a
\* batch that has its batch.json ends at once: these starts change nothing.
StartBatch ==
  /\ ~Busy /\ starts < Starts /\ ~Ambiguous /\ ~final
  /\ LET absent == Circuits \ Sources
     IN /\ SameConfig(absent)
        /\ config' = IF config = << >> THEN <<absent>> ELSE config
  /\ starts' = starts + 1
  /\ batch' = [NoBatch EXCEPT !.doing = "next", !.todo = Found]
  /\ UNCHANGED <<target, final, worker>>

First(todo) == CHOOSE e \in todo : \A f \in todo : e[1] <= f[1]

ReuseTarget ==
  /\ batch.doing = "next" /\ batch.todo # {}
  /\ target[First(batch.todo)[1]].at = "cell"
  /\ batch' = [batch EXCEPT !.todo = @ \ {First(@)}]
  /\ UNCHANGED <<config, target, final, starts, worker>>

\* "partial PQE cell must be preserved or moved".
RefusePartial ==
  /\ batch.doing = "next" /\ batch.todo # {}
  /\ target[First(batch.todo)[1]].at = "partial"
  /\ Stops
  /\ UNCHANGED <<config, target, final, starts, worker>>

\* The process reads the cell.json that is at its place by then, and fails without one.
SourceIsGone ==
  /\ batch.doing = "next" /\ batch.todo # {}
  /\ LET e == First(batch.todo)
     IN target[e[1]].at = "absent" /\ Len(e) = 1 /\ ~HasCell(e[1])
  /\ Stops
  /\ UNCHANGED <<config, target, final, starts, worker>>

\* A process that outlived its batch ends first here; its directory is refused anyway.
StartWorker ==
  /\ batch.doing = "next" /\ batch.todo # {} /\ worker.at = "none"
  /\ LET e == First(batch.todo)
     IN /\ target[e[1]].at = "absent" /\ (Len(e) = 1 => HasCell(e[1]))
        /\ target' = [target EXCEPT ![e[1]].at = "partial"]
        /\ worker' = [at |-> "run", cell |-> e[1], runs |-> << >>,
                       source |-> [i \in DOMAIN CellAt(e).runs |-> CellAt(e).runs[i].endpoint]]
        /\ batch' = [batch EXCEPT !.doing = "await", !.cell = e[1], !.todo = @ \ {e}]
  /\ UNCHANGED <<config, final, starts>>

\* The circuit of an execution is there, and its endpoint phase succeeded.
Usable(c, i) ==
  /\ i \in DOMAIN worker.source /\ worker.source[i]
  /\ (HasCell(c) => output[c].runs[i] # << >> /\ output[c].runs[i].endpoint)

\* run_one: "source" where the source is missing or incomplete.
Statuses(c, i) == IF Usable(c, i) THEN {"ok", "failed"} ELSE {"source"}

LastRun(i, status) == i = 1 + Measured \/ (i = 1 /\ status # "ok")

Evaluated_Warm(runs) == runs[1] = "ok"
Evaluated(runs) == Len(runs) = 1 + Measured /\ \A i \in 2 .. Len(runs) : runs[i] = "ok"

\* cell.json follows the last run; a process that dies between them leaves what one
\* leaves that dies before the run.
RunOne ==
  /\ worker.at = "run"
  /\ LET c == worker.cell
         i == Len(worker.runs) + 1
     IN \E status \in Statuses(c, i) :
          LET runs == Append(worker.runs, status)
          IN IF LastRun(i, status)
             THEN /\ worker' = NoWorker
                  /\ target' = [target EXCEPT ![c] =
                       [at |-> "cell", ok |-> Evaluated(runs), runs |-> runs]]
             ELSE worker' = [worker EXCEPT !.runs = runs] /\ UNCHANGED target
  /\ UNCHANGED <<config, final, starts, batch>>

WorkerDies ==
  /\ worker.at # "none" /\ worker' = NoWorker
  /\ UNCHANGED <<config, target, final, starts, batch>>

\* A failed cell ends the batch, unless it was told to continue.
CollectTarget ==
  /\ batch.doing = "await" /\ worker.at = "none"
  /\ LET c == batch.cell
     IN \/ ~target[c].ok /\ Stops
        \/ target[c].at = "cell" /\ batch' = [batch EXCEPT !.doing = "next", !.cell = 0]
  /\ UNCHANGED <<config, target, final, starts, worker>>

FinishBatch ==
  /\ batch.doing = "next" /\ batch.todo = {}
  /\ final' = TRUE
  /\ Stops
  /\ UNCHANGED <<config, target, starts, worker>>

KillBatch ==
  /\ Busy /\ starts < Starts /\ Stops
  /\ worker' \in {worker, NoWorker}
  /\ UNCHANGED <<config, target, final, starts>>

-----------------------------------------------------------------------------
PqeInit ==
  /\ Init
  /\ config = << >> /\ final = FALSE /\ starts = 0
  /\ target = [c \in Circuits |-> [at |-> "absent", ok |-> FALSE, runs |-> << >>]]
  /\ batch = NoBatch /\ worker = NoWorker

BatchStep == StartBatch \/ ReuseTarget \/ RefusePartial \/ SourceIsGone
             \/ StartWorker \/ CollectTarget \/ FinishBatch
PqeStep == BatchStep \/ RunOne \/ WorkerDies \/ KillBatch

PqeNext ==
  \/ Next /\ UNCHANGED pqe
  \/ PqeStep /\ UNCHANGED vars

PqeSpec == PqeInit /\ [][PqeNext]_<<vars, pqe>>

-----------------------------------------------------------------------------
(* The rows that summarize.py and summarize_pqe.py make of the directories. *)

\* "duplicate physical cell".
SummaryRefused == \E c \in Cells : Cardinality(Places(c)) > 1

MethodSummary(cell, m) ==
  LET measured == DOMAIN cell.runs \ {1}
  IN IF /\ cell.status[m] = "ok" /\ Cardinality(measured) = Measured
        /\ \A i \in measured : m \in cell.runs[i].ok
     THEN "ok" ELSE "incomplete"

SummaryOf(m) ==
  IF Places(CellFor(m)) = {} THEN "missing"
  ELSE MethodSummary(CellAt(CHOOSE e \in Places(CellFor(m)) : TRUE), m)

\* The circuits with a row of the evaluation that says ok.
PqeRowsOk == {c \in Circuits : target[c].at = "cell" /\ target[c].ok}

-----------------------------------------------------------------------------
(* Properties. *)

\* The figures are backed by the directories: a method summarised as ok succeeded in
\* every execution that is there, and an evaluation that is ok evaluated every one of
\* them, and is of a method summarised as ok.
FiguresAreBacked ==
  /\ ~SummaryRefused => \A m \in LogicalMethods : SummaryOf(m) = "ok" /\ CellFor(m) \notin disturbed =>
       \A i \in Executions : m \in output[CellFor(m)].runs[i].ok
  /\ \A c \in PqeRowsOk \ disturbed :
       /\ \A i \in Executions : target[c].runs[i] = "ok"
       /\ SummaryRefused \/ SummaryOf(Plan[c]) = "ok"
=============================================================================
