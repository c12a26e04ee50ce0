--------------------------- MODULE WikidataShard ---------------------------
(***************************************************************************)
(* run_shard.py and the run_cell.py processes it starts: the resumable      *)
(* driver of a Wikidata-141 shard, whose cells run one query by the paired  *)
(* NPCS methods or by one circuit method, and what they leave in the result *)
(* root and in the store.  The driver may be killed with its cell process   *)
(* or without it, and started again in a new session; a cell process may    *)
(* die; the operator may recover the store between sessions.                *)
(*                                                                          *)
(* Data abstraction: an execution is whether its endpoint phase succeeded,  *)
(* which logical methods did, and the answers each one left; answers matter *)
(* in the first measured execution only.                                    *)
(***************************************************************************)
EXTENDS Integers, Sequences, FiniteSets

CONSTANTS
  Plan,       \* the cells of a query, in the order of build_plan
  Measured,   \* measured executions after the one warm-up; the protocol has 5
  Answers,    \* answer files that differ
  Sessions    \* a bound on the starts of the driver

Physical == {"N-paired", "C-flat", "C-factorised", "C-path"}
Cells == DOMAIN Plan

\* build_plan refuses a query without a method, and takes each at most once.
ASSUME ShardAssumption ==
  /\ Plan \in Seq(Physical) \ {<< >>}
  /\ \A c, d \in Cells : Plan[c] = Plan[d] => c = d
  /\ {Measured, Sessions} \subseteq Nat \ {0}

VARIABLES
  output,      \* the directory of each cell: executions opened and recorded, cell.json
  interrupted, \* archived directories: the cell, and the cell.json they hold
  validation,  \* query-validation: none, or whether the answers agree
  complete,    \* complete.json: none, or the status of each cell
  session,     \* of the last driver
  driver,      \* what it is doing, and at which cell
  process,     \* the cell process of each session
  store,       \* sessions whose cell process left circuit state in the store
  disturbed    \* history: cells chosen to be archived while a process was at work in them

results == <<interrupted, validation, complete, disturbed>>
vars == <<output, results, session, driver, process, store>>

-----------------------------------------------------------------------------
(* A cell. *)

IsCircuit(c) == Plan[c] # "N-paired"
Logical(c) == IF IsCircuit(c) THEN {Plan[c]} ELSE {"N-per-answer", "N-shared"}
Executions == 1 .. 1 + Measured
FirstMeasured == 2

NoCell == [status |-> << >>, recovery |-> FALSE, runs |-> << >>]
NoOutput == [present |-> FALSE, opened |-> {}, runs |-> [i \in Executions |-> << >>],
             cell |-> NoCell]
HasCell(c) == output[c].cell # NoCell

\* The methods that go on: a failed warm-up ends a method.
Active(c, runs) == IF runs = << >> THEN Logical(c) ELSE runs[1].ok

\* A failed endpoint ends the cell.
Goes(c, runs) ==
  /\ Len(runs) < 1 + Measured
  /\ Active(c, runs) # {}
  /\ \A i \in DOMAIN runs : runs[i].endpoint

\* The answers of two logical methods, where both left some.
Differ(f, g) == f # "none" /\ g # "none" /\ f # g

\* Answers exist for what succeeded, and perhaps for an NPCS branch that failed late:
\* then only a difference from the other branch is ever looked at.
AnswerFiles(c, i, methods, ok) ==
  IF i # FirstMeasured THEN {<< >>}
  ELSE {f \in [Logical(c) -> Answers \cup {"none"}] :
          \A m \in Logical(c) :
            /\ m \in ok => f[m] # "none"
            /\ m \notin ok /\ f[m] # "none" =>
                 /\ methods = {"N-per-answer", "N-shared"}
                 /\ Differ(f["N-per-answer"], f["N-shared"])}

Outcomes(c, runs) ==
  {[endpoint |-> FALSE, ok |-> {}, answers |-> f] :
      f \in AnswerFiles(c, Len(runs) + 1, {}, {})}
  \cup UNION {{[endpoint |-> TRUE, ok |-> ok, answers |-> f] :
                  f \in AnswerFiles(c, Len(runs) + 1, Active(c, runs), ok)} :
               ok \in SUBSET Active(c, runs)}

\* summarize_method, run_c: every execution of the protocol succeeded.
Complete(runs, m) == Len(runs) = 1 + Measured /\ \A i \in DOMAIN runs : m \in runs[i].ok

Mismatch(c) ==
  LET run == output[c].runs[FirstMeasured]
  IN ~IsCircuit(c) /\ run # << >> /\ Differ(run.answers["N-per-answer"], run.answers["N-shared"])

Recovery_OfMeasured(c, runs) == IsCircuit(c) /\ \E i \in DOMAIN runs \ {1} : ~runs[i].endpoint

\* recovery_required: only circuit methods write to the store.
Recovery(c, runs) == IsCircuit(c) /\ \E i \in DOMAIN runs : ~runs[i].endpoint

CellRecord(c, runs) ==
  [status |-> [m \in Logical(c) |-> IF Mismatch(c) THEN "answer-mismatch"
                                    ELSE IF Complete(runs, m) THEN "ok" ELSE "incomplete"],
   recovery |-> Recovery(c, runs),
   runs |-> runs]

CellOk(cell) == \A m \in DOMAIN cell.status : cell.status[m] = "ok"

-----------------------------------------------------------------------------
(* The cell process of session s. *)

NoProcess == [at |-> "none", cell |-> 0, runs |-> << >>, code |-> 0]
Live(s) == process[s].at \notin {"none", "ended"}
CellOf(s) == process[s].cell

\* Nobody waits for a process whose driver was killed.
Awaited(s) == s = session /\ driver.doing = "await"
Ends(s, code) ==
  process' = [process EXCEPT ![s] = IF Awaited(s) THEN [NoProcess EXCEPT !.at = "ended", !.code = code]
                                    ELSE NoProcess]
Goes_on(s, at) == process' = [process EXCEPT ![s].at = at]

\* "refusing to reuse output".
CopyQuery(s) ==
  /\ process[s].at = "start"
  /\ IF output[CellOf(s)].present THEN Ends(s, 1) /\ UNCHANGED output
     ELSE /\ output' = [output EXCEPT ![CellOf(s)].present = TRUE]
          /\ Goes_on(s, "open")
  /\ UNCHANGED <<results, session, driver, store>>

\* The directory of an execution must be new.  An archived output is gone for a
\* circuit cell; the NPCS cell creates it again.
OpenExecution(s) ==
  LET c == CellOf(s)
      i == Len(process[s].runs) + 1
  IN /\ process[s].at = "open"
     /\ IF i \in output[c].opened \/ (IsCircuit(c) /\ ~output[c].present)
        THEN Ends(s, 1) /\ UNCHANGED <<output, store>>
        ELSE /\ output' = [output EXCEPT ![c].present = TRUE, ![c].opened = @ \cup {i}]
             /\ Goes_on(s, "run")
             /\ store' = IF IsCircuit(c) THEN store \cup {s} ELSE store
     /\ UNCHANGED <<results, session, driver>>

\* One endpoint phase and the offline phases after it, and run.json.  A circuit
\* whose endpoint phase succeeded has removed its state.
Execute(s) ==
  LET c == CellOf(s)
      i == Len(process[s].runs) + 1
  IN /\ process[s].at = "run"
     /\ \E run \in Outcomes(c, process[s].runs) :
          LET runs == Append(process[s].runs, run)
          IN /\ output' = [output EXCEPT ![c].present = TRUE, ![c].opened = @ \cup {i},
                                         ![c].runs[i] = run]
             /\ process' = [process EXCEPT ![s].runs = runs,
                                           ![s].at = IF Goes(c, runs) THEN "open" ELSE "final"]
             /\ store' \in IF run.endpoint THEN {store \ {s}} ELSE {store, store \ {s}}
     /\ UNCHANGED <<results, session, driver>>

\* cell.json, which os.replace puts over whatever is there.
WriteCell(s) ==
  LET c == CellOf(s)
      cell == CellRecord(c, process[s].runs)
  IN /\ process[s].at = "final"
     /\ output' = [output EXCEPT ![c].present = TRUE, ![c].cell = cell]
     /\ Ends(s, IF cell.recovery THEN 20 ELSE 0)
     /\ UNCHANGED <<results, session, driver, store>>

ProcessDies(s) ==
  /\ Live(s) /\ Ends(s, 1)
  /\ UNCHANGED <<output, results, session, driver, store>>

-----------------------------------------------------------------------------
(* The driver. *)

At(doing, cell) == driver' = [doing |-> doing, cell |-> cell]
Working == driver.doing \notin {"none", "ended"}

Start ==
  /\ ~Working /\ session < Sessions
  /\ session' = session + 1
  /\ At("look", 1)
  /\ UNCHANGED <<output, results, process, store>>

Partial(c) == output[c].present /\ ~HasCell(c)

\* archive_partial looks first and moves then.
Look ==
  /\ driver.doing = "look"
  /\ At(IF Partial(driver.cell) THEN "archive" ELSE "visit", driver.cell)
  /\ disturbed' = disturbed \cup
       {c \in {driver.cell} : Partial(c) /\ \E s \in 1 .. session : Live(s) /\ CellOf(s) = c}
  /\ UNCHANGED <<output, interrupted, validation, complete, session, process, store>>

Archive ==
  /\ driver.doing = "archive"
  /\ interrupted' = interrupted \cup {<<driver.cell, output[driver.cell].cell>>}
  /\ output' = [output EXCEPT ![driver.cell] = NoOutput]
  /\ At("visit", driver.cell)
  /\ UNCHANGED <<validation, complete, disturbed, session, process, store>>

Next_cell(c) == IF c < Len(Plan) THEN At("look", c + 1) ELSE At("finish", c)

\* A terminal cell is reused whatever it says.
Reuse ==
  /\ driver.doing = "visit" /\ HasCell(driver.cell)
  /\ Next_cell(driver.cell)
  /\ UNCHANGED <<output, results, session, process, store>>

Spawn ==
  /\ driver.doing = "visit" /\ ~HasCell(driver.cell)
  /\ process' = [process EXCEPT ![session] = [NoProcess EXCEPT !.at = "start", !.cell = driver.cell]]
  /\ At("await", driver.cell)
  /\ UNCHANGED <<output, results, session, store>>

LogicalMethods == UNION {Logical(c) : c \in Cells}
CellFor(m) == CHOOSE c \in Cells : m \in Logical(c)
AnswersOf(m) == LET run == output[CellFor(m)].runs[FirstMeasured]
                IN IF run = << >> THEN "none" ELSE run.answers[m]
Pairs == {<<"N-per-answer", "N-shared">>, <<"C-flat", "C-factorised">>,
          <<"N-shared", "C-factorised">>}
Compared == {p \in Pairs : {p[1], p[2]} \subseteq LogicalMethods}

AllSucceeded_Present == \A c \in Cells : HasCell(c)
AllSucceeded == \A c \in Cells : \A m \in Logical(c) : output[c].cell.status[m] = "ok"

\* write_query_validations: once, when every cell of the query is terminal.
Validated ==
  IF validation # "none" \/ \E c \in Cells : ~HasCell(c) THEN validation
  ELSE IF ~AllSucceeded \/ Compared = {} \/ (\E m \in LogicalMethods : AnswersOf(m) = "none")
       THEN "unknown"
       ELSE IF \A p \in Compared : AnswersOf(p[1]) = AnswersOf(p[2]) THEN "equal" ELSE "different"

EndsDriver_OnRecovery(c, code) == code = 20
EndsDriver(c, code) == ~HasCell(c) \/ code # 0

\* After the cell process: no record ends the driver, as does a recovery (20).
Collect ==
  LET c == driver.cell
  IN /\ driver.doing = "await" /\ process[session].at = "ended"
     /\ validation' = Validated
     /\ IF EndsDriver(c, process[session].code) THEN At("ended", 0) ELSE Next_cell(c)
     /\ process' = [process EXCEPT ![session] = NoProcess]
     /\ UNCHANGED <<output, interrupted, complete, disturbed, session, store>>

\* write_status and complete.json.
Finish ==
  /\ driver.doing = "finish"
  /\ validation' = Validated
  /\ complete' = [c \in Cells |-> output[c].cell.status]
  /\ At("ended", 0)
  /\ UNCHANGED <<output, interrupted, disturbed, session, process, store>>

\* The driver is killed, with its cell process or without it.  In the last session
\* this adds nothing to the driver's standing still.
Kill ==
  /\ Working /\ session < Sessions
  /\ At("ended", 0)
  /\ process' \in {[process EXCEPT ![session] = NoProcess],
                   IF Live(session) THEN process ELSE [process EXCEPT ![session] = NoProcess]}
  /\ UNCHANGED <<output, results, session, store>>

\* recover_store, when the operator sees no session at work.
Recover ==
  /\ ~Working /\ \A s \in 1 .. session : ~Live(s)
  /\ store # {} /\ store' = {}
  /\ UNCHANGED <<output, results, session, driver, process>>

-----------------------------------------------------------------------------
Init ==
  /\ output = [c \in Cells |-> NoOutput]
  /\ interrupted = {} /\ validation = "none" /\ complete = << >>
  /\ session = 0 /\ driver = [doing |-> "none", cell |-> 0]
  /\ process = [s \in 1 .. Sessions |-> NoProcess]
  /\ store = {} /\ disturbed = {}

DriverStep == Start \/ Look \/ Archive \/ Reuse \/ Spawn \/ Collect \/ Finish
ProcessStep(s) == CopyQuery(s) \/ OpenExecution(s) \/ Execute(s) \/ WriteCell(s)

Next ==
  \/ DriverStep \/ Kill \/ Recover
  \/ \E s \in 1 .. session : ProcessStep(s) \/ ProcessDies(s)

Spec == Init /\ [][Next]_vars

-----------------------------------------------------------------------------
(* Properties. *)

\* Circuit state that no process is going to remove left a trace in the results: a
\* cell that asks for recovery, a directory without a record, or an archived one.
LeftoverLeavesATrace ==
  store # {} =>
    \/ \E s \in store : Live(s)
    \/ \E c \in Cells : output[c].cell.recovery \/ Partial(c)
    \/ interrupted # {}

\* A completed shard has every cell, and says of each what its record says.
CompleteIsTrue ==
  complete # << >> =>
    \A c \in Cells \ disturbed : HasCell(c) /\ complete[c] = output[c].cell.status

\* The parity verdict of a query is about the cells that are there.
ParityIsOfTheCells ==
  validation \in {"equal", "different"} /\ disturbed = {} =>
    /\ \A c \in Cells : CellOk(output[c].cell)
    /\ (validation = "equal") = (\A p \in Compared : AnswersOf(p[1]) = AnswersOf(p[2]))

=============================================================================
