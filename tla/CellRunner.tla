----------------------------- MODULE CellRunner -----------------------------
(***************************************************************************)
(* The immutable cells of the WatDiv experiment: the batch driver           *)
(* (reference/paper/watdiv10m_batch.py) starts one runner process per cell  *)
(* (watdiv10m_runner._run_cell), the runner executes its warm-up and        *)
(* measured runs and writes cell.json, and resume-offline                   *)
(* (_resume_offline_cell) later repeats failed offline work of a finished   *)
(* cell.  Any process may be killed; files survive, memory does not, and a  *)
(* worker, which has a session of its own, survives the runner that started *)
(* it.                                                                      *)
(*                                                                          *)
(* Data abstraction: what an endpoint execution left in its run directory   *)
(* is one artifact (a response, or circuit.nt); offline work derives the    *)
(* answer records from it, Answers[artifact].  How an execution produces    *)
(* its artifact is module RunPipeline.                                      *)
(***************************************************************************)
EXTENDS Integers, Sequences, FiniteSets

CONSTANTS
    Order,             \* the selected cells, in the order of the batch
    CCells,            \* those of a C method
    Warmups, Measured, \* executions per cell
    Artifacts, Answers,\* what an execution may leave, and the answers it gives
    Yields,            \* per cell and run, the artifacts it may leave
    Resumable,         \* the cells resume-offline is called for
    EndpointFailures, OfflineFailures,
    Procs,             \* process slots for runners, 1 .. n
    Resumers,          \* process slots for resume-offline
    MaxKills, MaxMoves, MaxAttempts

Cells == {Order[i] : i \in DOMAIN Order}
Runs == 1 .. Warmups + Measured
MeasuredRuns == Warmups + 1 .. Warmups + Measured

ASSUME RunnerAssumption ==
    /\ Order \in Seq(Cells) /\ CCells \subseteq Cells
    /\ Warmups \in Nat /\ Measured \in Nat \ {0}
    /\ Answers \in [Artifacts -> Artifacts]
    /\ Yields \in [Cells -> [Runs -> SUBSET Artifacts]] /\ Resumable \subseteq Cells
    /\ EndpointFailures \subseteq {"timeout", "runner-error", "http-error"}
    /\ OfflineFailures \subseteq {"offline-timeout", "offline-crash", "offline-error"}
    /\ "none" \notin Artifacts \cup EndpointFailures

VARIABLES
    driver,    \* the batch process
    proc,      \* the runner processes
    resume,    \* the resume-offline processes
    dir,       \* cell directories that exist
    endpoint,  \* per cell and run: none, a failure, or the artifact of an ok execution
    offline,   \* per cell and run: none, ok or a failure
    record,    \* per cell and run: status in run.json
    cell,      \* status in cell.json
    attempts,  \* offline-resume-NNN directories: results per run and resume.json
    batch,     \* batch.json: << >> or <<successful cells>>; it also counts the final pass
    stray,     \* run directories, <<cell, run>>, a left-over worker has written to
    kills, moves,
    disturbed  \* history: cells begun anew beside a worker of the directory moved away

files == <<dir, endpoint, offline, record, cell, attempts, batch, stray>>
faults == <<kills, moves, disturbed>>
vars == <<driver, proc, resume, files, faults>>

NoResult == [r \in Runs |-> "none"]
Idle == [pc |-> "off", cell |-> Order[1], run |-> 1]
Stopped == [pc |-> "off", at |-> 1, child |-> 0, invoked |-> {}, persist |-> FALSE]
Resting == [pc |-> "off", cell |-> Order[1], pending |-> {}, attempt |-> 0, verdict |-> "none"]

\* A slot whose runner has ended holds nothing, or the worker the runner left behind:
\* "left" while the cell directory it was started in is in place, "moved" afterwards.
LeftOver(p) == proc[p].pc \in {"left", "moved"}
RunnerGone(p) == proc[p].pc = "off" \/ LeftOver(p)

EndpointOk(c, r) == endpoint[c][r] \in Artifacts
Recovery(c) == c \in CCells /\ \E r \in Runs : endpoint[c][r] \in EndpointFailures

Init ==
    /\ driver = Stopped
    /\ proc = [p \in Procs |-> Idle]
    /\ resume = [q \in Resumers |-> Resting]
    /\ dir = {}
    /\ endpoint = [c \in Cells |-> NoResult]
    /\ offline = [c \in Cells |-> NoResult]
    /\ record = [c \in Cells |-> NoResult]
    /\ cell = [c \in Cells |-> "none"]
    /\ attempts = [c \in Cells |-> << >>]
    /\ batch = << >>
    /\ stray = {} /\ disturbed = {}
    /\ kills = 0 /\ moves = 0

-----------------------------------------------------------------------------
(* watdiv10m_batch.run                                                      *)

Current == Order[driver.at]

\* The configuration of a resumed batch is the saved one; a batch.json ends it at once.
DriverStart ==
    /\ driver.pc = "off" /\ batch = << >>
    /\ \E persist \in BOOLEAN :
           driver' = [Stopped EXCEPT !.pc = "scan", !.persist = persist]
    /\ UNCHANGED <<proc, resume, files, faults>>

Advance(d) == [d EXCEPT !.pc = "scan", !.at = @ + 1, !.child = 0]

DriverReuses ==
    /\ driver.pc = "scan" /\ driver.at <= Len(Order)
    /\ cell[Current] # "none"
    /\ driver' = Advance(driver)
    /\ UNCHANGED <<proc, resume, files, faults>>

\* A partial cell has no cell.json: preserve or move it before resume.
DriverRefuses ==
    /\ driver.pc = "scan" /\ driver.at <= Len(Order)
    /\ cell[Current] = "none" /\ Current \in dir
    /\ driver' = Stopped
    /\ UNCHANGED <<proc, resume, files, faults>>

DriverInvokes ==
    /\ driver.pc = "scan" /\ driver.at <= Len(Order)
    /\ Current \notin dir
    /\ \E p \in Procs :
           /\ proc[p].pc = "off" /\ \A o \in 1 .. p - 1 : proc[o].pc # "off"
           /\ proc' = [proc EXCEPT ![p] = [pc |-> "begin", cell |-> Current, run |-> 1]]
           /\ driver' = [driver EXCEPT !.pc = "wait", !.child = p, !.invoked = @ \cup {Current}]
    /\ UNCHANGED <<resume, files, faults>>

MayContinue_IgnoringRecovery(c) == cell[c] = "ok" \/ driver.persist

\* What the driver requires of a cell it has just run.  The runner's exit code is 0
\* exactly when it wrote an ok cell.
MayContinue(c) ==
    /\ cell[c] # "none"
    /\ ~Recovery(c)
    /\ cell[c] = "ok" \/ driver.persist

ChildEnded_WithRecord == RunnerGone(driver.child) /\ cell[Current] # "none"

ChildEnded == RunnerGone(driver.child)

DriverCollects ==
    /\ driver.pc = "wait" /\ ChildEnded
    /\ driver' = IF MayContinue(Current) THEN Advance(driver) ELSE Stopped
    /\ UNCHANGED <<proc, resume, files, faults>>

Successes == Cardinality({c \in Cells : cell[c] = "ok"})

DriverFinishes ==
    /\ driver.pc = "scan" /\ driver.at > Len(Order)
    /\ batch' = <<Successes>>
    /\ driver' = Stopped
    /\ UNCHANGED <<proc, resume, dir, endpoint, offline, record, cell, attempts, stray, faults>>

-----------------------------------------------------------------------------
(* watdiv10m_runner._run_cell                                               *)

Goto(p, pc) == proc' = [proc EXCEPT ![p].pc = pc]
Ends(p) == proc' = [proc EXCEPT ![p] = Idle]

Claims_Reusing(p) == TRUE

\* "refusing to reuse cell output directory"; the mkdir that follows the check fails
\* for all but one of two runners.
Claims(p) == proc[p].cell \notin dir

RunnerBegins(p) ==
    /\ proc[p].pc = "begin"
    /\ IF Claims(p)
       THEN dir' = dir \cup {proc[p].cell} /\ Goto(p, "open")
       ELSE UNCHANGED dir /\ Ends(p)
    /\ UNCHANGED <<driver, resume, endpoint, offline, record, cell, attempts, batch, stray, faults>>

\* run_dir.mkdir(): where a left-over worker was first, the runner ends with an
\* exception, and the cell has no cell.json.
RunOpens(p) ==
    /\ proc[p].pc = "open"
    /\ IF <<proc[p].cell, proc[p].run>> \in stray THEN Ends(p) ELSE Goto(p, "endpoint")
    /\ UNCHANGED <<driver, resume, files, faults>>

\* A left-over worker of the same run may be the one whose endpoint-result.json is read.
EndpointRuns(p) ==
    LET c == proc[p].cell  r == proc[p].run IN
    /\ proc[p].pc = "endpoint"
    /\ \E result \in Yields[c][r] \cup EndpointFailures :
           /\ endpoint' = [endpoint EXCEPT ![c][r] = result]
           /\ Goto(p, IF result \in Artifacts THEN "offline" ELSE "record")
    /\ UNCHANGED <<driver, resume, dir, offline, record, cell, attempts, batch, stray, faults>>

\* Offline work in what is left of the complete-method deadline.
OfflineRuns(p) ==
    LET c == proc[p].cell  r == proc[p].run IN
    /\ proc[p].pc = "offline"
    /\ \E result \in {"ok"} \cup OfflineFailures :
           offline' = [offline EXCEPT ![c][r] = result]
    /\ Goto(p, "record")
    /\ UNCHANGED <<driver, resume, dir, endpoint, record, cell, attempts, batch, stray, faults>>

\* The measured run all later ones are compared with: the first whose offline work
\* succeeded.
IsFirstMeasured(c, r) ==
    r \in MeasuredRuns /\ \A q \in MeasuredRuns : q < r => offline[c][q] # "ok"
FirstMeasured(c) == CHOOSE r \in MeasuredRuns : offline[c][r] = "ok" /\ IsFirstMeasured(c, r)

RunStatus_AnswersOnly(c, r) ==
    IF ~EndpointOk(c, r) THEN endpoint[c][r]
    ELSE IF offline[c][r] # "ok" THEN offline[c][r]
    ELSE IF r \notin MeasuredRuns \/ IsFirstMeasured(c, r) THEN "ok"
    ELSE IF Answers[endpoint[c][r]] # Answers[endpoint[c][FirstMeasured(c)]] THEN "answer-mismatch"
    ELSE "ok"

RunStatus(c, r) ==
    IF ~EndpointOk(c, r) THEN endpoint[c][r]
    ELSE IF offline[c][r] # "ok" THEN offline[c][r]
    ELSE IF r \notin MeasuredRuns \/ IsFirstMeasured(c, r) THEN "ok"
    ELSE IF c \in CCells /\ endpoint[c][r] # endpoint[c][FirstMeasured(c)] THEN "circuit-mismatch"
    ELSE IF Answers[endpoint[c][r]] # Answers[endpoint[c][FirstMeasured(c)]] THEN "answer-mismatch"
    ELSE "ok"

\* The batch passes --stop-after-warmup-offline-failure.
Stops(c, r, status) ==
    \/ ~EndpointOk(c, r)
    \/ status \in {"answer-mismatch", "circuit-mismatch"}
    \/ r \notin MeasuredRuns /\ status # "ok"

IsLast(r) == r + 1 \notin Runs

RunRecorded(p) ==
    LET c == proc[p].cell  r == proc[p].run  status == RunStatus(c, r) IN
    /\ proc[p].pc = "record"
    /\ record' = [record EXCEPT ![c][r] = status]
    /\ IF Stops(c, r, status) \/ IsLast(r)
       THEN Goto(p, "finish")
       ELSE proc' = [proc EXCEPT ![p].pc = "open", ![p].run = r + 1]
    /\ UNCHANGED <<driver, resume, dir, endpoint, offline, cell, attempts, batch, stray, faults>>

CellStatus(c) == IF \A r \in Runs : record[c][r] = "ok" THEN "ok" ELSE "incomplete"

CellFinished(p) ==
    LET c == proc[p].cell IN
    /\ proc[p].pc = "finish"
    /\ cell' = [cell EXCEPT ![c] = CellStatus(c)]
    /\ Ends(p)
    /\ UNCHANGED <<driver, resume, dir, endpoint, offline, record, attempts, batch, stray, faults>>

\* _normalized_failure, the cause a report shows for a run that is not ok.
Cause(c, r) ==
    CASE record[c][r] \in {"timeout", "offline-timeout"} -> "TO"
      [] record[c][r] = "offline-crash" -> "CLIENT_CRASH"
      [] record[c][r] = "runner-error"  -> "RUNNER_ERROR"
      [] record[c][r] \in {"answer-mismatch", "circuit-mismatch"} -> "PARITY_ERROR"
      [] record[c][r] = "offline-error" -> "OFFLINE_ERROR"
      [] OTHER -> "ENGINE_ERROR"

\* The failures cell.json lists.
Failures(c) == {Cause(c, r) : r \in {q \in Runs : record[c][q] \notin {"none", "ok"}}}

-----------------------------------------------------------------------------
(* watdiv10m_runner._resume_offline_cell                                    *)

Attempt == [results |-> NoResult, manifest |-> "none"]

\* _effective_offline_result: the original result, or the first attempt's that is
\* usable.
Effective(c, r) == offline[c][r] = "ok" \/ \E k \in DOMAIN attempts[c] : attempts[c][k].results[r] = "ok"

\* _evaluate_resumed_cell.
Verdict(c) ==
    LET Compared(f) == \A r, q \in MeasuredRuns : f[endpoint[c][r]] = f[endpoint[c][q]] IN
    IF \E r \in Runs : ~EndpointOk(c, r) \/ ~Effective(c, r) THEN "incomplete"
    ELSE IF ~Compared(Answers) THEN "answer-mismatch"
    ELSE IF c \in CCells /\ ~Compared([a \in Artifacts |-> a]) THEN "circuit-mismatch"
    ELSE "ok"

Pending(c) == {r \in Runs : EndpointOk(c, r) /\ ~Effective(c, r)}

\* The operator calls it between two passes of the batch.
ResumeStarts(q) ==
    /\ resume[q].pc \in {"off", "done"} /\ driver.pc = "off"
    /\ \E c \in Resumable :
           /\ cell[c] # "none"
           /\ resume' = [resume EXCEPT ![q] =
                  [pc |-> IF Pending(c) = {} THEN "run" ELSE "reserve", cell |-> c,
                   pending |-> Pending(c), attempt |-> 0, verdict |-> "none"]]
    /\ UNCHANGED <<driver, proc, files, faults>>

\* _new_offline_resume_directory: mkdir of the first free number.
Reserves(q, pc) ==
    LET c == resume[q].cell IN
    /\ Len(attempts[c]) < MaxAttempts
    /\ attempts' = [attempts EXCEPT ![c] = Append(@, Attempt)]
    /\ resume' = [resume EXCEPT ![q].pc = pc, ![q].attempt = Len(attempts[c]) + 1]

ResumeReserves(q) ==
    /\ \/ resume[q].pc = "reserve" /\ Reserves(q, "run")
       \/ resume[q].pc = "consolidate" /\ Reserves(q, "publish")
    /\ UNCHANGED <<driver, proc, dir, endpoint, offline, record, cell, batch, stray, faults>>

ResumeRuns(q) ==
    LET c == resume[q].cell IN
    /\ resume[q].pc = "run" /\ resume[q].pending # {}
    /\ \E r \in resume[q].pending :
           /\ \A s \in resume[q].pending : r <= s
           /\ \E result \in {"ok"} \cup OfflineFailures :
                  attempts' = [attempts EXCEPT ![c][resume[q].attempt].results[r] = result]
           /\ resume' = [resume EXCEPT ![q].pending = @ \ {r}]
    /\ UNCHANGED <<driver, proc, dir, endpoint, offline, record, cell, batch, stray, faults>>

Consolidates_Never(c) == FALSE

\* A process may have finished the last offline result and died before resume.json.
Consolidates(c) ==
    /\ Verdict(c) = "ok" /\ cell[c] # "ok"
    /\ \A k \in DOMAIN attempts[c] : attempts[c][k].manifest # "ok"

ResumeEvaluates(q) ==
    LET c == resume[q].cell IN
    /\ resume[q].pc = "run" /\ resume[q].pending = {}
    /\ resume' = [resume EXCEPT
           ![q].verdict = Verdict(c),
           ![q].pc = IF resume[q].attempt # 0 THEN "publish"
                     ELSE IF Consolidates(c) THEN "consolidate" ELSE "done"]
    /\ UNCHANGED <<driver, proc, files, faults>>

ResumePublishes(q) ==
    /\ resume[q].pc = "publish"
    /\ attempts' = [attempts EXCEPT ![resume[q].cell][resume[q].attempt].manifest = resume[q].verdict]
    /\ resume' = [resume EXCEPT ![q].pc = "done"]
    /\ UNCHANGED <<driver, proc, dir, endpoint, offline, record, cell, batch, stray, faults>>

-----------------------------------------------------------------------------
(* Faults and the operator                                                  *)

\* The worker of an execution is started in a session of its own (start_new_session),
\* and nobody ends it when its runner is killed or interrupted.
Dies(p) == IF proc[p].pc \in {"endpoint", "offline"} THEN Goto(p, "left") ELSE Ends(p)

\* A killed driver leaves its runner alive, a killed runner its worker.  The worker of a
\* killed resumption ends in an attempt directory that will never have a result.
Kill ==
    /\ kills < MaxKills /\ kills' = kills + 1
    /\ \/ driver.pc # "off" /\ driver' = Stopped /\ UNCHANGED <<proc, resume>>
       \/ \E p \in Procs : ~RunnerGone(p) /\ Dies(p) /\ UNCHANGED <<driver, resume>>
       \/ \E q \in Resumers : /\ resume[q].pc \notin {"off", "done"}
                              /\ resume' = [resume EXCEPT ![q] = Resting]
                              /\ UNCHANGED <<driver, proc>>
    /\ UNCHANGED <<files, moves, disturbed>>

\* What it writes goes by the path it was given.  Where it was started no runner will
\* come again; after a move the directories are made again (_atomic_bytes), or are those
\* of a new runner if one has begun the cell.
LeftOverWrites(p) ==
    /\ proc[p].pc = "moved"
    /\ dir' = dir \cup {proc[p].cell}
    /\ stray' = stray \cup {<<proc[p].cell, proc[p].run>>}
    /\ UNCHANGED <<driver, proc, resume, endpoint, offline, record, cell, attempts, batch, faults>>

LeftOverEnds(p) ==
    /\ LeftOver(p) /\ Ends(p)
    /\ UNCHANGED <<driver, resume, files, faults>>

\* The operator preserves a partial cell elsewhere once its runner is gone, and need not
\* know of a worker.
MovePartial ==
    /\ moves < MaxMoves /\ moves' = moves + 1
    /\ \E c \in dir :
           /\ cell[c] = "none" /\ \A p \in Procs : RunnerGone(p) \/ proc[p].cell # c
           /\ dir' = dir \ {c}
           /\ stray' = {d \in stray : d[1] # c}
           /\ endpoint' = [endpoint EXCEPT ![c] = NoResult]
           /\ offline' = [offline EXCEPT ![c] = NoResult]
           /\ record' = [record EXCEPT ![c] = NoResult]
           /\ proc' = [p \in Procs |-> IF LeftOver(p) /\ proc[p].cell = c
                                       THEN [proc[p] EXCEPT !.pc = "moved"] ELSE proc[p]]
           /\ disturbed' = (disturbed \ {c}) \cup {d \in {c} : \E p \in Procs : LeftOver(p) /\ proc[p].cell = d}
    /\ UNCHANGED <<driver, resume, cell, attempts, batch, kills>>

DriverStep == DriverReuses \/ DriverRefuses \/ DriverInvokes \/ DriverCollects \/ DriverFinishes
RunnerStep(p) ==
    RunnerBegins(p) \/ RunOpens(p) \/ EndpointRuns(p) \/ OfflineRuns(p) \/ RunRecorded(p) \/ CellFinished(p)
ResumeStep(q) ==
    ResumeReserves(q) \/ ResumeRuns(q) \/ ResumeEvaluates(q) \/ ResumePublishes(q)

Next ==
    \/ DriverStart \/ DriverStep
    \/ \E p \in Procs : RunnerStep(p) \/ LeftOverWrites(p) \/ LeftOverEnds(p)
    \/ \E q \in Resumers : ResumeStarts(q) \/ ResumeStep(q)
    \/ Kill \/ MovePartial

\* Every child has a hard deadline and the driver waits for it, so each started
\* process takes its next step; starting one is the operator's choice.
Spec ==
    /\ Init /\ [][Next]_vars
    /\ WF_vars(DriverStep) /\ \A p \in Procs : WF_vars(RunnerStep(p))

-----------------------------------------------------------------------------

AtWork == {p \in Procs : proc[p].pc \notin {"off", "begin", "moved"}}

\* At most one runner, or the worker one left behind, is at work in the cells, although
\* a killed driver leaves its runner and a killed runner its worker, and the next driver
\* starts over: the partial directory stops it.  Only who moves that directory away under
\* a worker lets others begin beside it, one worker for each directory moved.
OneCellAtATime ==
    /\ Cardinality(AtWork) <= 1
    /\ Cardinality({p \in Procs : proc[p].pc = "moved"}) <= moves

\* An ok cell.json means that every configured run finished and that the measured
\* runs agree, in their answers and, for C, in their circuits; any other one names what
\* went wrong.  Nothing is said of a cell begun beside a worker of its moved directory.
CellVerdictIsTrue ==
    \A c \in Cells \ disturbed :
        /\ cell[c] = "ok" =>
               /\ \A r \in Runs : EndpointOk(c, r) /\ offline[c][r] = "ok"
               /\ \A r, q \in MeasuredRuns :
                      /\ Answers[endpoint[c][r]] = Answers[endpoint[c][q]]
                      /\ c \in CCells => endpoint[c][r] = endpoint[c][q]
        /\ cell[c] = "incomplete" => Failures(c) # {}

\* A resume.json that says ok tells the truth about the whole cell, at the time and
\* ever after, although other resumptions write their results meanwhile; and a
\* resumption that ends with the verdict ok leaves such a manifest (or the cell was
\* ok), also after an earlier one died between its last result and its manifest.  As for
\* the verdict, disturbed cells are left out.
OkResumeIsTrue ==
    /\ \A c \in Cells \ disturbed : \A k \in DOMAIN attempts[c] : attempts[c][k].manifest = "ok" =>
           /\ \A r \in Runs : EndpointOk(c, r) /\ Effective(c, r)
           /\ \A r, q \in MeasuredRuns :
                  /\ Answers[endpoint[c][r]] = Answers[endpoint[c][q]]
                  /\ c \in CCells => endpoint[c][r] = endpoint[c][q]
    /\ \A q \in Resumers : resume[q].pc = "done" /\ resume[q].verdict = "ok" =>
           \/ cell[resume[q].cell] = "ok"
           \/ \E k \in DOMAIN attempts[resume[q].cell] :
                 attempts[resume[q].cell][k].manifest = "ok"

\* A driver that has seen a cell require recovery runs no other cell.
RecoveryStopsTheDriver ==
    driver.pc = "wait" => \A c \in driver.invoked \ {Current} : ~Recovery(c)

\* A started driver ends: it finishes the batch or gives up.
DriverEnds == (driver.pc # "off") ~> (driver.pc = "off")

=============================================================================
