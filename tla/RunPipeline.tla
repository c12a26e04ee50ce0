----------------------------- MODULE RunPipeline -----------------------------
(***************************************************************************)
(* One run of watdiv10m_runner: the endpoint worker and its engine process,   *)
(* the response as it streams in, the offline worker with its stage journal,  *)
(* and what the runner records of both.  Module CellRunner composes runs into *)
(* cells; module EndpointRuns models what CircuitRun does to the store.       *)
(*                                                                           *)
(* Data abstraction: a row is a record with its answer key, its provenance    *)
(* and whether its text is delimited; a line on the wire is two halves and a  *)
(* newline (the last line may lack it), so that a chunk can end inside a line.  Line 0 is the header.     *)
(***************************************************************************)
EXTENDS Integers, Sequences, FiniteSets, FiniteSetsExt

CONSTANTS
    Configs,        \* records [method, stream]
    Responses,      \* what the endpoint may answer: sequences of rows
    Transports,     \* "chunked": a lost connection is an error; "length": it reads as the end
    ExactRowLimit   \* exact_response_row_limit

ASSUME PipelineAssumption ==
    /\ Configs \subseteq [method : {"B", "R", "N", "C-flat", "C-factorised", "C-path"}, stream : BOOLEAN]
    /\ \A r \in Responses : r \in Seq({r[i] : i \in DOMAIN r})
    /\ ExactRowLimit \in Nat

VARIABLES
    config, rows, transport,
    terminated, \* the endpoint ends its last line with a newline
    runner,     \* endpoint, offline, answers or recorded
    expired,    \* the deadline of the phase has passed
    worker,     \* where the endpoint worker is; ended or killed
    engine,     \* its Java process: none, running, stopping, ended
    dirty,      \* CircuitRun has private rows in the store
    report,     \* what CircuitRun wrote to stderr, and its exit
    sent,       \* bytes of the response read so far
    pending,    \* of TsvLineStream: the bytes of an unfinished line
    taken,      \* the rows the collector has parsed, header excluded
    lines,      \* solution_rows, with the header counted; 0 before the header
    files,      \* complete artifacts, by name
    status,     \* the worker's verdict on itself
    result,     \* the endpoint result the runner keeps
    offline,    \* the offline worker: [state, stage, at]
    journal,    \* offline-stage-events.jsonl
    verdict     \* the offline result: [status, substage]

case == <<config, rows, transport, terminated>>
wire == <<sent, pending, taken, lines>>
process == <<worker, engine, dirty, report>>
aftermath == <<offline, journal, verdict>>
vars == <<case, runner, expired, process, wire, files, status, result, aftermath>>

IsCircuit == config.method \in {"C-flat", "C-factorised", "C-path"}
CountsRows == config.method \in {"B", "R"}
NoReport == [exit |-> 0, marked |-> TRUE, mode |-> "honoured", events |-> TRUE, cleanup |-> TRUE]

Init ==
    /\ config \in Configs /\ transport \in Transports /\ terminated \in BOOLEAN
    /\ rows \in IF IsCircuit THEN {<< >>} ELSE Responses
    /\ runner = "endpoint" /\ expired = FALSE
    /\ worker = "start" /\ engine = "none" /\ dirty = FALSE /\ report = NoReport
    /\ sent = 0 /\ pending = << >> /\ taken = << >> /\ lines = 0
    /\ files = << >> /\ status = "none"
    /\ result = [status |-> "none", recovery |-> FALSE]
    /\ offline = [state |-> "none", stage |-> 1, at |-> "start"]
    /\ journal = << >> /\ verdict = [status |-> "none", substage |-> "none"]

Has(name) == name \in DOMAIN files
WithFile(name, content) ==
    files' = [f \in {name} \cup DOMAIN files |-> IF f = name THEN content ELSE files[f]]
Multiset(s) == [x \in {s[i] : i \in DOMAIN s} |-> Cardinality({i \in DOMAIN s : s[i] = x})]

-----------------------------------------------------------------------------
(* The endpoint worker                                                       *)

\* StageError: the worker will record this status.
Raise(failure) == status' = failure /\ worker' = "result"

ReadQuery ==
    /\ worker = "start"
    /\ \/ config.method = "B" /\ worker' = "request" /\ UNCHANGED <<engine, status>>
       \/ /\ config.method = "R" /\ UNCHANGED engine
          /\ \/ worker' = "request" /\ UNCHANGED status
             \/ Raise("rewrite-error")
       \/ /\ config.method \notin {"B", "R"}
          /\ engine' = "running" /\ worker' = "wait" /\ UNCHANGED status
    /\ UNCHANGED <<case, runner, expired, dirty, report, wire, files, result, aftermath>>

\* CircuitRun registers and writes relations; a flat circuit needs none.  A process that
\* was told to stop, or that lost its parent, may still do so.
EngineWrites ==
    /\ engine \in {"running", "stopping"} /\ config.method \in {"C-factorised", "C-path"}
    /\ dirty' = TRUE
    /\ UNCHANGED <<case, runner, expired, worker, engine, report, wire, files, status, result, aftermath>>

\* The end of the Java process.  CIRCUIT_CLEANUP reports success only for a clean store.
EngineEnds ==
    /\ engine \in {"running", "stopping"}
    /\ engine' = "ended"
    /\ report' \in [exit : {0, 1}, marked : BOOLEAN, mode : {"honoured", "fallback", "other"},
                    events : BOOLEAN, cleanup : BOOLEAN]
    /\ report'.exit = 1 \/ ~IsCircuit => report' = [NoReport EXCEPT !.exit = report'.exit]
    /\ dirty' \in IF IsCircuit /\ report'.exit = 0 /\ report'.cleanup THEN {FALSE} ELSE {FALSE, dirty}
    /\ UNCHANGED <<case, runner, expired, worker, wire, files, status, result, aftermath>>

\* _run_java_rewrite: an exit code, or an empty query.
RewriterCollected ==
    /\ worker = "wait" /\ engine = "ended" /\ config.method = "N"
    /\ \/ report.exit = 0 /\ worker' = "request" /\ UNCHANGED status
       \/ Raise("rewrite-error")
    /\ UNCHANGED <<case, runner, expired, engine, dirty, report, wire, files, result, aftermath>>

\* _parse_c_stage_records: every cleanup must have succeeded.
CleanupStatus(r) == IF r.cleanup THEN "ok" ELSE "c-cleanup-error"

\* _parse_c_stderr, in the order of its checks.  C-factorised may fall back to flat.
ProtocolStatus(r) ==
    IF ~r.marked THEN "c-protocol-error"
    ELSE IF config.method # "C-path" /\ r.mode = "other" THEN "c-mode-error"
    ELSE IF config.method = "C-flat" /\ r.mode = "fallback" THEN "c-mode-error"
    ELSE IF ~r.events THEN "c-protocol-error"
    ELSE CleanupStatus(r)

\* _run_c: the circuit gets its name before its protocol is judged.
CircuitCollected ==
    /\ worker = "wait" /\ engine = "ended" /\ IsCircuit
    /\ IF report.exit # 0
       THEN Raise("c-execution-error") /\ UNCHANGED files
       ELSE /\ WithFile("circuit.nt", "circuit")
            /\ IF ProtocolStatus(report) # "ok" THEN Raise(ProtocolStatus(report))
               ELSE worker' = "check" /\ UNCHANGED status
    /\ UNCHANGED <<case, runner, expired, engine, dirty, report, wire, result, aftermath>>

\* The worker's own deadline: terminate, wait a second, kill, wait.
EngineStopped ==
    /\ worker = "wait" /\ engine = "running" /\ expired
    /\ engine' = "stopping" /\ worker' = "reap"
    /\ UNCHANGED <<case, runner, expired, dirty, report, wire, files, status, result, aftermath>>

EngineReaped ==
    /\ worker = "reap" /\ engine' = "ended" /\ Raise("timeout")
    /\ UNCHANGED <<case, runner, expired, dirty, report, wire, files, result, aftermath>>

Connect ==
    /\ worker = "request"
    /\ \/ ~expired /\ worker' = "drain" /\ UNCHANGED status
       \/ ~expired /\ \E failure \in {"http-error", "network-error"} : Raise(failure)
       \/ expired /\ Raise("timeout")
    /\ UNCHANGED <<case, runner, expired, engine, dirty, report, wire, files, result, aftermath>>

-----------------------------------------------------------------------------
(* The response: TsvLineStream, _StreamingTsvCollector                       *)

\* The bytes: two halves and a newline per line.
Body == [i \in 1 .. 3 * (Len(rows) + 1) - (IF terminated THEN 0 ELSE 1) |-> <<(i - 1) \div 3, (i - 1) % 3>>]
Newline(byte) == byte[2] = 2

\* What a line says.  Half a delimited term does not parse; half a bare one is another
\* term.
Header(line) == line[1][1] = 0
RowOf(line) == rows[line[1][1]]
Parses(line) == Header(line) \/ Len(line) = 2 \/ RowOf(line).bare
Text(line) == IF Len(line) = 2 THEN RowOf(line) ELSE [RowOf(line) EXCEPT !.key = "cut"]

\* The collector parses a row of B and R only up to the limit, and forgets all rows
\* beyond it.
Exact(n) == n - 1 <= ExactRowLimit

\* One line.  Nothing is read after a malformed one.
Consumed(state, line) ==
    IF state.malformed THEN state
    ELSE IF CountsRows /\ ~Exact(state.lines + 1) THEN [state EXCEPT !.taken = << >>, !.lines = @ + 1]
    ELSE IF ~Parses(line) THEN [state EXCEPT !.malformed = TRUE]
    ELSE IF Header(line) THEN [state EXCEPT !.lines = 1]
    ELSE [state EXCEPT !.taken = Append(@, Text(line)), !.lines = @ + 1]

\* The complete lines of a byte sequence, in order, and the bytes after the last newline.
Ends(bytes) == {i \in DOMAIN bytes : Newline(bytes[i])}
LineStart(bytes, i) == 1 + Max({0} \cup {j \in Ends(bytes) : j < i})
Rest(bytes) == SubSeq(bytes, 1 + Max({0} \cup Ends(bytes)), Len(bytes))

Fed(bytes, state) ==
    LET fed[i \in 0 .. Len(bytes)] ==
            IF i = 0 THEN state
            ELSE LET before == fed[i - 1] IN
                 IF Newline(bytes[i]) THEN Consumed(before, SubSeq(bytes, LineStart(bytes, i), i - 1))
                 ELSE before
    IN  fed[Len(bytes)]

Collected == [taken |-> taken, lines |-> lines, malformed |-> FALSE]

\* One read of the response, which may end anywhere.
Chunk ==
    /\ worker = "drain" /\ config.stream
    /\ \E n \in 1 .. Len(Body) - sent :
           LET bytes == pending \o SubSeq(Body, sent + 1, sent + n)
               after == Fed(bytes, Collected)
           IN  /\ sent' = sent + n
               /\ pending' = Rest(bytes)
               /\ IF after.malformed
                  THEN Raise("invalid-response") /\ UNCHANGED <<taken, lines>>
                  ELSE /\ taken' = after.taken /\ lines' = after.lines
                       /\ IF expired THEN Raise("timeout") ELSE UNCHANGED <<worker, status>>
    /\ UNCHANGED <<case, runner, expired, engine, dirty, report, files, result, aftermath>>

\* The legacy mode copies the bytes to a file.
ChunkOfJson ==
    /\ worker = "drain" /\ ~config.stream
    /\ \E n \in 1 .. Len(Body) - sent :
           /\ sent' = sent + n
           /\ IF expired THEN Raise("timeout") ELSE UNCHANGED <<worker, status>>
    /\ UNCHANGED <<case, runner, expired, engine, dirty, report, pending, taken, lines, files, result, aftermath>>

\* The server closes early, or does not answer in time.
ConnectionLost ==
    /\ worker = "drain" /\ sent < Len(Body)
    /\ \/ transport = "chunked" /\ Raise("runner-error")
       \/ transport = "length" /\ worker' = "finish" /\ UNCHANGED status
       \/ expired /\ Raise("timeout")
    /\ UNCHANGED <<case, runner, expired, engine, dirty, report, wire, files, result, aftermath>>

Drained ==
    /\ worker = "drain" /\ sent = Len(Body) /\ worker' = "finish"
    /\ UNCHANGED <<case, runner, expired, engine, dirty, report, wire, files, status, result, aftermath>>

FinishJson ==
    /\ worker = "finish" /\ ~config.stream
    /\ WithFile("raw-response.json", sent) /\ worker' = "check"
    /\ UNCHANGED <<case, runner, expired, engine, dirty, report, wire, status, result, aftermath>>

FinalLine_Dropped == Collected

\* TsvLineStream.finish: what follows the last newline is a line too.
FinalLine == IF pending = << >> THEN Collected ELSE Consumed(Collected, pending)

Evidence == IF ~CountsRows THEN "provenance" ELSE IF Exact(lines) THEN "exact" ELSE "cardinality"

\* finish: the rows first, evidence.json last.
Finish ==
    /\ worker = "finish" /\ config.stream
    /\ pending' = << >>
    /\ IF FinalLine.malformed \/ FinalLine.lines = 0
       THEN Raise("invalid-response") /\ UNCHANGED <<taken, lines>>
       ELSE /\ taken' = FinalLine.taken /\ lines' = FinalLine.lines
            /\ worker' = "rows" /\ UNCHANGED status
    /\ UNCHANGED <<case, runner, expired, engine, dirty, report, sent, files, result, aftermath>>

PersistRows ==
    /\ worker = "rows"
    /\ CASE Evidence = "provenance" -> WithFile("response/npcs-provenance.jsonl", taken)
         [] Evidence = "exact" -> WithFile("response/answer-records.jsonl", Multiset(taken))
         [] OTHER -> UNCHANGED files
    /\ worker' = "evidence"
    /\ UNCHANGED <<case, runner, expired, engine, dirty, report, wire, status, result, aftermath>>

PersistEvidence ==
    /\ worker = "evidence"
    /\ WithFile("response/evidence.json", [mode |-> Evidence, rows |-> lines - 1])
    /\ worker' = "check"
    /\ UNCHANGED <<case, runner, expired, engine, dirty, report, wire, status, result, aftermath>>

\* _endpoint_run looks at the deadline once more.
Check ==
    /\ worker = "check" /\ Raise(IF expired THEN "timeout" ELSE "ok")
    /\ UNCHANGED <<case, runner, expired, engine, dirty, report, wire, files, result, aftermath>>

WriteResult ==
    /\ worker = "result"
    /\ WithFile("endpoint-result.json", status) /\ worker' = "ended"
    /\ UNCHANGED <<case, runner, expired, engine, dirty, report, wire, status, result, aftermath>>

\* The worker is killed from outside; nobody tells its Java process.
WorkerCrash ==
    /\ worker \notin {"ended", "killed"} /\ worker' = "killed"
    /\ UNCHANGED <<case, runner, expired, engine, dirty, report, wire, files, status, result, aftermath>>

-----------------------------------------------------------------------------
(* The runner                                                                *)

Expire ==
    /\ runner \in {"endpoint", "offline"} /\ ~expired /\ expired' = TRUE
    /\ UNCHANGED <<case, runner, process, wire, files, status, result, aftermath>>

NeedsRecovery_OnTimeout(s) == s = "timeout" /\ IsCircuit

\* _run_endpoint_worker: a circuit run that is not ok may have left rows.
NeedsRecovery(s) == s # "ok" /\ IsCircuit

Recorded(s) ==
    /\ result' = [status |-> s, recovery |-> NeedsRecovery(s)]
    /\ runner' = IF s = "ok" THEN "offline" ELSE "recorded"
    /\ expired' = FALSE
    /\ offline' = [offline EXCEPT !.state = IF s = "ok" THEN "running" ELSE "none"]

OuterTimeout_OnlyOfALateAnswer ==
    /\ runner = "endpoint" /\ expired /\ worker = "ended" /\ Recorded("timeout")
    /\ UNCHANGED <<case, process, wire, files, status, journal, verdict>>

\* The outer deadline: SIGTERM for the whole group.  The worker dies of it, and the
\* runner waits for no one else.
OuterTimeout ==
    /\ runner = "endpoint" /\ expired
    /\ worker' = IF worker = "ended" THEN worker ELSE "killed"
    /\ engine' = IF engine = "running" THEN "stopping" ELSE engine
    /\ Recorded("timeout")
    /\ UNCHANGED <<case, dirty, report, wire, files, status, journal, verdict>>

WorkerJudged ==
    /\ runner = "endpoint" /\ worker \in {"ended", "killed"}
    /\ Recorded(IF Has("endpoint-result.json") THEN files["endpoint-result.json"] ELSE "runner-error")
    /\ UNCHANGED <<case, process, wire, files, status, journal, verdict>>

-----------------------------------------------------------------------------
(* The offline worker                                                        *)

\* Its stages, with the artifact that each leaves.
Stages ==
    CASE IsCircuit -> <<"circuit_decode", "answer_index", "answer_record_persist",
                        "reachable_circuit_stats", "probability_load", "pqe_compile", "pqe_wmc",
                        "pqe_artifact_persist", "metrics">>
      [] config.method = "N" -> <<"extract", "raw_provenance", "dag_artifact_persist", "metrics">>
      [] OTHER -> <<"answers", "metrics">>

StageName == Stages[offline.stage]
\* Only the stages of a circuit keep a journal, and the last write is no stage of theirs.
Journaled == IsCircuit /\ StageName # "metrics"

Event(kind) == [event |-> kind, stage |-> StageName]

Derivations(s) == [k \in {s[i].key : i \in DOMAIN s} |-> {s[i].why : i \in {j \in DOMAIN s : s[j].key = k}}]

\* extract_provenance_jsonl counts the rows again.
RowsAgree == Len(files["response/npcs-provenance.jsonl"]) = files["response/evidence.json"].rows

\* An incomplete JSON document does not parse.
JsonParses == files["raw-response.json"] = Len(Body)

Readable ==
    /\ ~IsCircuit /\ ~config.stream => JsonParses
    /\ config.method = "N" /\ config.stream => RowsAgree
    /\ CountsRows /\ config.stream => Has("response/evidence.json")

\* The rows the offline worker has: those of the stream, or of the parsed document.
OfflineRows == IF config.stream THEN files["response/npcs-provenance.jsonl"] ELSE rows

StageEffect ==
    CASE StageName = "answer_record_persist" -> WithFile("offline/answer-records.jsonl", files["circuit.nt"])
      [] StageName = "pqe_artifact_persist" -> WithFile("offline/probabilities.jsonl", files["circuit.nt"])
      [] StageName = "raw_provenance" -> WithFile("pp/npcs-provenance.jsonl", OfflineRows)
      [] StageName = "dag_artifact_persist" -> WithFile("pp/npcs-hc-dag.json", Derivations(OfflineRows))
      [] StageName = "answers" ->
             IF ~config.stream THEN WithFile("offline/answer-records.jsonl", Multiset(rows))
             ELSE IF files["response/evidence.json"].mode = "exact"
                  THEN WithFile("offline/answer-records.jsonl", files["response/answer-records.jsonl"])
                  ELSE WithFile("offline/answer-summary.json", files["response/evidence.json"].rows)
      [] StageName = "metrics" -> WithFile("offline/metrics.json", "ok")
      [] OTHER -> UNCHANGED files

StageStart ==
    /\ offline.state = "running" /\ offline.at = "start"
    /\ journal' = IF Journaled THEN Append(journal, Event("start")) ELSE journal
    /\ offline' = [offline EXCEPT !.at = "work"]
    /\ UNCHANGED <<case, runner, expired, process, wire, files, status, result, verdict>>

StageWork ==
    /\ offline.state = "running" /\ offline.at = "work"
    /\ IF Readable
       THEN StageEffect /\ offline' = [offline EXCEPT !.at = "complete"]
       ELSE UNCHANGED files /\ offline' = [offline EXCEPT !.state = "failed"]
    /\ UNCHANGED <<case, runner, expired, process, wire, status, result, journal, verdict>>

StageComplete ==
    /\ offline.state = "running" /\ offline.at = "complete"
    /\ journal' = IF Journaled THEN Append(journal, Event("complete")) ELSE journal
    /\ offline' = IF offline.stage = Len(Stages) THEN [offline EXCEPT !.state = "done"]
                  ELSE [offline EXCEPT !.stage = @ + 1, !.at = "start"]
    /\ UNCHANGED <<case, runner, expired, process, wire, files, status, result, verdict>>

\* An exception, a signal, or the runner's deadline ends it anywhere; a line of the
\* journal that was being written may be torn.
Torn == [event |-> "torn", stage |-> "none"]

OfflineEnds(state) ==
    /\ offline.state = "running"
    /\ offline' = [offline EXCEPT !.state = state]
    /\ journal' \in {journal} \cup IF Journaled /\ offline.at # "work" THEN {Append(journal, Torn)} ELSE {}
    /\ UNCHANGED <<case, runner, expired, process, wire, files, status, result, verdict>>

OfflineFails == offline.at = "work" /\ OfflineEnds("failed")
OfflineCrash == OfflineEnds("crashed")
OfflineTimeout == runner = "offline" /\ expired /\ OfflineEnds("timeout")

ActiveStage_NeverCleared(j) ==
    LET started == {i \in DOMAIN j : j[i].event = "start"}
    IN  IF started = {} THEN "none" ELSE j[Max(started)].stage

\* _offline_stage_state: the last stage started and not completed since.
ActiveStage(j) ==
    LET started == {i \in DOMAIN j : j[i].event = "start"}
        last == Max(started)
    IN  IF started = {} \/ \E i \in last .. Len(j) : j[i] = [event |-> "complete", stage |-> j[last].stage]
        THEN "none" ELSE j[last].stage

\* _run_offline.
OfflineStatus ==
    IF offline.state = "timeout" THEN "offline-timeout"
    ELSE IF offline.state = "crashed" THEN "offline-crash"
    ELSE IF offline.state = "failed" \/ ~Has("offline/metrics.json") THEN "offline-error"
    ELSE "ok"

OfflineJudged ==
    /\ runner = "offline" /\ offline.state \in {"timeout", "crashed", "failed", "done"}
    /\ verdict' = [status |-> OfflineStatus,
                   substage |-> IF OfflineStatus = "ok" THEN "none" ELSE ActiveStage(journal)]
    /\ runner' = IF OfflineStatus = "ok" /\ config.method = "N" THEN "answers" ELSE "recorded"
    /\ UNCHANGED <<case, expired, process, wire, files, status, result, offline, journal>>

Keys(s) == {s[i].key : i \in DOMAIN s}

\* _persist_npcs_answer_records, in the runner.
PersistNpcsAnswers ==
    /\ runner = "answers" /\ runner' = "recorded"
    /\ \/ WithFile("pp/answer-records.jsonl", Keys(files["pp/npcs-provenance.jsonl"])) /\ UNCHANGED verdict
       \/ verdict' = [verdict EXCEPT !.status = "offline-error"] /\ UNCHANGED files
    /\ UNCHANGED <<case, expired, process, wire, status, result, offline, journal>>

Idle == runner = "recorded" /\ engine \notin {"running", "stopping"} /\ UNCHANGED vars

WorkerStep ==
    \/ ReadQuery \/ RewriterCollected \/ CircuitCollected \/ EngineStopped \/ EngineReaped
    \/ Connect \/ Chunk \/ ChunkOfJson \/ ConnectionLost \/ Drained \/ FinishJson \/ Finish
    \/ PersistRows \/ PersistEvidence \/ Check \/ WriteResult \/ WorkerCrash

OfflineStep ==
    StageStart \/ StageWork \/ StageComplete \/ OfflineFails \/ OfflineCrash \/ OfflineTimeout

RunnerStep == OuterTimeout \/ WorkerJudged \/ OfflineJudged \/ PersistNpcsAnswers

Next == WorkerStep \/ EngineWrites \/ EngineEnds \/ Expire \/ RunnerStep \/ OfflineStep \/ Idle

\* The clock advances and the runner is scheduled; the endpoint, the worker and the engine
\* may hang, an offline worker that hangs is killed at its deadline.
Spec == Init /\ [][Next]_vars /\ WF_vars(Expire) /\ WF_vars(RunnerStep) /\ WF_vars(OfflineTimeout)

-----------------------------------------------------------------------------

\* The answers of the run as the cell will read them (_answer_records_path).
Answers ==
    IF IsCircuit THEN files["offline/answer-records.jsonl"]
    ELSE IF config.method = "N" THEN files["pp/answer-records.jsonl"]
    ELSE IF Has("offline/answer-records.jsonl") THEN files["offline/answer-records.jsonl"]
    ELSE files["offline/answer-summary.json"]

TrueAnswers ==
    CASE IsCircuit -> "circuit"
      [] config.method = "N" -> Keys(rows)
      [] CountsRows -> IF config.stream /\ Len(rows) > ExactRowLimit THEN Len(rows) ELSE Multiset(rows)

CompleteAnswers ==
    runner = "recorded" /\ verdict.status = "ok" =>
        /\ Answers = TrueAnswers
        /\ config.method = "N" => files["pp/npcs-hc-dag.json"] = Derivations(rows)

\* A run recorded as ok has all rows of the endpoint's response and no other, whatever the
\* chunks were, or their exact number beyond the limit, and NPCS every derivation of every
\* answer; unless the connection was lost under a Content-Length while rows were streamed.
OkRunIsComplete == (transport = "length" /\ config.stream) \/ CompleteAnswers

\* What the journal says of a worker that was killed is where it was: a stage that was at
\* work is named, and no other stage ever is.
StageStateIsTrue ==
    verdict.status \in {"offline-timeout", "offline-crash", "offline-error"} =>
        /\ verdict.substage # "none" => verdict.substage = StageName
        /\ Journaled /\ offline.at = "work" /\ offline.state # "done" => verdict.substage = StageName

\* Once the run is recorded, a CircuitRun that may still write, and rows that it left, are
\* covered by recovery_required, which stops the cell and the batch.
LeftoverNeedsRecovery ==
    result.status # "none" /\ IsCircuit /\ (dirty \/ engine \in {"running", "stopping"}) => result.recovery

\* A run is recorded although the endpoint, the engine or a worker hangs.
RunIsRecorded == <>(runner = "recorded")
=============================================================================
