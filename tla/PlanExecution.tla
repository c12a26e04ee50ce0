---------------------------- MODULE PlanExecution ----------------------------
(***************************************************************************)
(* CircuitRun.executeConstructionPlan: one run of a construction plan       *)
(* against a remote SPARQL endpoint.                                        *)
(*                                                                          *)
(* A plan is a list of CONSTRUCT steps.  A step reads private message       *)
(* relations from the endpoint, emits circuit gates (kept client-side) and  *)
(* may emit rows of message relations, which are written back to the        *)
(* endpoint for later steps.  scheduleLevels groups steps into levels; the  *)
(* steps of one level run on a thread pool, each on its own connection; a   *)
(* closure atom (path step) runs several rounds, alone, on the caller's     *)
(* connection.  Whatever happens, the private workspace is removed last.    *)
(*                                                                          *)
(* Data abstraction: a row <<r, x>> is one FEEDBACK_BATCH chunk of the rows *)
(* of relation r; chunk x of an output is derived from chunk x of every     *)
(* relation the step reads, so an input chunk that was not visible when the *)
(* query ran is missing from the output.  A gate <<j, k, x>> is what round  *)
(* k of step j emits for chunk x.                                           *)
(***************************************************************************)
EXTENDS Integers, Sequences, FiniteSets

CONSTANTS
    Relations,      \* names of the private message relations (urn:sc:msg:...)
    Chunks,         \* the chunks each relation is written in
    Plans,          \* the construction plans that may be executed
    Parallelism,    \* CIRCUIT_PARALLEL: the most steps in flight at once
    MayFail,        \* a remote query or update may fail
    LateCommit,     \* a failed update may still be applied later by the server
    MayInterrupt    \* the calling thread may be interrupted while it awaits

Round == [reads : SUBSET Relations, writes : SUBSET Relations]

\* CircuitConstructionPlan.Step; a plain step has one round, a path step one
\* per CONSTRUCT of its fixpoint.
Step == [declared : BOOLEAN, feedback : BOOLEAN, path : BOOLEAN, rounds : Seq(Round)]

ReadsOf(s)  == UNION {s.rounds[k].reads  : k \in DOMAIN s.rounds}
WritesOf(s) == UNION {s.rounds[k].writes : k \in DOMAIN s.rounds}

\* What the scheduler sees: Step.reads() and Step.writes() are empty for a step
\* built without dependencies.
DeclaredReads(s)  == IF s.declared THEN ReadsOf(s)  ELSE {}
DeclaredWrites(s) == IF s.declared THEN WritesOf(s) ELSE {}

\* What the rewriters guarantee of every plan they emit: only path steps leave
\* their dependencies undeclared, a plain step is one CONSTRUCT, and whatever a
\* round reads was published by an earlier round or an earlier step.
WellFormed(p) ==
    \A j \in DOMAIN p :
        /\ p[j].rounds # << >>
        /\ ~p[j].declared => p[j].path
        /\ p[j].path => p[j].feedback /\ ~p[j].declared
        /\ ~p[j].path => Len(p[j].rounds) = 1
        /\ \A k \in DOMAIN p[j].rounds : \A r \in p[j].rounds[k].reads :
              \/ \E h \in 1..(k-1) : r \in p[j].rounds[h].writes
              \/ \E i \in 1..(j-1) : r \in WritesOf(p[i])

ASSUME PlansAssumption == /\ Plans \subseteq Seq(Step)
                          /\ \A p \in Plans : WellFormed(p)

ASSUME ParallelismAssumption == Parallelism \in Nat \ {0}

ASSUME FaultsAssumption == {MayFail, LateCommit, MayInterrupt} \subseteq BOOLEAN

VARIABLES
    plan,              \* the plan being executed
    main,              \* where executeConstructionPlan is
    scheduled,         \* scheduleLevels: the steps that have a level
    level,             \* scheduleLevels: level[j]
    afterLastBarrier,  \* scheduleLevels: first level after the last barrier
    current,           \* the level being executed
    pc,                \* where each step's task is
    round,             \* the round each step is in
    seen,              \* rows a running query found when it started
    todo,              \* rows a step has registered and not yet written
    gates,             \* gates a finished plain step holds for the merge
    store,             \* this run's private rows on the endpoint
    late,              \* rows of failed updates the server may still apply
    workspace,         \* rows registered for removal
    circuit,           \* the circuit accumulated client-side
    aborted,           \* the run is failing with an exception
    removing,          \* rows the final cleanup has still to remove
    cleanupOk          \* the final cleanup has met no failure

scheduleVars == <<scheduled, level, afterLastBarrier>>
taskVars     == <<pc, round, seen, todo, gates>>
cleanupVars  == <<removing, cleanupOk>>
vars == <<plan, main, scheduleVars, current, taskVars, store, late, workspace,
          circuit, aborted, cleanupVars>>

Steps    == DOMAIN plan
Rows     == Relations \X Chunks
RowsOf(R) == R \X Chunks
Gates    == Nat \X Nat \X Chunks

RoundOf(j)  == plan[j].rounds[round[j]]
Group(l)    == {j \in Steps : level[j] = l}
Running     == {j \in Steps : pc[j] \in {"querying", "writing"}}
Settled(j)  == pc[j] \in {"done", "failed"}

\* The rows and the gates one CONSTRUCT emits when it matched the rows S.
Derived(j, k, S) == {x \in Chunks : \A r \in plan[j].rounds[k].reads : <<r, x>> \in S}
Messages(j, S)   == RoundOf(j).writes \X Derived(j, round[j], S)
Emitted(j, S)    == {<<j, round[j], x>> : x \in Derived(j, round[j], S)}

-----------------------------------------------------------------------------
(* scheduleLevels                                                           *)

MustFollow_NoReadWrite(j, i) ==
    \/ ~plan[j].declared
    \/ DeclaredWrites(plan[j]) \cap DeclaredWrites(plan[i]) # {}

\* Step j must be one level past the earlier step i.
MustFollow(j, i) ==
    \/ ~plan[j].declared
    \/ DeclaredReads(plan[j]) \cap DeclaredWrites(plan[i]) # {}
    \/ DeclaredWrites(plan[j]) \cap DeclaredWrites(plan[i]) # {}

\* The loop's "earliest": the least level past the last barrier and past every
\* step that j must follow.  With one worker the schedule is plan order.
IsLevelOf(j, e) ==
    IF Parallelism = 1 THEN e = j - 1
    ELSE /\ afterLastBarrier <= e
         /\ \A i \in 1..(j-1) : MustFollow(j, i) => level[i] < e
         /\ \/ e = afterLastBarrier
            \/ \E i \in 1..(j-1) : MustFollow(j, i) /\ e = level[i] + 1

BarrierAfter(j, e) == IF plan[j].declared THEN afterLastBarrier ELSE e + 1

ScheduleStep ==
    /\ main = "schedule"
    /\ scheduled < Len(plan)
    /\ \E e \in 0..Len(plan) :
          /\ IsLevelOf(scheduled + 1, e)
          /\ level' = [level EXCEPT ![scheduled + 1] = e]
          /\ afterLastBarrier' = BarrierAfter(scheduled + 1, e)
    /\ scheduled' = scheduled + 1
    /\ UNCHANGED <<plan, main, current, taskVars, store, late, workspace,
                   circuit, aborted, cleanupVars>>

BeginLevels ==
    /\ main = "schedule"
    /\ scheduled = Len(plan)
    /\ main' = "level"
    /\ UNCHANGED <<plan, scheduleVars, current, taskVars, store, late, workspace,
                   circuit, aborted, cleanupVars>>

-----------------------------------------------------------------------------
(* The level loop of executeConstructionPlan and runLevelConcurrently        *)

BeginCleanup_Swallowed(failed) ==
    main' = "cleanup" /\ aborted' = FALSE /\ removing' = workspace

\* The finally block starts: removeBatched copies the workspace it will remove.
BeginCleanup_Forgotten(failed) == main' = "cleanup" /\ aborted' = failed /\ removing' = {}

BeginCleanup(failed) ==
    /\ main' = "cleanup"
    /\ aborted' = failed
    /\ removing' = workspace

SubmitLevel ==
    /\ main = "level"
    /\ Group(current) # {}
    /\ pc' = [j \in Steps |-> IF j \in Group(current) THEN "queued" ELSE pc[j]]
    /\ main' = "await"
    /\ UNCHANGED <<plan, scheduleVars, current, round, seen, todo, gates, store, late,
                   workspace, circuit, aborted, cleanupVars>>

\* Every level has run.  (A level is never empty before that: were one, TLC
\* would report a deadlock here.)
LevelsDone ==
    /\ main = "level"
    /\ \A j \in Steps : level[j] < current
    /\ BeginCleanup(FALSE)
    /\ UNCHANGED <<plan, scheduleVars, current, taskVars, store, late, workspace,
                   circuit, cleanupOk>>

\* Every future has been awaited and none failed: merge in plan order.
AwaitLevel ==
    /\ main = "await"
    /\ \A j \in Group(current) : pc[j] = "done"
    /\ circuit' = circuit \cup UNION {gates[j] : j \in Group(current)}
    /\ current' = current + 1
    /\ main' = "level"
    /\ UNCHANGED <<plan, scheduleVars, taskVars, store, late, workspace, aborted,
                   cleanupVars>>

LevelSettled_FirstFailure == \E j \in Group(current) : pc[j] = "failed"

LevelSettled == /\ \A j \in Group(current) : Settled(j)
                /\ \E j \in Group(current) : pc[j] = "failed"

\* Some task failed.  The others were awaited too; nothing of the level is merged.
LevelFails ==
    /\ main = "await"
    /\ LevelSettled
    /\ BeginCleanup(TRUE)
    /\ UNCHANGED <<plan, scheduleVars, current, taskVars, store, late, workspace,
                   circuit, cleanupOk>>

\* future.get() is interrupted.  The interrupt flag is set again at once, so
\* every later get() on an unfinished task throws too: the remaining tasks are
\* left running, and pool.shutdown() does not stop them.
Interrupt ==
    /\ MayInterrupt
    /\ main = "await"
    /\ Cardinality(Group(current)) > 1
    /\ \E j \in Group(current) : ~Settled(j)
    /\ BeginCleanup(TRUE)
    /\ UNCHANGED <<plan, scheduleVars, current, taskVars, store, late, workspace,
                   circuit, cleanupOk>>

-----------------------------------------------------------------------------
(* executePlainStep, evaluate and the rounds of a path step                  *)

\* A worker takes the next task of the queue, or the caller starts the next
\* round; the query begins on the rows the store holds now.
BeginQuery(j) ==
    /\ pc[j] = "queued"
    /\ \A i \in Steps : i < j => pc[i] # "queued"
    /\ Cardinality(Running) < Parallelism
    /\ pc' = [pc EXCEPT ![j] = "querying"]
    /\ seen' = [seen EXCEPT ![j] = store \cap RowsOf(RoundOf(j).reads)]
    /\ UNCHANGED <<plan, main, scheduleVars, current, round, todo, gates, store, late,
                   workspace, circuit, aborted, cleanupVars>>

NextPc_Endless(j) == "queued"

\* The step, or the path's round, has nothing left to write.
NextPc(j)    == IF round[j] < Len(plan[j].rounds) THEN "queued" ELSE "done"
NextRound(j) == IF round[j] < Len(plan[j].rounds) THEN round[j] + 1 ELSE round[j]

Register_Late(rows) == UNCHANGED workspace

\* synchronized (workspace) { workspace.addAll(messages) }, before any write.
Register(rows) == workspace' = workspace \cup rows

\* "emitted private rows but declares no feedback" is an error.
MayFeedBack(j, rows) == rows # {} => plan[j].feedback

FedBack_Dropped(j, rows) == IF plan[j].feedback THEN rows ELSE {}

\* The private rows of an answer, all of which count as feedback.
FedBack(j, rows) == rows

\* The answer may contain rows that appeared while it was being streamed.  The
\* gates of a path round go to the circuit at once, those of a plain step wait
\* for the merge.
FinishQuery(j) ==
    /\ pc[j] = "querying"
    /\ \E extra \in SUBSET ((store \cap RowsOf(RoundOf(j).reads)) \ seen[j]) :
        LET rows == FedBack(j, Messages(j, seen[j] \cup extra))
            new  == Emitted(j, seen[j] \cup extra)
        IN  /\ MayFeedBack(j, rows)
            /\ Register(rows)
            /\ todo' = [todo EXCEPT ![j] = rows]
            /\ IF plan[j].path
                 THEN circuit' = circuit \cup new /\ UNCHANGED gates
                 ELSE gates' = [gates EXCEPT ![j] = new] /\ UNCHANGED circuit
            /\ pc' = [pc EXCEPT ![j] = IF rows # {} THEN "writing" ELSE NextPc(j)]
            /\ round' = [round EXCEPT ![j] = IF rows # {} THEN @ ELSE NextRound(j)]
    /\ seen' = [seen EXCEPT ![j] = {}]
    /\ UNCHANGED <<plan, main, scheduleVars, current, store, late, aborted, cleanupVars>>

\* The query fails, or its rows are refused.
QueryFails(j) ==
    /\ pc[j] = "querying"
    /\ \/ MayFail
       \/ ~MayFeedBack(j, FedBack(j, Messages(j, seen[j])))
    /\ pc' = [pc EXCEPT ![j] = "failed"]
    /\ seen' = [seen EXCEPT ![j] = {}]
    /\ UNCHANGED <<plan, main, scheduleVars, current, round, todo, gates, store, late,
                   workspace, circuit, aborted, cleanupVars>>

IsLastChunk(j, row) == todo[j] = {row}

\* addBatched: one chunk is committed; after the last the step moves on.
WriteChunk(j) ==
    /\ pc[j] = "writing"
    /\ \E row \in todo[j] :
          /\ store' = store \cup {row}
          /\ todo' = [todo EXCEPT ![j] = @ \ {row}]
          /\ IF IsLastChunk(j, row)
               THEN /\ pc' = [pc EXCEPT ![j] = NextPc(j)]
                    /\ round' = [round EXCEPT ![j] = NextRound(j)]
               ELSE UNCHANGED <<pc, round>>
    /\ UNCHANGED <<plan, main, scheduleVars, current, seen, gates, late, workspace,
                   circuit, aborted, cleanupVars>>

\* The update throws.  The server may have refused the chunk, may have committed
\* it and lost the response, or may still be working on it.
WriteFails(j) ==
    /\ MayFail
    /\ pc[j] = "writing"
    /\ \E row \in todo[j] :
          \/ UNCHANGED <<store, late>>
          \/ store' = store \cup {row} /\ UNCHANGED late
          \/ LateCommit /\ late' = late \cup {row} /\ UNCHANGED store
    /\ pc' = [pc EXCEPT ![j] = "failed"]
    /\ todo' = [todo EXCEPT ![j] = {}]
    /\ UNCHANGED <<plan, main, scheduleVars, current, round, seen, gates, workspace,
                   circuit, aborted, cleanupVars>>

\* External: the server completes an update whose client gave up on it.
LandLate ==
    /\ \E row \in late : store' = store \cup {row} /\ late' = late \ {row}
    /\ UNCHANGED <<plan, main, scheduleVars, current, taskVars, workspace, circuit,
                   aborted, cleanupVars>>

-----------------------------------------------------------------------------
(* The finally block: removeBatched(con, workspace)                          *)

RemoveRow(row) == store' = store \ {row} /\ removing' = removing \ {row}

RemoveChunk ==
    /\ main = "cleanup"
    /\ \E row \in removing : RemoveRow(row)
    /\ UNCHANGED <<plan, main, scheduleVars, current, taskVars, late, workspace,
                   circuit, aborted, cleanupOk>>

\* A failed removal is only a warning: the rest of the workspace stays behind.
RemoveFails ==
    /\ MayFail
    /\ main = "cleanup"
    /\ \E row \in removing : store' \in {store, store \ {row}}
    /\ main' = "done"
    /\ cleanupOk' = FALSE
    /\ UNCHANGED <<plan, scheduleVars, current, taskVars, late, workspace, circuit,
                   aborted, removing>>

CleanupDone ==
    /\ main = "cleanup"
    /\ removing = {}
    /\ main' = "done"
    /\ UNCHANGED <<plan, scheduleVars, current, taskVars, store, late, workspace,
                   circuit, aborted, cleanupVars>>

-----------------------------------------------------------------------------
Init ==
    /\ plan \in Plans
    /\ main = "schedule"
    /\ scheduled = 0
    /\ level = [j \in Steps |-> 0]
    /\ afterLastBarrier = 0
    /\ current = 0
    /\ pc = [j \in Steps |-> "idle"]
    /\ round = [j \in Steps |-> 1]
    /\ seen = [j \in Steps |-> {}]
    /\ todo = [j \in Steps |-> {}]
    /\ gates = [j \in Steps |-> {}]
    /\ store = {} /\ late = {} /\ workspace = {}
    /\ circuit = {}
    /\ aborted = FALSE
    /\ removing = {} /\ cleanupOk = TRUE

MainStep == \/ ScheduleStep \/ BeginLevels \/ SubmitLevel \/ LevelsDone \/ AwaitLevel
            \/ LevelFails \/ RemoveChunk \/ RemoveFails \/ CleanupDone

TaskStep(j) == \/ BeginQuery(j) \/ FinishQuery(j) \/ QueryFails(j)
               \/ WriteChunk(j) \/ WriteFails(j)

Quiescent == main = "done" /\ late = {} /\ \A j \in Steps : pc[j] = "idle" \/ Settled(j)

Terminated == Quiescent /\ UNCHANGED vars

Next == \/ MainStep
        \/ Interrupt
        \/ \E j \in Steps : TaskStep(j)
        \/ LandLate
        \/ Terminated

\* The caller keeps running, and the endpoint answers or fails every request.
Fairness == WF_vars(MainStep) /\ WF_vars(\E j \in Steps : TaskStep(j))

Spec == Init /\ [][Next]_vars /\ Fairness

-----------------------------------------------------------------------------
(* Properties                                                               *)

TypeOK ==
    /\ plan \in Plans
    /\ main \in {"schedule", "level", "await", "cleanup", "done"}
    /\ scheduled \in 0..Len(plan)
    /\ level \in [Steps -> Nat]
    /\ afterLastBarrier \in Nat
    /\ current \in Nat
    /\ pc \in [Steps -> {"idle", "queued", "querying", "writing", "done", "failed"}]
    /\ round \in [Steps -> Nat \ {0}]
    /\ \A j \in Steps : round[j] \in DOMAIN plan[j].rounds
    /\ seen \in [Steps -> SUBSET Rows]
    /\ todo \in [Steps -> SUBSET Rows]
    /\ gates \in [Steps -> SUBSET Gates]
    /\ {store, late, workspace, removing} \subseteq SUBSET Rows
    /\ circuit \in SUBSET Gates
    /\ {aborted, cleanupOk} \subseteq BOOLEAN

\* The later step j has to wait for i, whatever they declare: it reads or writes what i
\* writes, or one of them is a path step.  That j writes what i reads is no reason: a
\* relation has one content, and what i reads is complete before.
Dependent(i, j) ==
    \/ plan[i].path \/ plan[j].path
    \/ ReadsOf(plan[j]) \cap WritesOf(plan[i]) # {}
    \/ WritesOf(plan[j]) \cap WritesOf(plan[i]) # {}

\* A scheduled step lands strictly after every earlier step it depends on.
LevelsRespectDependencies ==
    \A i, j \in 1..scheduled : i < j /\ Dependent(i, j) => level[i] < level[j]

\* Steps in flight together do not disturb each other: no two fill one relation, a path
\* step, which drives its rounds on the caller's connection, runs alone, and a later step
\* does not read what an earlier one is filling.  A later step may write what an earlier
\* one reads; until the cleanup begins it then only repeats rows that are already there.
InFlightStepsDoNotDisturb ==
    \A i, j \in Running : i < j =>
        /\ ~Dependent(i, j)
        /\ main = "await" => RowsOf(ReadsOf(plan[i]) \cap WritesOf(plan[j])) \subseteq store

\* Every row that is on the endpoint, or may still get there, is registered in
\* the workspace ("so cleanup remains possible after an uncertain write").
RegisteredBeforeWritten == store \cup late \subseteq workspace

\* A query that runs before the cleanup sees every chunk of every relation it
\* reads: no step is answered from an empty or half-written relation.
ReadsAreComplete ==
    main = "await" =>
        \A j \in Steps : pc[j] = "querying" => seen[j] = RowsOf(RoundOf(j).reads)

\* The cleanup never races a task of the level that failed ("a half-finished
\* level must not race with the workspace cleanup").
CleanupRunsAlone ==
    main \in {"cleanup", "done"} =>
        \A j \in Steps : pc[j] = "idle" \/ Settled(j)

\* A cleanup that reports success leaves no private row behind, also after a
\* failed query, a half-written relation or a lost response.
NoResidue == main = "done" /\ cleanupOk => store = {}

\* The circuit the plan denotes: what each round emits on complete relations.
SequentialCircuit ==
    UNION {{<<j, k, x>> : k \in DOMAIN plan[j].rounds, x \in Chunks} : j \in Steps}

\* The schedule does not change the circuit: a run that does not fail ends with
\* what sequential execution builds ("Byte identity is preserved").
CircuitIsSequential ==
    main = "done" /\ ~aborted => circuit = SequentialCircuit

\* Every run ends, whatever fails on the way, with its cleanup attempted.
Termination == <>(main = "done")

Promise == INSTANCE Construction WITH
    wanted  <- SequentialCircuit,
    outcome <- IF main \notin {"cleanup", "done"} THEN "running"
               ELSE IF aborted THEN "aborted" ELSE "complete"

\* Plan execution keeps the promise of Construction: the exact circuit or an
\* exception, and one of the two eventually.
KeepsPromise == Promise!Spec

=============================================================================
