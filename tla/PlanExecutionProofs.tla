------------------------- MODULE PlanExecutionProofs -------------------------
(***************************************************************************)
(* Theorems about PlanExecution for every set of well-formed plans, every   *)
(* degree of parallelism and every choice of faults.                        *)
(***************************************************************************)
EXTENDS PlanExecution, FiniteSetTheorems, TLAPS

-----------------------------------------------------------------------------
(* Type correctness                                                         *)

\* The steps of a plan are records of the declared type with at least one round.
LEMMA StepFacts ==
    ASSUME plan \in Plans
    PROVE  /\ Len(plan) \in Nat
           /\ Steps = 1..Len(plan)
           /\ \A j \in Steps : /\ plan[j] \in Step
                               /\ plan[j].rounds \in Seq(Round)
                               /\ Len(plan[j].rounds) \in Nat
                               /\ DOMAIN plan[j].rounds = 1..Len(plan[j].rounds)
                               /\ 1 \in DOMAIN plan[j].rounds
<1>1. plan \in Seq(Step) /\ WellFormed(plan)
  BY PlansAssumption
<1>2. Len(plan) \in Nat /\ Steps = 1..Len(plan)
  BY <1>1 DEF Steps
<1>3. ASSUME NEW j \in Steps
      PROVE  plan[j] \in Step /\ plan[j].rounds \in Seq(Round)
  <2>1. plan[j] \in Step
    BY <1>1, <1>2
  <2> QED BY <2>1 DEF Step
<1>4. ASSUME NEW j \in Steps
      PROVE  /\ Len(plan[j].rounds) \in Nat
             /\ DOMAIN plan[j].rounds = 1..Len(plan[j].rounds)
             /\ 1 \in DOMAIN plan[j].rounds
  <2>1. plan[j].rounds # << >>
    BY <1>1 DEF WellFormed, Steps
  <2> QED BY <1>3, <2>1
<1> QED BY <1>2, <1>3, <1>4

\* What a step derives from any rows has the declared types.
LEMMA DerivedTypes ==
    ASSUME TypeOK, NEW j \in Steps, NEW S
    PROVE  /\ RoundOf(j) \in Round
           /\ Messages(j, S) \in SUBSET Rows
           /\ Emitted(j, S) \in SUBSET Gates
<1>1. plan[j].rounds \in Seq(Round) /\ round[j] \in DOMAIN plan[j].rounds /\ j \in Nat
  BY StepFacts DEF TypeOK
<1>2. RoundOf(j) \in Round /\ round[j] \in Nat
  BY <1>1, StepFacts DEF RoundOf, TypeOK
<1>3. Derived(j, round[j], S) \subseteq Chunks
  BY DEF Derived
<1>4. Messages(j, S) \in SUBSET Rows
  BY <1>2, <1>3 DEF Messages, Rows, Round
<1>5. Emitted(j, S) \in SUBSET Gates
  BY <1>1, <1>2, <1>3 DEF Emitted, Gates
<1> QED BY <1>2, <1>4, <1>5

\* The next round of a step is one of its rounds.
LEMMA NextRoundType ==
    ASSUME TypeOK, NEW j \in Steps
    PROVE  NextRound(j) \in DOMAIN plan[j].rounds /\ NextRound(j) \in Nat \ {0}
BY StepFacts DEF TypeOK, NextRound

LEMMA TypeInit == Init => TypeOK
<1> SUFFICES ASSUME Init PROVE TypeOK OBVIOUS
<1>1. plan \in Plans
  BY DEF Init
<1>2. \A j \in Steps : round[j] \in DOMAIN plan[j].rounds
  BY <1>1, StepFacts DEF Init
<1>3. round \in [Steps -> Nat \ {0}] /\ level \in [Steps -> Nat] /\ Len(plan) \in Nat
  BY <1>1, StepFacts DEF Init
<1>4. /\ pc \in [Steps -> {"idle", "queued", "querying", "writing", "done", "failed"}]
      /\ seen \in [Steps -> SUBSET Rows]
      /\ todo \in [Steps -> SUBSET Rows]
      /\ gates \in [Steps -> SUBSET Gates]
  BY DEF Init
<1>5. /\ {store, late, workspace, removing} \subseteq SUBSET Rows
      /\ circuit \in SUBSET Gates
      /\ {aborted, cleanupOk} \subseteq BOOLEAN
  BY DEF Init
<1> QED BY <1>1, <1>2, <1>3, <1>4, <1>5 DEF Init, TypeOK

LEMMA TypeStep == TypeOK /\ [Next]_vars => TypeOK'
<1> SUFFICES ASSUME TypeOK, [Next]_vars PROVE TypeOK' OBVIOUS
<1> USE StepFacts
<1>1. CASE ScheduleStep
  BY <1>1 DEF ScheduleStep, TypeOK, Steps, taskVars, cleanupVars, BarrierAfter
<1>2. CASE BeginLevels
  BY <1>2 DEF BeginLevels, TypeOK, Steps, taskVars, cleanupVars, scheduleVars
<1>3. CASE SubmitLevel
  BY <1>3 DEF SubmitLevel, TypeOK, Steps, cleanupVars, scheduleVars
<1>4. CASE LevelsDone
  BY <1>4 DEF LevelsDone, BeginCleanup, TypeOK, Steps, taskVars, scheduleVars
<1>5. CASE AwaitLevel
  BY <1>5 DEF AwaitLevel, TypeOK, Steps, taskVars, cleanupVars, scheduleVars, Group
<1>6. CASE LevelFails
  BY <1>6 DEF LevelFails, BeginCleanup, TypeOK, Steps, taskVars, scheduleVars
<1>7. CASE Interrupt
  BY <1>7 DEF Interrupt, BeginCleanup, TypeOK, Steps, taskVars, scheduleVars
<1>8. ASSUME NEW j \in Steps, BeginQuery(j) PROVE TypeOK'
  BY <1>8 DEF BeginQuery, TypeOK, Steps, cleanupVars, scheduleVars
<1>9. ASSUME NEW j \in Steps, FinishQuery(j) PROVE TypeOK'
  <2>1. PICK extra : /\ extra \in SUBSET ((store \cap RowsOf(RoundOf(j).reads)) \ seen[j])
                     /\ LET rows == FedBack(j, Messages(j, seen[j] \cup extra))
                            new  == Emitted(j, seen[j] \cup extra)
                        IN  /\ MayFeedBack(j, rows)
                            /\ Register(rows)
                            /\ todo' = [todo EXCEPT ![j] = rows]
                            /\ IF plan[j].path
                                 THEN circuit' = circuit \cup new /\ UNCHANGED gates
                                 ELSE gates' = [gates EXCEPT ![j] = new] /\ UNCHANGED circuit
                            /\ pc' = [pc EXCEPT ![j] = IF rows # {} THEN "writing" ELSE NextPc(j)]
                            /\ round' = [round EXCEPT ![j] = IF rows # {} THEN @ ELSE NextRound(j)]
    BY <1>9 DEF FinishQuery
  <2> DEFINE rows == Messages(j, seen[j] \cup extra)
             new  == Emitted(j, seen[j] \cup extra)
  <2>2. rows \in SUBSET Rows /\ new \in SUBSET Gates
    BY DerivedTypes
  <2>3. /\ workspace' = workspace \cup rows
        /\ todo' = [todo EXCEPT ![j] = rows]
        /\ circuit' \in {circuit, circuit \cup new}
        /\ gates' \in {gates, [gates EXCEPT ![j] = new]}
        /\ pc' = [pc EXCEPT ![j] = IF rows # {} THEN "writing" ELSE NextPc(j)]
        /\ round' = [round EXCEPT ![j] = IF rows # {} THEN round[j] ELSE NextRound(j)]
    BY <2>1 DEF FedBack, Register
  <2>4. /\ seen' = [seen EXCEPT ![j] = {}]
        /\ UNCHANGED <<plan, main, scheduleVars, current, store, late, aborted, cleanupVars>>
    BY <1>9 DEF FinishQuery
  <2>5. NextPc(j) \in {"queued", "done"}
    BY DEF NextPc
  <2> HIDE DEF rows, new
  <2> QED BY <2>2, <2>3, <2>4, <2>5, NextRoundType, ZenonT(60)
          DEF TypeOK, Steps, cleanupVars, scheduleVars
<1>10. ASSUME NEW j \in Steps, QueryFails(j) PROVE TypeOK'
  BY <1>10 DEF QueryFails, TypeOK, Steps, cleanupVars, scheduleVars
<1>11. ASSUME NEW j \in Steps, WriteChunk(j) PROVE TypeOK'
  <2>1. PICK row \in todo[j] :
           /\ store' = store \cup {row}
           /\ todo' = [todo EXCEPT ![j] = todo[j] \ {row}]
           /\ \/ /\ pc' = [pc EXCEPT ![j] = NextPc(j)]
                 /\ round' = [round EXCEPT ![j] = NextRound(j)]
              \/ UNCHANGED <<pc, round>>
    BY <1>11 DEF WriteChunk
  <2>2. UNCHANGED <<plan, main, scheduleVars, current, seen, gates, late, workspace,
                    circuit, aborted, cleanupVars>>
    BY <1>11 DEF WriteChunk
  <2>3. NextPc(j) \in {"queued", "done"}
    BY DEF NextPc
  <2>4. row \in Rows
    BY <2>1 DEF TypeOK
  <2>5. /\ pc' \in [Steps -> {"idle", "queued", "querying", "writing", "done", "failed"}]
        /\ round' \in [Steps -> Nat \ {0}]
        /\ \A i \in Steps : round'[i] \in DOMAIN plan[i].rounds
    <3>1. NextRound(j) \in DOMAIN plan[j].rounds /\ NextRound(j) \in Nat \ {0}
      BY NextRoundType
    <3>2. CASE UNCHANGED <<pc, round>>
      BY <3>2 DEF TypeOK
    <3>3. CASE /\ pc' = [pc EXCEPT ![j] = NextPc(j)]
               /\ round' = [round EXCEPT ![j] = NextRound(j)]
      BY <2>3, <3>1, <3>3 DEF TypeOK
    <3> QED BY <2>1, <3>2, <3>3
  <2>6. store' \in SUBSET Rows /\ todo' \in [Steps -> SUBSET Rows]
    BY <2>1, <2>4 DEF TypeOK
  <2> QED BY <2>2, <2>5, <2>6 DEF TypeOK, Steps, cleanupVars, scheduleVars
<1>12. ASSUME NEW j \in Steps, WriteFails(j) PROVE TypeOK'
  BY <1>12 DEF WriteFails, TypeOK, Steps, cleanupVars, scheduleVars
<1>13. CASE LandLate
  BY <1>13 DEF LandLate, TypeOK, Steps, taskVars, cleanupVars, scheduleVars
<1>14. CASE RemoveChunk
  BY <1>14 DEF RemoveChunk, RemoveRow, TypeOK, Steps, taskVars, scheduleVars
<1>15. CASE RemoveFails
  BY <1>15 DEF RemoveFails, TypeOK, Steps, taskVars, scheduleVars
<1>16. CASE CleanupDone
  BY <1>16 DEF CleanupDone, TypeOK, Steps, taskVars, cleanupVars, scheduleVars
<1>17. CASE UNCHANGED vars
  BY <1>17 DEF vars, TypeOK, Steps, taskVars, cleanupVars, scheduleVars
<1> QED
  BY <1>1, <1>2, <1>3, <1>4, <1>5, <1>6, <1>7, <1>8, <1>9, <1>10, <1>11, <1>12,
     <1>13, <1>14, <1>15, <1>16, <1>17
     DEF Next, MainStep, TaskStep, Terminated

\* Every variable keeps its type in every behaviour of every plan.
THEOREM TypeCorrect == Spec => []TypeOK
BY TypeInit, TypeStep, PTL DEF Spec
-----------------------------------------------------------------------------
(* Registration before the write                                            *)

\* What a step has still to write is registered already.
RegisteredInv == RegisteredBeforeWritten /\ \A j \in Steps : todo[j] \subseteq workspace

LEMMA RegisteredStep == TypeOK /\ RegisteredInv /\ [Next]_vars => RegisteredInv'
<1> SUFFICES ASSUME TypeOK, RegisteredInv, [Next]_vars PROVE RegisteredInv' OBVIOUS
<1> USE DEF RegisteredInv, RegisteredBeforeWritten
<1>1. ASSUME NEW j \in Steps, FinishQuery(j) PROVE RegisteredInv'
  <2>1. PICK rows : todo' = [todo EXCEPT ![j] = rows] /\ workspace' = workspace \cup rows
    BY <1>1 DEF FinishQuery, Register
  <2>2. UNCHANGED <<plan, store, late>>
    BY <1>1 DEF FinishQuery
  <2> QED BY <2>1, <2>2 DEF Steps, TypeOK
<1>2. ASSUME NEW j \in Steps, WriteChunk(j) PROVE RegisteredInv'
  <2>1. PICK row \in todo[j] : store' = store \cup {row} /\ todo' = [todo EXCEPT ![j] = @ \ {row}]
    BY <1>2 DEF WriteChunk
  <2>2. UNCHANGED <<plan, late, workspace>>
    BY <1>2 DEF WriteChunk
  <2> QED BY <2>1, <2>2 DEF Steps, TypeOK
<1>3. ASSUME NEW j \in Steps, WriteFails(j) PROVE RegisteredInv'
  <2>1. PICK row \in todo[j] : store' \cup late' \subseteq store \cup late \cup {row}
    BY <1>3 DEF WriteFails
  <2>2. todo' = [todo EXCEPT ![j] = {}] /\ UNCHANGED <<plan, workspace>>
    BY <1>3 DEF WriteFails
  <2> QED BY <2>1, <2>2 DEF Steps, TypeOK
<1>4. ASSUME UNCHANGED <<plan, todo, workspace>>, store' \cup late' \subseteq store \cup late
      PROVE  RegisteredInv'
  BY <1>4 DEF Steps
<1>5. CASE LandLate
  <2>1. store' \cup late' \subseteq store \cup late
    BY <1>5 DEF LandLate
  <2> QED BY <1>4, <1>5, <2>1 DEF LandLate, taskVars
<1>6. CASE RemoveChunk
  BY <1>4, <1>6 DEF RemoveChunk, RemoveRow, taskVars
<1>7. CASE RemoveFails
  BY <1>4, <1>7 DEF RemoveFails, taskVars
<1>8. CASE UNCHANGED <<plan, todo, workspace, store, late>>
  BY <1>4, <1>8
<1> QED
  BY <1>1, <1>2, <1>3, <1>5, <1>6, <1>7, <1>8
     DEF Next, MainStep, TaskStep, Terminated, vars, taskVars, ScheduleStep, BeginLevels,
         SubmitLevel, LevelsDone, BeginCleanup, AwaitLevel, LevelFails, Interrupt,
         BeginQuery, QueryFails, CleanupDone

\* Every row on the endpoint, and every row a failed update may still bring
\* there, is in the workspace the final cleanup removes.
THEOREM WorkspaceCoversStore == Spec => []RegisteredBeforeWritten
<1>1. Init => RegisteredInv
  BY DEF Init, RegisteredInv, RegisteredBeforeWritten
<1>2. RegisteredInv => RegisteredBeforeWritten
  BY DEF RegisteredInv
<1> QED BY <1>1, <1>2, RegisteredStep, TypeInit, TypeStep, PTL DEF Spec

-----------------------------------------------------------------------------
(* The schedule                                                             *)

\* While levels are assigned: a barrier lies below afterLastBarrier, so what
\* follows it lands above it although it declares nothing.
ScheduleInv ==
    /\ main # "schedule" => scheduled = Len(plan)
    /\ LevelsRespectDependencies
    /\ Parallelism # 1 =>
          \A b \in 1..scheduled : ~plan[b].declared => level[b] < afterLastBarrier
    /\ Parallelism = 1 => \A j \in 1..scheduled : level[j] = j - 1

\* No action but ScheduleStep touches the schedule.
LEMMA OnlyScheduleStepSchedules ==
    [Next]_vars => \/ ScheduleStep
                   \/ /\ UNCHANGED <<plan, scheduleVars>>
                      /\ main' = "schedule" => main = "schedule"
                      /\ main = "schedule" => \/ main' = "schedule"
                                              \/ scheduled = Len(plan)
BY DEF Next, MainStep, TaskStep, Terminated, vars, BeginLevels, SubmitLevel,
       LevelsDone, BeginCleanup, AwaitLevel, LevelFails, Interrupt, BeginQuery,
       FinishQuery, QueryFails, WriteChunk, WriteFails, LandLate, RemoveChunk,
       RemoveFails, CleanupDone

\* What the rewriters guarantee about the kinds of step.
LEMMA StepKinds ==
    ASSUME plan \in Plans, NEW j \in Steps
    PROVE  /\ plan[j].declared \in BOOLEAN /\ plan[j].path \in BOOLEAN
           /\ plan[j].path <=> ~plan[j].declared
           /\ ~plan[j].path => Len(plan[j].rounds) = 1
           /\ plan[j].declared => /\ DeclaredReads(plan[j]) = ReadsOf(plan[j])
                                  /\ DeclaredWrites(plan[j]) = WritesOf(plan[j])
<1>1. WellFormed(plan) /\ plan[j] \in Step
  BY PlansAssumption, StepFacts
<1>2. plan[j].declared \in BOOLEAN /\ plan[j].path \in BOOLEAN
  BY <1>1 DEF Step
<1>3. /\ ~plan[j].declared => plan[j].path
      /\ plan[j].path => ~plan[j].declared
      /\ ~plan[j].path => Len(plan[j].rounds) = 1
  BY <1>1 DEF WellFormed, Steps
<1> QED BY <1>2, <1>3 DEF DeclaredReads, DeclaredWrites

LEMMA ScheduleStepInv == TypeOK /\ ScheduleInv /\ [Next]_vars => ScheduleInv'
<1> SUFFICES ASSUME TypeOK, ScheduleInv, [Next]_vars PROVE ScheduleInv' OBVIOUS
<1>1. CASE ScheduleStep
  <2> DEFINE j == scheduled + 1
  <2>1. PICK e \in 0..Len(plan) : /\ IsLevelOf(j, e)
                                  /\ level' = [level EXCEPT ![j] = e]
                                  /\ afterLastBarrier' = BarrierAfter(j, e)
    BY <1>1 DEF ScheduleStep
  <2>2. UNCHANGED <<plan, main>> /\ scheduled' = j /\ main = "schedule"
    BY <1>1 DEF ScheduleStep
  <2>3. /\ j \in Steps /\ j \in Nat /\ scheduled \in Nat /\ e \in Nat
        /\ \A i \in 1..scheduled : i \in Steps /\ i \in Nat /\ i < j /\ level[i] \in Nat
        /\ afterLastBarrier \in Nat
    <3>1. /\ Len(plan) \in Nat /\ Steps = 1..Len(plan)
          /\ scheduled \in 0..Len(plan) /\ scheduled < Len(plan)
      BY <1>1, StepFacts DEF TypeOK, ScheduleStep
    <3>2. /\ j \in Steps /\ j \in Nat
          /\ \A i \in 1..scheduled : i \in Steps /\ i \in Nat /\ i < j
      BY <3>1
    <3>3. e \in Nat
      BY <3>1, <2>1
    <3>4. level \in [Steps -> Nat] /\ afterLastBarrier \in Nat
      BY DEF TypeOK
    <3> QED BY <3>1, <3>2, <3>3, <3>4
  <2>4. level'[j] = e /\ \A i \in 1..scheduled : level'[i] = level[i]
    BY <2>1, <2>3 DEF TypeOK
  <2> HIDE DEF j
  <2>5. ASSUME NEW i \in 1..scheduled, Dependent(i, j) PROVE level[i] < e
    <3>1. CASE Parallelism = 1
      BY <2>1, <2>3, <3>1 DEF IsLevelOf, ScheduleInv, j
    <3>2. CASE Parallelism # 1 /\ plan[i].path
      BY <2>1, <2>3, <3>2, StepKinds DEF IsLevelOf, ScheduleInv, TypeOK
    <3>3. CASE Parallelism # 1 /\ ~plan[i].path
      <4>1. MustFollow(j, i)
        BY <2>3, <2>5, <3>3, StepKinds DEF Dependent, MustFollow, TypeOK
      <4>2. i \in 1..(j-1)
        BY <2>3 DEF j
      <4> QED BY <2>1, <3>3, <4>1, <4>2 DEF IsLevelOf
    <3> QED BY <3>1, <3>2, <3>3
  <2>6. LevelsRespectDependencies'
    <3> SUFFICES ASSUME NEW i \in 1..j, NEW h \in 1..j, i < h, Dependent(i, h)
                 PROVE  level'[i] < level'[h]
      BY <2>2 DEF LevelsRespectDependencies, Dependent
    <3>1. CASE h = j
      BY <2>3, <2>4, <2>5, <3>1 DEF j
    <3>2. CASE h # j
      BY <2>3, <2>4, <3>2 DEF j, ScheduleInv, LevelsRespectDependencies
    <3> QED BY <3>1, <3>2
  <2>7. (Parallelism # 1 =>
           \A b \in 1..scheduled : ~plan[b].declared => level[b] < afterLastBarrier)'
    <3> SUFFICES ASSUME Parallelism # 1, NEW b \in 1..j, ~plan[b].declared
                 PROVE  level'[b] < afterLastBarrier'
      BY <2>2
    <3>1. afterLastBarrier <= e
      BY <2>1 DEF IsLevelOf
    <3>2. CASE b = j
      BY <2>1, <2>3, <2>4, <3>2 DEF BarrierAfter
    <3>3. CASE b # j
      <4>1. b \in 1..scheduled /\ level[b] < afterLastBarrier
        BY <2>3, <3>3 DEF j, ScheduleInv
      <4>2. afterLastBarrier <= afterLastBarrier'
        BY <2>1, <2>3, <3>1 DEF BarrierAfter
      <4>3. afterLastBarrier' \in Nat /\ level[b] \in Nat
        BY <2>1, <2>3, <4>1 DEF BarrierAfter
      <4> QED BY <2>3, <2>4, <4>1, <4>2, <4>3
    <3> QED BY <3>2, <3>3
  <2>8. (Parallelism = 1 => \A h \in 1..scheduled : level[h] = h - 1)'
    BY <2>1, <2>2, <2>3, <2>4 DEF j, IsLevelOf, ScheduleInv
  <2> QED BY <2>2, <2>6, <2>7, <2>8 DEF ScheduleInv
<1>2. CASE UNCHANGED <<plan, scheduleVars>> /\ (main' = "schedule" => main = "schedule")
           /\ (main = "schedule" => main' = "schedule" \/ scheduled = Len(plan))
  BY <1>2 DEF ScheduleInv, LevelsRespectDependencies, Dependent, scheduleVars
<1> QED BY <1>1, <1>2, OnlyScheduleStepSchedules

LEMMA ScheduleInit == Init => ScheduleInv
BY DEF Init, ScheduleInv, LevelsRespectDependencies

\* Steps that depend on each other are never given the same level, and the
\* later of the two gets the higher one, for every plan.
THEOREM ScheduleIsSound == Spec => []LevelsRespectDependencies
<1>1. ScheduleInv => LevelsRespectDependencies
  BY DEF ScheduleInv
<1> QED BY <1>1, ScheduleInit, ScheduleStepInv, TypeInit, TypeStep, PTL DEF Spec
-----------------------------------------------------------------------------
(* Which steps are in flight                                                 *)

\* Levels below the current one are done, those above have not started.
PhaseInv ==
    /\ main = "schedule" => current = 0 /\ \A j \in Steps : pc[j] = "idle"
    /\ main # "schedule" =>
          \A j \in Steps : /\ level[j] < current => pc[j] = "done"
                           /\ level[j] > current => pc[j] = "idle"
                           /\ level[j] = current => (pc[j] = "idle" <=> main = "level")

\* A step by a task touches the task of one step that is neither idle nor
\* settled, and leaves it in a state other than idle.
LEMMA TaskStepFrame ==
    ASSUME TypeOK, NEW j \in Steps, TaskStep(j)
    PROVE  /\ pc[j] \in {"queued", "querying", "writing"}
           /\ pc' \in [Steps -> {"queued", "querying", "writing", "done", "failed", "idle"}]
           /\ pc'[j] # "idle"
           /\ \A i \in Steps : i # j => pc'[i] = pc[i]
           /\ UNCHANGED <<plan, main, scheduleVars, current, aborted, cleanupVars>>
<1>1. CASE BeginQuery(j)
  BY <1>1 DEF BeginQuery, TypeOK
<1>2. CASE FinishQuery(j)
  <2>1. PICK p \in {"writing", "queued", "done"} : pc' = [pc EXCEPT ![j] = p]
    BY <1>2 DEF FinishQuery, NextPc
  <2> QED BY <1>2, <2>1 DEF FinishQuery, TypeOK
<1>3. CASE QueryFails(j)
  BY <1>3 DEF QueryFails, TypeOK
<1>4. CASE WriteChunk(j)
  <2>1. pc' = pc \/ \E p \in {"queued", "done"} : pc' = [pc EXCEPT ![j] = p]
    BY <1>4 DEF WriteChunk, NextPc
  <2>2. pc[j] = "writing" /\ UNCHANGED <<plan, main, scheduleVars, current, aborted, cleanupVars>>
    BY <1>4 DEF WriteChunk
  <2> QED BY <2>1, <2>2 DEF TypeOK
<1>5. CASE WriteFails(j)
  BY <1>5 DEF WriteFails, TypeOK
<1> QED BY <1>1, <1>2, <1>3, <1>4, <1>5 DEF TaskStep

LEMMA PhaseStep == TypeOK /\ ScheduleInv /\ PhaseInv /\ [Next]_vars => PhaseInv'
<1> SUFFICES ASSUME TypeOK, ScheduleInv, PhaseInv, [Next]_vars PROVE PhaseInv' OBVIOUS
<1> USE DEF PhaseInv
<1>1. CASE ScheduleStep
  BY <1>1 DEF ScheduleStep, taskVars, Steps
<1>2. CASE BeginLevels
  <2>1. /\ main' = "level" /\ current = 0 /\ \A j \in Steps : pc[j] = "idle"
        /\ UNCHANGED <<plan, level, pc, current>>
    BY <1>2 DEF BeginLevels, scheduleVars, taskVars
  <2>2. \A j \in Steps : level[j] \in Nat
    BY DEF TypeOK
  <2> QED BY <2>1, <2>2 DEF Steps
<1>3. CASE SubmitLevel
  BY <1>3 DEF SubmitLevel, Steps, scheduleVars, TypeOK, Group
<1>4. CASE LevelsDone
  BY <1>4 DEF LevelsDone, BeginCleanup, Steps, scheduleVars, taskVars, TypeOK
<1>5. CASE AwaitLevel
  <2>1. /\ main = "await" /\ main' = "level" /\ current' = current + 1
        /\ UNCHANGED <<plan, level, pc>>
        /\ \A j \in Steps : level[j] = current => pc[j] = "done"
    BY <1>5 DEF AwaitLevel, Group, scheduleVars, taskVars
  <2>2. current \in Nat /\ \A j \in Steps : level[j] \in Nat
    BY DEF TypeOK
  <2> QED BY <2>1, <2>2 DEF Steps
<1>6. CASE LevelFails
  BY <1>6 DEF LevelFails, BeginCleanup, Steps, scheduleVars, taskVars
<1>7. CASE Interrupt
  BY <1>7 DEF Interrupt, BeginCleanup, Steps, scheduleVars, taskVars
<1>8. ASSUME NEW j \in Steps, TaskStep(j) PROVE PhaseInv'
  <2>1. /\ pc[j] \in {"queued", "querying", "writing"}
        /\ pc'[j] # "idle"
        /\ \A i \in Steps : i # j => pc'[i] = pc[i]
        /\ UNCHANGED <<plan, main, level, current>>
    BY <1>8, TaskStepFrame DEF scheduleVars
  <2>2. main # "schedule" /\ level[j] = current
    BY <2>1, SMTT(30) DEF TypeOK
  <2> QED BY <2>1, <2>2 DEF Steps
<1>9. CASE LandLate \/ RemoveChunk \/ RemoveFails \/ CleanupDone \/ UNCHANGED vars
  BY <1>9 DEF LandLate, RemoveChunk, RemoveFails, CleanupDone, vars, Steps, scheduleVars, taskVars
<1> QED BY <1>1, <1>2, <1>3, <1>4, <1>5, <1>6, <1>7, <1>8, <1>9
        DEF Next, MainStep, Terminated

LEMMA PhaseInit == Init => PhaseInv
BY DEF Init, PhaseInv

\* A dependent earlier step of one that is in flight is done.
LEMMA DependencyDone ==
    ASSUME TypeOK, ScheduleInv, PhaseInv,
           NEW i \in Steps, NEW j \in Steps, i < j, Dependent(i, j),
           pc[j] \in {"queued", "querying", "writing"}
    PROVE  pc[i] = "done"
<1>1. scheduled = Len(plan) /\ main # "schedule" /\ level[j] = current
  <2>1. level[j] \in Nat /\ current \in Nat
    BY DEF TypeOK
  <2>2. main # "schedule" /\ ~(level[j] < current) /\ ~(level[j] > current)
    BY DEF PhaseInv
  <2> QED BY <2>1, <2>2 DEF ScheduleInv
<1>2. level[i] < level[j]
  BY <1>1, StepFacts DEF ScheduleInv, LevelsRespectDependencies, TypeOK
<1> QED BY <1>1, <1>2 DEF PhaseInv

-----------------------------------------------------------------------------
(* What is on the endpoint while the plan runs                               *)

Building == main \in {"schedule", "level", "await"}

\* Round h of step j has run to its end.
RoundDone(j, h) == h < round[j] \/ (h = round[j] /\ pc[j] = "done")

\* Until the cleanup starts: what a finished round publishes is on the endpoint,
\* what a writing round publishes is there or about to be written, and a query
\* in progress was given its relations complete.
StoreInv ==
    /\ \A j \in Steps : pc[j] = "done" => round[j] = Len(plan[j].rounds)
    /\ Building => \A j \in Steps :
          /\ \A h \in DOMAIN plan[j].rounds :
                RoundDone(j, h) => RowsOf(plan[j].rounds[h].writes) \subseteq store
          /\ pc[j] = "writing" => RowsOf(RoundOf(j).writes) \subseteq store \cup todo[j]
          /\ pc[j] = "querying" => seen[j] = RowsOf(RoundOf(j).reads)

\* What a step reads and an earlier step writes is completely on the endpoint once the
\* later one is queued.
LEMMA EarlierWrites ==
    ASSUME TypeOK, ScheduleInv, PhaseInv, StoreInv, Building,
           NEW i \in Steps, NEW j \in Steps, i < j, pc[j] \in {"queued", "querying", "writing"},
           NEW r, r \in WritesOf(plan[i]), r \in ReadsOf(plan[j])
    PROVE  RowsOf({r}) \subseteq store
<1>1. pc[i] = "done"
  BY DependencyDone DEF Dependent
<1>2. PICK h \in DOMAIN plan[i].rounds : r \in plan[i].rounds[h].writes
  BY DEF WritesOf
<1>3. RoundDone(i, h)
  <2>1. /\ round[i] = Len(plan[i].rounds) /\ h \in 1..Len(plan[i].rounds)
        /\ Len(plan[i].rounds) \in Nat
    BY <1>1, <1>2, StepFacts DEF StoreInv, TypeOK
  <2> QED BY <1>1, <2>1 DEF RoundDone
<1>4. RowsOf(plan[i].rounds[h].writes) \subseteq store
  BY <1>2, <1>3 DEF StoreInv
<1> QED BY <1>2, <1>4 DEF RowsOf

\* Whatever a round that is about to start reads is completely on the endpoint.
LEMMA ReadsAvailable ==
    ASSUME TypeOK, ScheduleInv, PhaseInv, StoreInv, Building, NEW j \in Steps, pc[j] = "queued"
    PROVE  RowsOf(RoundOf(j).reads) \subseteq store
<1> DEFINE k == round[j]
<1>1. k \in DOMAIN plan[j].rounds /\ k \in Nat /\ j \in Nat
  BY StepFacts DEF TypeOK
<1> HIDE DEF k
<1> SUFFICES ASSUME NEW r \in plan[j].rounds[k].reads PROVE RowsOf({r}) \subseteq store
  BY DEF RowsOf, RoundOf, k
<1>2. \/ \E h \in 1..(k-1) : r \in plan[j].rounds[h].writes
      \/ \E i \in 1..(j-1) : r \in WritesOf(plan[i])
  BY <1>1, PlansAssumption DEF WellFormed, TypeOK, Steps
<1>3. ASSUME NEW h \in 1..(k-1), r \in plan[j].rounds[h].writes
      PROVE  RowsOf({r}) \subseteq store
  <2>1. h \in DOMAIN plan[j].rounds /\ h < k
    BY <1>1, StepFacts DEF TypeOK
  <2>2. RowsOf(plan[j].rounds[h].writes) \subseteq store
    BY <2>1 DEF StoreInv, RoundDone, k
  <2> QED BY <1>3, <2>2 DEF RowsOf
<1>4. ASSUME NEW i \in 1..(j-1), r \in WritesOf(plan[i])
      PROVE  RowsOf({r}) \subseteq store
  <2>1. i \in Steps /\ i < j
    BY <1>1, StepFacts DEF TypeOK
  <2>2. r \in ReadsOf(plan[j])
    BY <1>1 DEF ReadsOf
  <2> QED BY <1>4, <2>1, <2>2, EarlierWrites
<1> QED BY <1>2, <1>3, <1>4

\* A query that was given its relations complete derives every chunk.
LEMMA CompleteAnswer ==
    ASSUME TypeOK, StoreInv, Building, NEW j \in Steps, pc[j] = "querying",
           NEW extra \in SUBSET ((store \cap RowsOf(RoundOf(j).reads)) \ seen[j])
    PROVE  /\ Messages(j, seen[j] \cup extra) = RowsOf(RoundOf(j).writes)
           /\ Emitted(j, seen[j] \cup extra) = {<<j, round[j], x>> : x \in Chunks}
<1>1. seen[j] \cup extra = RowsOf(RoundOf(j).reads)
  BY DEF StoreInv
<1>2. Derived(j, round[j], seen[j] \cup extra) = Chunks
  BY <1>1 DEF Derived, RowsOf, RoundOf
<1> QED BY <1>2 DEF Messages, Emitted, RowsOf
\* What a step by one task leaves alone.
LEMMA TaskDataFrame ==
    ASSUME TypeOK, NEW j \in Steps, TaskStep(j)
    PROVE  /\ store \subseteq store'
           /\ \A i \in Steps : i # j => /\ round'[i] = round[i] /\ seen'[i] = seen[i]
                                        /\ todo'[i] = todo[i] /\ gates'[i] = gates[i]
<1>1. CASE BeginQuery(j)
  BY <1>1 DEF BeginQuery, TypeOK
<1>2. CASE FinishQuery(j)
  <2>1. PICK extra : LET rows == FedBack(j, Messages(j, seen[j] \cup extra)) IN
           /\ todo' = [todo EXCEPT ![j] = rows]
           /\ gates' \in {gates, [gates EXCEPT ![j] = Emitted(j, seen[j] \cup extra)]}
           /\ round' = [round EXCEPT ![j] = IF rows # {} THEN round[j] ELSE NextRound(j)]
    BY <1>2 DEF FinishQuery
  <2>2. store' = store /\ seen' = [seen EXCEPT ![j] = {}]
    BY <1>2 DEF FinishQuery
  <2> QED BY <2>1, <2>2 DEF TypeOK
<1>3. CASE QueryFails(j)
  BY <1>3 DEF QueryFails, TypeOK
<1>4. CASE WriteChunk(j)
  <2>1. PICK row \in todo[j] :
           /\ store' = store \cup {row}
           /\ todo' = [todo EXCEPT ![j] = @ \ {row}]
           /\ round' \in {round, [round EXCEPT ![j] = NextRound(j)]}
    BY <1>4 DEF WriteChunk
  <2>2. UNCHANGED <<seen, gates>>
    BY <1>4 DEF WriteChunk
  <2> QED BY <2>1, <2>2 DEF TypeOK
<1>5. CASE WriteFails(j)
  BY <1>5 DEF WriteFails, TypeOK
<1> QED BY <1>1, <1>2, <1>3, <1>4, <1>5 DEF TaskStep

\* The end of a round: the task queues for its next round, or is done with its
\* last one.
LEMMA RoundEnd ==
    ASSUME TypeOK, NEW j \in Steps
    PROVE  /\ NextPc(j) \in {"queued", "done"}
           /\ NextPc(j) = "queued" => NextRound(j) = round[j] + 1
           /\ NextPc(j) = "done" => /\ NextRound(j) = round[j]
                                    /\ round[j] = Len(plan[j].rounds)
<1>1. /\ round[j] \in DOMAIN plan[j].rounds
      /\ DOMAIN plan[j].rounds = 1..Len(plan[j].rounds)
      /\ Len(plan[j].rounds) \in Nat
  BY StepFacts DEF TypeOK
<1> QED BY <1>1 DEF NextPc, NextRound

LEMMA StoreStep ==
    TypeOK /\ ScheduleInv /\ PhaseInv /\ StoreInv /\ [Next]_vars => StoreInv'
<1> SUFFICES ASSUME TypeOK, ScheduleInv, PhaseInv, StoreInv, [Next]_vars PROVE StoreInv'
  OBVIOUS
<1>1. ASSUME UNCHANGED <<plan, round, seen, todo>>, store \subseteq store', Building' => Building,
             \A j \in Steps : pc'[j] \in {"done", "writing", "querying"} => pc'[j] = pc[j]
      PROVE  StoreInv'
  BY <1>1 DEF StoreInv, Steps, RoundDone, RoundOf
<1>2. ASSUME UNCHANGED <<plan, round, pc>>, ~Building'
      PROVE  StoreInv'
  BY <1>2 DEF StoreInv, Steps
<1>3. CASE ScheduleStep \/ BeginLevels \/ AwaitLevel \/ LandLate \/ UNCHANGED vars
  <2>1. UNCHANGED <<plan, pc, round, seen, todo>> /\ store \subseteq store'
    BY <1>3 DEF ScheduleStep, BeginLevels, AwaitLevel, LandLate, vars, taskVars
  <2>2. Building' => Building
    BY <1>3 DEF ScheduleStep, BeginLevels, AwaitLevel, LandLate, vars, Building
  <2> QED BY <1>1, <2>1, <2>2
<1>4. CASE SubmitLevel
  <2>1. UNCHANGED <<plan, round, seen, todo, store>> /\ Building
    BY <1>4 DEF SubmitLevel, Building
  <2>2. \A j \in Steps : pc'[j] \in {"queued", pc[j]}
    BY <1>4 DEF SubmitLevel, Steps
  <2> QED BY <1>1, <2>1, <2>2
<1>5. CASE LevelsDone \/ LevelFails \/ Interrupt \/ RemoveChunk \/ RemoveFails \/ CleanupDone
  BY <1>2, <1>5 DEF LevelsDone, LevelFails, Interrupt, BeginCleanup, RemoveChunk, RemoveFails,
                    CleanupDone, Building, taskVars
<1>6. ASSUME NEW j \in Steps, TaskStep(j) PROVE StoreInv'
  <2>1. /\ UNCHANGED <<plan, main>>
        /\ store \subseteq store'
        /\ \A i \in Steps : i # j => /\ pc'[i] = pc[i] /\ round'[i] = round[i]
                                     /\ seen'[i] = seen[i] /\ todo'[i] = todo[i]
    BY <1>6, TaskStepFrame, TaskDataFrame
  <2>2. /\ round[j] \in Nat /\ \A h \in DOMAIN plan[j].rounds : h \in Nat
        /\ round[j] \in DOMAIN plan[j].rounds
    BY StepFacts DEF TypeOK
  \* What has to be shown of the step that moves.
  <2>3. ASSUME pc'[j] = "done" => round'[j] = Len(plan[j].rounds),
               Building => /\ \A h \in DOMAIN plan[j].rounds :
                                 RoundDone(j, h)' =>
                                    RowsOf(plan[j].rounds[h].writes) \subseteq store'
                           /\ pc'[j] = "writing" =>
                                 RowsOf(plan[j].rounds[round'[j]].writes) \subseteq store' \cup todo'[j]
                           /\ pc'[j] = "querying" =>
                                 seen'[j] = RowsOf(plan[j].rounds[round'[j]].reads)
        PROVE  StoreInv'
    <3>1. ASSUME NEW i \in Steps, i # j, Building
          PROVE  /\ \A h \in DOMAIN plan[i].rounds :
                       RoundDone(i, h)' => RowsOf(plan[i].rounds[h].writes) \subseteq store'
                 /\ pc'[i] = "writing" =>
                       RowsOf(plan[i].rounds[round'[i]].writes) \subseteq store' \cup todo'[i]
                 /\ pc'[i] = "querying" => seen'[i] = RowsOf(plan[i].rounds[round'[i]].reads)
      BY <2>1, <3>1 DEF StoreInv, RoundDone, RoundOf
    <3>2. ASSUME NEW i \in Steps, i # j
          PROVE  pc'[i] = "done" => round'[i] = Len(plan[i].rounds)
      BY <2>1, <3>2 DEF StoreInv
    <3>3. (Building' <=> Building) /\ Steps' = Steps
      BY <2>1 DEF Building, Steps
    <3> QED BY <2>1, <2>3, <3>1, <3>2, <3>3 DEF StoreInv, RoundOf
  <2>4. CASE BeginQuery(j)
    <3>1. /\ round' = round /\ pc'[j] = "querying" /\ pc[j] = "queued" /\ store' = store
          /\ seen'[j] = store \cap RowsOf(RoundOf(j).reads)
      BY <2>4 DEF BeginQuery, TypeOK
    <3>2. Building => RowsOf(RoundOf(j).reads) \subseteq store
      BY <3>1, ReadsAvailable
    <3> QED BY <2>3, <3>1, <3>2 DEF StoreInv, RoundDone, RoundOf
  <2>5. CASE FinishQuery(j)
    <3>1. PICK extra \in SUBSET ((store \cap RowsOf(RoundOf(j).reads)) \ seen[j]) :
             LET rows == Messages(j, seen[j] \cup extra)
             IN  /\ todo' = [todo EXCEPT ![j] = rows]
                 /\ pc' = [pc EXCEPT ![j] = IF rows # {} THEN "writing" ELSE NextPc(j)]
                 /\ round' = [round EXCEPT ![j] = IF rows # {} THEN round[j] ELSE NextRound(j)]
      BY <2>5 DEF FinishQuery, FedBack
    <3> DEFINE rows == Messages(j, seen[j] \cup extra)
    <3>2. /\ todo'[j] = rows
          /\ pc'[j] = IF rows # {} THEN "writing" ELSE NextPc(j)
          /\ round'[j] = IF rows # {} THEN round[j] ELSE NextRound(j)
      BY <3>1 DEF TypeOK
    <3>3. pc[j] = "querying" /\ store' = store
      BY <2>5 DEF FinishQuery
    <3>4. Building => rows = RowsOf(RoundOf(j).writes)
      BY <3>3, CompleteAnswer
    <3> HIDE DEF rows
    <3>5. CASE rows # {}
      BY <2>3, <3>2, <3>3, <3>4, <3>5 DEF StoreInv, RoundDone, RoundOf
    <3>6. CASE rows = {}
      BY <2>2, <2>3, <3>2, <3>3, <3>4, <3>6, RoundEnd DEF StoreInv, RoundDone, RoundOf
    <3> QED BY <3>5, <3>6
  <2>6. CASE QueryFails(j)
    <3>1. pc'[j] = "failed" /\ pc[j] = "querying" /\ UNCHANGED <<round, store>>
      BY <2>6 DEF QueryFails, TypeOK
    <3> QED BY <2>3, <3>1 DEF StoreInv, RoundDone
  <2>7. CASE WriteChunk(j)
    <3>1. PICK row \in todo[j] :
             /\ store' = store \cup {row}
             /\ todo' = [todo EXCEPT ![j] = todo[j] \ {row}]
             /\ IF todo[j] = {row}
                  THEN /\ pc' = [pc EXCEPT ![j] = NextPc(j)]
                       /\ round' = [round EXCEPT ![j] = NextRound(j)]
                  ELSE UNCHANGED <<pc, round>>
      BY <2>7 DEF WriteChunk, IsLastChunk
    <3>2. pc[j] = "writing" /\ todo'[j] = todo[j] \ {row}
      BY <2>7, <3>1 DEF WriteChunk, TypeOK
    <3>3. Building => RowsOf(RoundOf(j).writes) \subseteq store' \cup todo'[j]
      BY <3>1, <3>2 DEF StoreInv
    <3>4. CASE todo[j] # {row}
      BY <2>3, <3>1, <3>2, <3>3, <3>4 DEF StoreInv, RoundDone, RoundOf
    <3>5. CASE todo[j] = {row}
      <4>1. pc'[j] = NextPc(j) /\ round'[j] = NextRound(j) /\ todo'[j] = {}
        BY <3>1, <3>2, <3>5 DEF TypeOK
      <4> QED BY <2>1, <2>2, <2>3, <3>2, <3>3, <4>1, RoundEnd DEF StoreInv, RoundDone, RoundOf
    <3> QED BY <3>4, <3>5
  <2>8. CASE WriteFails(j)
    <3>1. pc'[j] = "failed" /\ pc[j] = "writing" /\ round' = round
      BY <2>8 DEF WriteFails, TypeOK
    <3> QED BY <2>1, <2>3, <3>1 DEF StoreInv, RoundDone
  <2> QED BY <1>6, <2>4, <2>5, <2>6, <2>7, <2>8 DEF TaskStep
<1> QED BY <1>3, <1>4, <1>5, <1>6 DEF Next, MainStep, Terminated

LEMMA StoreInit == Init => StoreInv
<1> SUFFICES ASSUME Init PROVE StoreInv OBVIOUS
<1>1. \A j \in Steps : round[j] = 1 /\ pc[j] = "idle"
  BY DEF Init
<1>2. \A j \in Steps : \A h \in DOMAIN plan[j].rounds : h \in Nat /\ h >= 1
  BY StepFacts DEF Init
<1> QED BY <1>1, <1>2 DEF StoreInv, RoundDone

\* For every plan: no step is ever answered from a relation that is empty or
\* half-written when it should not be.
THEOREM ReadsComplete == Spec => []ReadsAreComplete
<1>1. StoreInv => ReadsAreComplete
  BY DEF StoreInv, ReadsAreComplete, Building
<1> QED BY <1>1, TypeInit, TypeStep, ScheduleInit, ScheduleStepInv, PhaseInit, PhaseStep,
           StoreInit, StoreStep, PTL DEF Spec

\* For every plan: of two steps in flight together, the later one does not read or write
\* what the earlier one writes, neither is a path step, and where the later one writes what
\* the earlier one reads, it repeats rows that another step has completed before.
THEOREM InFlightIsSound == Spec => []InFlightStepsDoNotDisturb
<1>1. ASSUME TypeOK, ScheduleInv, PhaseInv, StoreInv PROVE InFlightStepsDoNotDisturb
  <2> SUFFICES ASSUME NEW i \in Running, NEW j \in Running, i < j
               PROVE  /\ ~Dependent(i, j)
                      /\ main = "await" =>
                           RowsOf(ReadsOf(plan[i]) \cap WritesOf(plan[j])) \subseteq store
    BY DEF InFlightStepsDoNotDisturb
  <2> USE <1>1
  <2>1. i \in Steps /\ j \in Steps /\ ~Dependent(i, j)
    BY DependencyDone DEF Running
  <2>2. ASSUME main = "await", NEW r \in ReadsOf(plan[i]), r \in WritesOf(plan[j])
        PROVE  RowsOf({r}) \subseteq store
    <3>1. ~plan[i].path
      BY <2>1 DEF Dependent
    <3>2. plan \in Plans /\ i \in DOMAIN plan
      BY <2>1 DEF TypeOK, Steps
    <3>3. WellFormed(plan)
      BY <3>2, PlansAssumption
    <3>4. Len(plan[i].rounds) = 1
      BY <3>1, <3>2, <3>3 DEF WellFormed
    <3>5. DOMAIN plan[i].rounds = 1..1
      BY <2>1, <3>4, StepFacts DEF TypeOK
    <3>6. r \in plan[i].rounds[1].reads
      BY <2>2, <3>5 DEF ReadsOf
    <3>7. PICK k \in 1..(i-1) : r \in WritesOf(plan[k])
      BY <3>2, <3>3, <3>5, <3>6 DEF WellFormed
    <3>8. k \in Steps /\ k < i
      BY <2>1, <3>7, StepFacts DEF TypeOK
    <3> QED BY <2>1, <2>2, <3>7, <3>8, EarlierWrites DEF Building, Running
  <2> QED BY <2>1, <2>2 DEF RowsOf
<1> QED BY <1>1, TypeInit, TypeStep, ScheduleInit, ScheduleStepInv, PhaseInit, PhaseStep,
           StoreInit, StoreStep, PTL DEF Spec
-----------------------------------------------------------------------------
(* The circuit                                                              *)

\* What round h of step j emits on complete relations.
GatesOf(j, h) == {<<j, h, x>> : x \in Chunks}

\* Until the cleanup starts: a plain step holds exactly its gates until they are
\* merged, and a path step has put the gates of every round it ran into the
\* circuit.
CircuitInv ==
    /\ circuit \subseteq SequentialCircuit
    /\ \A j \in Steps : gates[j] \subseteq SequentialCircuit
    /\ Building => \A j \in Steps :
          /\ ~plan[j].path /\ pc[j] \in {"writing", "done"} => gates[j] = GatesOf(j, round[j])
          /\ ~plan[j].path /\ main # "schedule" /\ level[j] < current => gates[j] \subseteq circuit
          /\ plan[j].path => \A h \in DOMAIN plan[j].rounds :
                RoundDone(j, h) \/ (h = round[j] /\ pc[j] = "writing")
                   => GatesOf(j, h) \subseteq circuit
    /\ main \in {"cleanup", "done"} /\ ~aborted => circuit = SequentialCircuit

LEMMA EmittedInSequential ==
    ASSUME TypeOK, NEW j \in Steps, NEW S
    PROVE  Emitted(j, S) \subseteq SequentialCircuit
<1>1. round[j] \in DOMAIN plan[j].rounds
  BY DEF TypeOK
<1>2. Emitted(j, S) \subseteq {<<j, k, x>> : k \in DOMAIN plan[j].rounds, x \in Chunks}
  BY <1>1 DEF Emitted, Derived
<1> QED BY <1>2 DEF SequentialCircuit

\* What finishing a query does to the gates.
LEMMA FinishedGates ==
    ASSUME TypeOK, StoreInv, NEW j \in Steps, FinishQuery(j)
    PROVE  \E new \in SUBSET SequentialCircuit :
              /\ IF plan[j].path THEN circuit' = circuit \cup new /\ gates' = gates
                                 ELSE gates' = [gates EXCEPT ![j] = new] /\ circuit' = circuit
              /\ Building => new = GatesOf(j, round[j])
<1>1. PICK extra \in SUBSET ((store \cap RowsOf(RoundOf(j).reads)) \ seen[j]) :
         LET new == Emitted(j, seen[j] \cup extra)
         IN  IF plan[j].path THEN circuit' = circuit \cup new /\ UNCHANGED gates
                             ELSE gates' = [gates EXCEPT ![j] = new] /\ UNCHANGED circuit
  BY DEF FinishQuery
<1>2. Emitted(j, seen[j] \cup extra) \subseteq SequentialCircuit
  BY EmittedInSequential
<1>3. pc[j] = "querying"
  BY DEF FinishQuery
<1>4. Building => Emitted(j, seen[j] \cup extra) = GatesOf(j, round[j])
  BY <1>3, CompleteAnswer DEF GatesOf
<1> QED BY <1>1, <1>2, <1>4

LEMMA CircuitStep ==
    TypeOK /\ ScheduleInv /\ PhaseInv /\ StoreInv /\ CircuitInv /\ [Next]_vars => CircuitInv'
<1> SUFFICES ASSUME TypeOK, ScheduleInv, PhaseInv, StoreInv, CircuitInv, [Next]_vars
             PROVE  CircuitInv'
  OBVIOUS
<1>0. plan' = plan => SequentialCircuit' = SequentialCircuit /\ Steps' = Steps
  BY DEF SequentialCircuit, Steps
<1>1. ASSUME UNCHANGED <<plan, gates, circuit, aborted>>, ~Building',
             main' \in {"cleanup", "done"} => main \in {"cleanup", "done"}
      PROVE  CircuitInv'
  BY <1>0, <1>1 DEF CircuitInv
<1>2. CASE ScheduleStep \/ BeginLevels \/ LandLate
  <2>1. /\ UNCHANGED <<plan, gates, circuit, aborted, pc, round, current>>
        /\ \/ main' = main
           \/ main = "schedule" /\ main' = "level"
        /\ main # "schedule" => level' = level
    BY <1>2 DEF ScheduleStep, BeginLevels, LandLate, taskVars, scheduleVars
  <2>2. main = "schedule" => \A j \in Steps : ~(level[j] < current)
    BY DEF TypeOK, PhaseInv
  <2>3. main' # "schedule" => level' = level
    BY <1>2, <2>1 DEF ScheduleStep, BeginLevels, LandLate, taskVars, scheduleVars
  <2> QED BY <1>0, <2>1, <2>2, <2>3 DEF CircuitInv, RoundDone, Building
<1>3. CASE SubmitLevel
  <2>1. /\ UNCHANGED <<plan, gates, circuit, aborted, round, level, current>>
        /\ main = "level" /\ main' = "await"
        /\ \A j \in Steps : pc'[j] \in {"queued", pc[j]}
    BY <1>3 DEF SubmitLevel, Steps, scheduleVars
  <2> QED BY <1>0, <2>1 DEF CircuitInv, RoundDone, Building
<1>4. CASE LevelsDone
  <2>1. /\ UNCHANGED <<plan, gates, circuit>> /\ main = "level" /\ main' = "cleanup"
        /\ \A j \in Steps : level[j] < current
    BY <1>4 DEF LevelsDone, BeginCleanup, taskVars
  <2>2. \A j \in Steps : pc[j] = "done" /\ round[j] = Len(plan[j].rounds)
    BY <2>1 DEF PhaseInv, StoreInv
  <2>3. ASSUME NEW j \in Steps, NEW h \in DOMAIN plan[j].rounds
        PROVE  GatesOf(j, h) \subseteq circuit
    <3>1. h \in 1..round[j] /\ round[j] \in Nat
      BY <2>2, StepFacts DEF TypeOK
    <3>2. CASE plan[j].path
      BY <2>1, <2>2, <3>1, <3>2 DEF CircuitInv, RoundDone, Building
    <3>3. CASE ~plan[j].path
      <4>1. h = round[j]
        BY <2>2, <3>1, <3>3, StepKinds DEF TypeOK
      <4> QED BY <2>1, <2>2, <3>3, <4>1 DEF CircuitInv, Building
    <3> QED BY <3>2, <3>3
  <2>4. SequentialCircuit \subseteq circuit
    BY <2>3 DEF SequentialCircuit, GatesOf
  <2> QED BY <1>0, <2>1, <2>4 DEF CircuitInv, Building
<1>5. CASE AwaitLevel
  <2>1. /\ UNCHANGED <<plan, gates, pc, round, level>>
        /\ circuit' = circuit \cup UNION {gates[j] : j \in Group(current)}
        /\ current' = current + 1 /\ main = "await" /\ main' = "level"
    BY <1>5 DEF AwaitLevel, taskVars, scheduleVars
  <2>2. UNION {gates[j] : j \in Group(current)} \subseteq SequentialCircuit
    BY DEF CircuitInv, Group
  <2>3. ASSUME NEW j \in Steps, level[j] < current'
        PROVE  level[j] < current \/ gates[j] \subseteq circuit'
    <3>1. level[j] < current \/ level[j] = current
      BY <2>1, <2>3 DEF TypeOK
    <3> QED BY <2>1, <3>1 DEF Group
  <2> QED BY <1>0, <2>1, <2>2, <2>3 DEF CircuitInv, RoundDone, Building
<1>6. CASE LevelFails \/ Interrupt
  BY <1>0, <1>6 DEF LevelFails, Interrupt, BeginCleanup, taskVars, CircuitInv, Building
<1>7. CASE RemoveChunk \/ RemoveFails \/ CleanupDone
  BY <1>1, <1>7 DEF RemoveChunk, RemoveFails, CleanupDone, taskVars, Building
<1>8. CASE UNCHANGED vars
  BY <1>0, <1>8 DEF vars, taskVars, scheduleVars, CircuitInv, RoundDone, Building
<1>9. ASSUME NEW j \in Steps, TaskStep(j) PROVE CircuitInv'
  <2>1. /\ UNCHANGED <<plan, main, level, current, aborted>>
        /\ \A i \in Steps : i # j => /\ pc'[i] = pc[i] /\ round'[i] = round[i]
                                     /\ gates'[i] = gates[i]
        /\ pc[j] \in {"queued", "querying", "writing"}
    BY <1>9, TaskStepFrame, TaskDataFrame DEF scheduleVars
  <2>2. /\ round[j] \in Nat /\ \A h \in DOMAIN plan[j].rounds : h \in Nat
        /\ round[j] \in DOMAIN plan[j].rounds
    BY StepFacts DEF TypeOK
  <2>3. main # "schedule" => level[j] = current
    <3>1. level[j] \in Nat /\ current \in Nat
      BY DEF TypeOK
    <3> QED BY <2>1, <3>1 DEF PhaseInv
  \* What has to be shown of the step that moves.
  <2>4. ASSUME circuit \subseteq circuit', circuit' \subseteq SequentialCircuit,
               gates'[j] \subseteq SequentialCircuit,
               Building => /\ ~plan[j].path /\ pc'[j] \in {"writing", "done"}
                                 => gates'[j] = GatesOf(j, round'[j])
                           /\ plan[j].path => \A h \in DOMAIN plan[j].rounds :
                                 RoundDone(j, h)' \/ (h = round'[j] /\ pc'[j] = "writing")
                                    => GatesOf(j, h) \subseteq circuit'
        PROVE  CircuitInv'
    <3>1. ASSUME NEW i \in Steps, i # j, Building
          PROVE  /\ ~plan[i].path /\ pc'[i] \in {"writing", "done"}
                       => gates'[i] = GatesOf(i, round'[i])
                 /\ ~plan[i].path /\ main # "schedule" /\ level[i] < current
                       => gates'[i] \subseteq circuit'
                 /\ plan[i].path => \A h \in DOMAIN plan[i].rounds :
                       RoundDone(i, h)' \/ (h = round'[i] /\ pc'[i] = "writing")
                          => GatesOf(i, h) \subseteq circuit'
      BY <2>1, <2>4, <3>1 DEF CircuitInv, RoundDone
    <3>2. \A i \in Steps : gates'[i] \subseteq SequentialCircuit
      BY <2>1, <2>4 DEF CircuitInv
    <3>3. main # "schedule" => ~(level[j] < current)
      BY <2>3 DEF TypeOK
    <3>4. main \in {"cleanup", "done"} /\ ~aborted => circuit' = SequentialCircuit
      BY <2>4 DEF CircuitInv
    <3>5. Building' <=> Building
      BY <2>1 DEF Building
    <3> QED BY <1>0, <2>1, <2>4, <3>1, <3>2, <3>3, <3>4, <3>5 DEF CircuitInv, GatesOf
  <2>5. CASE FinishQuery(j)
    <3>1. PICK new \in SUBSET SequentialCircuit :
             /\ IF plan[j].path THEN circuit' = circuit \cup new /\ gates' = gates
                                ELSE gates' = [gates EXCEPT ![j] = new] /\ circuit' = circuit
             /\ Building => new = GatesOf(j, round[j])
      BY <2>5, FinishedGates
    <3>2. /\ pc[j] = "querying"
          /\ \/ pc'[j] = "writing" /\ round'[j] = round[j]
             \/ pc'[j] = NextPc(j) /\ round'[j] = NextRound(j)
      BY <2>5 DEF FinishQuery, TypeOK
    <3>3. CASE plan[j].path
      <4>1. Building => \A h \in DOMAIN plan[j].rounds :
               h < round[j] \/ h = round[j] => GatesOf(j, h) \subseteq circuit'
        BY <2>2, <3>1, <3>3 DEF CircuitInv, RoundDone
      <4>2. \A h \in DOMAIN plan[j].rounds :
               RoundDone(j, h)' \/ (h = round'[j] /\ pc'[j] = "writing")
                  => h < round[j] \/ h = round[j]
        BY <2>2, <3>2, RoundEnd DEF RoundDone
      <4> QED BY <2>4, <3>1, <3>3, <4>1, <4>2 DEF CircuitInv
    <3>4. CASE ~plan[j].path
      <4>1. gates'[j] = new /\ circuit' = circuit
        BY <3>1, <3>4 DEF TypeOK
      <4>2. pc'[j] \in {"writing", "done"} => round'[j] = round[j]
        BY <3>2, RoundEnd
      <4> QED BY <2>4, <3>1, <3>4, <4>1, <4>2 DEF CircuitInv
    <3> QED BY <3>3, <3>4
  <2>6. CASE BeginQuery(j) \/ QueryFails(j) \/ WriteFails(j)
    <3>1. /\ UNCHANGED <<gates, circuit, round>> /\ pc'[j] \in {"querying", "failed"}
      BY <2>6 DEF BeginQuery, QueryFails, WriteFails, TypeOK
    <3> QED BY <2>1, <2>4, <3>1 DEF CircuitInv, RoundDone
  <2>7. CASE WriteChunk(j)
    <3>1. /\ UNCHANGED <<gates, circuit>> /\ pc[j] = "writing"
          /\ \/ pc'[j] = NextPc(j) /\ round'[j] = NextRound(j)
             \/ pc'[j] = pc[j] /\ round'[j] = round[j]
      BY <2>7 DEF WriteChunk, TypeOK
    <3>2. \A h \in DOMAIN plan[j].rounds :
             RoundDone(j, h)' \/ (h = round'[j] /\ pc'[j] = "writing")
                => h < round[j] \/ h = round[j]
      BY <2>2, <3>1, RoundEnd DEF RoundDone
    <3>3. Building /\ plan[j].path => \A h \in DOMAIN plan[j].rounds :
             h < round[j] \/ h = round[j] => GatesOf(j, h) \subseteq circuit
      BY <3>1 DEF CircuitInv, RoundDone
    <3>4. pc'[j] \in {"writing", "done"} => round'[j] = round[j]
      BY <3>1, RoundEnd
    <3> QED BY <2>4, <3>1, <3>2, <3>3, <3>4 DEF CircuitInv
  <2> QED BY <1>9, <2>5, <2>6, <2>7 DEF TaskStep
<1> QED BY <1>2, <1>3, <1>4, <1>5, <1>6, <1>7, <1>8, <1>9 DEF Next, MainStep, Terminated

LEMMA CircuitInit == Init => CircuitInv
<1> SUFFICES ASSUME Init PROVE CircuitInv OBVIOUS
<1>1. \A j \in Steps : round[j] = 1 /\ pc[j] = "idle" /\ gates[j] = {}
  BY DEF Init
<1>2. \A j \in Steps : \A h \in DOMAIN plan[j].rounds : h \in Nat /\ h >= 1
  BY StepFacts DEF Init
<1>3. main = "schedule" /\ circuit = {}
  BY DEF Init
<1> QED BY <1>1, <1>2, <1>3 DEF CircuitInv, RoundDone

\* For every plan, every parallelism and every interleaving: a run that does not
\* fail ends with exactly the circuit that the plan denotes.
THEOREM CircuitExact == Spec => []CircuitIsSequential
<1>1. CircuitInv => CircuitIsSequential
  BY DEF CircuitInv, CircuitIsSequential
<1> QED BY <1>1, TypeInit, TypeStep, ScheduleInit, ScheduleStepInv, PhaseInit, PhaseStep,
           StoreInit, StoreStep, CircuitInit, CircuitStep, PTL DEF Spec
-----------------------------------------------------------------------------
(* Construction is implemented                                               *)

\* Once the cleanup has started no path step is in flight, not even after an
\* interrupt: only a level of several steps is awaited, and a path step is alone.
PathQuiet ==
    main \in {"cleanup", "done"} =>
        \A j \in Steps : plan[j].path => pc[j] \notin {"queued", "querying", "writing"}

LEMMA PathAlone ==
    ASSUME TypeOK, ScheduleInv, main # "schedule", NEW j \in Steps, plan[j].path,
           level[j] = current
    PROVE  Group(current) = {j}
<1>1. scheduled = Len(plan)
  BY DEF ScheduleInv
<1>2. ASSUME NEW i \in Steps, i # j PROVE level[i] # level[j]
  <2>1. i \in 1..Len(plan) /\ j \in 1..Len(plan) /\ i \in Nat /\ j \in Nat
    BY StepFacts DEF TypeOK
  <2>2. Dependent(i, j) /\ Dependent(j, i)
    BY DEF Dependent
  <2>3. level[i] < level[j] \/ level[j] < level[i]
    BY <1>1, <1>2, <2>1, <2>2 DEF ScheduleInv, LevelsRespectDependencies
  <2> QED BY <2>3 DEF TypeOK
<1> QED BY <1>2 DEF Group

LEMMA PathQuietStep ==
    TypeOK /\ ScheduleInv /\ PhaseInv /\ PathQuiet /\ [Next]_vars => PathQuiet'
<1> SUFFICES ASSUME TypeOK, ScheduleInv, PhaseInv, PathQuiet, [Next]_vars PROVE PathQuiet'
  OBVIOUS
<1>1. ASSUME UNCHANGED <<plan, pc>>, main \in {"level", "await"},
             \A j \in Group(current) : plan[j].path => pc[j] \notin {"queued", "querying", "writing"}
      PROVE  PathQuiet'
  <2> SUFFICES ASSUME NEW j \in Steps, pc[j] \in {"queued", "querying", "writing"}, plan[j].path
               PROVE  FALSE
    BY <1>1 DEF PathQuiet, Steps
  <2>1. level[j] = current
    <3>1. level[j] \in Nat /\ current \in Nat
      BY DEF TypeOK
    <3> QED BY <1>1, <3>1 DEF PhaseInv
  <2> QED BY <1>1, <2>1 DEF Group
<1>2. CASE LevelsDone
  <2>1. UNCHANGED <<plan, pc>> /\ main = "level" /\ \A j \in Steps : level[j] < current
    BY <1>2 DEF LevelsDone, taskVars
  <2>2. Group(current) = {}
    BY <2>1 DEF Group, TypeOK
  <2> QED BY <1>1, <2>1, <2>2
<1>3. CASE LevelFails
  BY <1>1, <1>3 DEF LevelFails, LevelSettled, Settled, taskVars
<1>4. CASE Interrupt
  <2>1. UNCHANGED <<plan, pc>> /\ main = "await" /\ Cardinality(Group(current)) > 1
    BY <1>4 DEF Interrupt, taskVars
  <2>2. ASSUME NEW j \in Group(current), plan[j].path PROVE FALSE
    <3>1. Group(current) = {j}
      BY <2>1, <2>2, PathAlone DEF Group
    <3> QED BY <2>1, <3>1, FS_Singleton
  <2> QED BY <1>1, <2>1, <2>2
<1>5. ASSUME NEW j \in Steps, TaskStep(j) PROVE PathQuiet'
  <2>1. /\ UNCHANGED <<plan, main>> /\ pc[j] \in {"queued", "querying", "writing"}
        /\ \A i \in Steps : i # j => pc'[i] = pc[i]
    BY <1>5, TaskStepFrame
  <2> QED BY <2>1 DEF PathQuiet, Steps
<1>6. CASE ScheduleStep \/ BeginLevels \/ SubmitLevel \/ AwaitLevel
  BY <1>6 DEF ScheduleStep, BeginLevels, SubmitLevel, AwaitLevel, PathQuiet
<1>7. CASE RemoveChunk \/ RemoveFails \/ CleanupDone \/ LandLate \/ UNCHANGED vars
  BY <1>7 DEF RemoveChunk, RemoveFails, CleanupDone, LandLate, vars, taskVars, PathQuiet, Steps
<1> QED BY <1>2, <1>3, <1>4, <1>5, <1>6, <1>7 DEF Next, MainStep, Terminated

\* Each step of plan execution is a step of Construction, or a stutter.
LEMMA PromiseStep ==
    /\ TypeOK /\ ScheduleInv /\ PhaseInv /\ StoreInv /\ CircuitInv /\ PathQuiet
    /\ CircuitInv' /\ [Next]_vars
    => [Promise!Next]_(Promise!vars)
<1> SUFFICES ASSUME TypeOK, ScheduleInv, PhaseInv, StoreInv, CircuitInv, PathQuiet,
                    CircuitInv', [Next]_vars
             PROVE  [Promise!Next]_(Promise!vars)
  OBVIOUS
<1> DEFINE outcome == IF main \notin {"cleanup", "done"} THEN "running"
                      ELSE IF aborted THEN "aborted" ELSE "complete"
<1>0. plan' = plan => SequentialCircuit' = SequentialCircuit
  BY DEF SequentialCircuit, Steps
<1>1. ASSUME UNCHANGED <<plan, circuit>>, outcome' = outcome
      PROVE  UNCHANGED Promise!vars
  BY <1>0, <1>1 DEF Promise!vars
<1>2. ASSUME plan' = plan, circuit \subseteq circuit', outcome = "running", outcome' = outcome
      PROVE  Promise!Accumulate
  BY <1>0, <1>2 DEF Promise!Accumulate, CircuitInv
<1>3. CASE ScheduleStep \/ BeginLevels \/ SubmitLevel
  BY <1>1, <1>3 DEF ScheduleStep, BeginLevels, SubmitLevel
<1>4. CASE LevelsDone
  <2>1. /\ UNCHANGED <<plan, circuit>> /\ main = "level"
        /\ main' = "cleanup" /\ aborted' = FALSE
    BY <1>4 DEF LevelsDone, BeginCleanup
  <2>2. circuit' = SequentialCircuit'
    BY <2>1 DEF CircuitInv
  <2> QED BY <1>0, <2>1, <2>2 DEF Promise!Next, Promise!Complete
<1>5. CASE AwaitLevel
  BY <1>2, <1>5 DEF AwaitLevel, Promise!Next
<1>6. CASE LevelFails \/ Interrupt
  <2>1. /\ UNCHANGED <<plan, circuit>> /\ main = "await"
        /\ main' = "cleanup" /\ aborted' = TRUE
    BY <1>6 DEF LevelFails, Interrupt, BeginCleanup
  <2> QED BY <1>0, <2>1 DEF Promise!Next, Promise!Abort
<1>7. CASE RemoveChunk \/ RemoveFails \/ CleanupDone \/ LandLate \/ UNCHANGED vars
  BY <1>1, <1>7 DEF RemoveChunk, RemoveFails, CleanupDone, LandLate, vars
<1>8. ASSUME NEW j \in Steps, TaskStep(j) PROVE [Promise!Next]_(Promise!vars)
  <2>1. outcome' = outcome /\ plan' = plan
    BY <1>8, TaskStepFrame
  <2>2. CASE FinishQuery(j)
    <3>1. circuit \subseteq circuit' /\ (~plan[j].path => circuit' = circuit) /\ pc[j] = "querying"
      BY <2>2, FinishedGates DEF FinishQuery
    <3>2. outcome = "running" \/ circuit' = circuit
      BY <3>1 DEF PathQuiet
    <3> HIDE DEF outcome
    <3> QED BY <1>1, <1>2, <2>1, <3>1, <3>2 DEF Promise!Next
  <2>3. CASE BeginQuery(j) \/ QueryFails(j) \/ WriteChunk(j) \/ WriteFails(j)
    <3>1. circuit' = circuit
      BY <2>3 DEF BeginQuery, QueryFails, WriteChunk, WriteFails
    <3> QED BY <1>1, <2>1, <3>1
  <2> QED BY <1>8, <2>2, <2>3 DEF TaskStep
<1> QED BY <1>3, <1>4, <1>5, <1>6, <1>7, <1>8 DEF Next, MainStep, Terminated

\* Plan execution implements Construction, its fairness aside: the circuit only
\* ever grows towards the wanted one, and a run that reports completion has all
\* of it, whatever the schedule, the faults and the interrupts.
THEOREM ImplementsConstruction == Spec => Promise!Init /\ [][Promise!Next]_(Promise!vars)
<1>1. Init => Promise!Init
  BY DEF Init, Promise!Init
<1>2. Init => PathQuiet
  BY DEF Init, PathQuiet
<1> QED BY <1>1, <1>2, TypeInit, TypeStep, ScheduleInit, ScheduleStepInv, PhaseInit, PhaseStep,
           StoreInit, StoreStep, CircuitInit, CircuitStep, PathQuietStep, PromiseStep,
           PTL DEF Spec

-----------------------------------------------------------------------------
(* The cleanup                                                              *)

LEMMA CleanupAloneStep ==
    ~MayInterrupt /\ TypeOK /\ PhaseInv /\ CleanupRunsAlone /\ [Next]_vars => CleanupRunsAlone'
<1> SUFFICES ASSUME ~MayInterrupt, TypeOK, PhaseInv, CleanupRunsAlone, [Next]_vars
             PROVE  CleanupRunsAlone'
  OBVIOUS
<1> USE DEF CleanupRunsAlone, Settled
<1>1. CASE LevelsDone
  BY <1>1 DEF LevelsDone, taskVars, Steps, PhaseInv
<1>2. CASE LevelFails
  <2>1. /\ UNCHANGED <<plan, pc>> /\ main = "await"
        /\ \A j \in Steps : level[j] = current => Settled(j)
    BY <1>2 DEF LevelFails, LevelSettled, taskVars, Group
  <2>2. \A j \in Steps : level[j] \in Nat /\ current \in Nat
    BY DEF TypeOK
  <2> QED BY <2>1, <2>2 DEF PhaseInv, Steps
<1>3. ASSUME NEW j \in Steps, TaskStep(j) PROVE CleanupRunsAlone'
  BY <1>3, TaskStepFrame DEF Steps
<1>4. CASE ScheduleStep \/ BeginLevels \/ SubmitLevel \/ AwaitLevel
  BY <1>4 DEF ScheduleStep, BeginLevels, SubmitLevel, AwaitLevel
<1>5. CASE RemoveChunk \/ RemoveFails \/ CleanupDone \/ LandLate \/ UNCHANGED vars
  BY <1>5 DEF RemoveChunk, RemoveFails, CleanupDone, LandLate, vars, taskVars, Steps
<1> QED BY <1>1, <1>2, <1>3, <1>4, <1>5 DEF Next, MainStep, Terminated, Interrupt

\* Unless the caller is interrupted, no task runs once the cleanup has started.
THEOREM CleanupAlone ==
    ASSUME ~MayInterrupt
    PROVE  Spec => []CleanupRunsAlone
<1>1. Init => CleanupRunsAlone
  BY DEF Init, CleanupRunsAlone
<1>2. TypeOK /\ PhaseInv /\ CleanupRunsAlone /\ [Next]_vars => CleanupRunsAlone'
  BY CleanupAloneStep
<1> QED BY <1>1, <1>2, TypeInit, TypeStep, ScheduleInit, ScheduleStepInv, PhaseInit, PhaseStep,
           PTL DEF Spec

\* What the cleanup has still to remove covers what is on the endpoint.
ResidueInv ==
    /\ late = {}
    /\ main = "cleanup" => store \subseteq removing
    /\ NoResidue

LEMMA ResidueStep ==
    ~LateCommit /\ TypeOK /\ RegisteredInv /\ CleanupRunsAlone /\ ResidueInv /\ [Next]_vars
    => ResidueInv'
<1> SUFFICES ASSUME ~LateCommit, TypeOK, RegisteredInv, CleanupRunsAlone, ResidueInv, [Next]_vars
             PROVE  ResidueInv'
  OBVIOUS
<1> USE DEF ResidueInv, NoResidue
<1>1. CASE LevelsDone \/ LevelFails \/ Interrupt
  <2>1. store \subseteq workspace
    BY DEF RegisteredInv, RegisteredBeforeWritten
  <2> QED BY <1>1, <2>1 DEF LevelsDone, LevelFails, Interrupt, BeginCleanup
<1>2. ASSUME NEW j \in Steps, TaskStep(j) PROVE ResidueInv'
  <2>1. main' = main /\ main \notin {"cleanup", "done"}
    BY <1>2, TaskStepFrame DEF CleanupRunsAlone, Settled
  <2>2. late' = late
    BY <1>2 DEF TaskStep, BeginQuery, FinishQuery, QueryFails, WriteChunk, WriteFails
  <2> QED BY <2>1, <2>2
<1>3. CASE ScheduleStep \/ BeginLevels \/ SubmitLevel \/ AwaitLevel
  BY <1>3 DEF ScheduleStep, BeginLevels, SubmitLevel, AwaitLevel
<1>4. CASE RemoveChunk
  BY <1>4 DEF RemoveChunk, RemoveRow
<1>5. CASE RemoveFails \/ CleanupDone \/ LandLate \/ UNCHANGED vars
  BY <1>5 DEF RemoveFails, CleanupDone, LandLate, vars, cleanupVars
<1> QED BY <1>1, <1>2, <1>3, <1>4, <1>5 DEF Next, MainStep, Terminated

\* Unless the caller is interrupted or the server applies an update after its
\* client gave up on it, a cleanup that succeeds leaves nothing behind.
THEOREM CleanupComplete ==
    ASSUME ~MayInterrupt, ~LateCommit
    PROVE  Spec => []NoResidue
<1>1. Init => RegisteredInv /\ CleanupRunsAlone /\ ResidueInv
  BY DEF Init, RegisteredInv, RegisteredBeforeWritten, CleanupRunsAlone, ResidueInv, NoResidue
<1>2. TypeOK /\ PhaseInv /\ CleanupRunsAlone /\ [Next]_vars => CleanupRunsAlone'
  BY CleanupAloneStep
<1>3. TypeOK /\ RegisteredInv /\ CleanupRunsAlone /\ ResidueInv /\ [Next]_vars => ResidueInv'
  BY ResidueStep
<1>4. ResidueInv => NoResidue
  BY DEF ResidueInv
<1> QED BY <1>1, <1>2, <1>3, <1>4, TypeInit, TypeStep, ScheduleInit, ScheduleStepInv, PhaseInit,
           PhaseStep, RegisteredStep, PTL DEF Spec
=============================================================================
