------------------------- MODULE EndpointRunsProofs -------------------------
(***************************************************************************)
(* Theorems about EndpointRuns for every set of runs, queries and settings, *)
(* with and without failing requests, kills, late updates and recovery.     *)
(***************************************************************************)
EXTENDS EndpointRuns, TLAPS

USE DEF settings

-----------------------------------------------------------------------------
(* Type correctness                                                         *)

\* The cleanup is given up after its second failure.
RetryInv == \A r \in Runs : phase[r] \notin Terminal => attempts[r] < 2

TypeInv == TypeOK /\ RetryInv

\* A route feeds back at most three batches.
LEMMA ItemsType ==
    ASSUME TypeOK, NEW r \in Runs
    PROVE  /\ config[r] \in Config
           /\ DOMAIN Items(config[r].route) \subseteq 1..3
<1>1. config[r] \in Config
  BY EndpointAssumption DEF TypeOK
<1>2. config[r].route \in {"flat", "factorised", "closure", "path"}
  BY <1>1 DEF Config, Routes
<1> QED BY <1>1, <1>2 DEF Items

LEMMA TypeInit == Init => TypeInv
BY DEF Init, TypeInv, TypeOK, RetryInv, Terminal

\* What a run removes is among its rows, and among the triples of circuits.
LEMMA RemovalType ==
    ASSUME TypeOK, NEW r \in Runs
    PROVE  /\ RemovedRows(r) \in SUBSET (1..3) /\ RemovedRows(r) \subseteq workspace[r]
           /\ RemovedTriples(r) \in SUBSET Triples
<1>1. /\ config[r].query \in QueryTexts /\ config[r].route \in Routes
      /\ workspace[r] \in SUBSET (1..3)
  BY ItemsType DEF Config, TypeOK
<1> QED BY <1>1, EndpointAssumption DEF RemovedRows, RemovedTriples

\* What a client gives up on is a row of its own.
LEMMA UncertainType ==
    ASSUME TypeOK, NEW r \in Runs, Uncertain(r)
    PROVE  /\ rows' \subseteq rows \cup Own(r, todo[r])
           /\ late' \subseteq late \cup Own(r, todo[r])
           /\ rows \subseteq rows' /\ late \subseteq late'
           /\ rows' \subseteq AllRows /\ late' \subseteq AllRows
<1>1. InFlight(r) \subseteq Own(r, todo[r])
  BY DEF InFlight
<1>2. todo[r] \subseteq 1..3
  BY DEF TypeOK
<1>3. Own(r, todo[r]) \subseteq AllRows
  BY <1>2 DEF Own, AllRows
<1> QED BY <1>1, <1>3 DEF Uncertain, TypeOK

\* The actions of the construction keep the types.
LEMMA TypeConstruction ==
    ASSUME TypeInv, NEW r \in Runs,
           Construct(r) \/ AddBatch(r) \/ ConstructionFails(r) \/ ConstructionDone(r)
    PROVE  TypeInv'
<1> USE DEF TypeInv
<1>1. CASE Construct(r)
  <2>1. DOMAIN Items(config[r].route) \in SUBSET (1..3)
    BY ItemsType
  <2> DEFINE D == DOMAIN Items(config[r].route)
  <2> HIDE DEF D
  <2>2. /\ workspace' = [workspace EXCEPT ![r] = D] /\ todo' = [todo EXCEPT ![r] = D]
        /\ phase' = [phase EXCEPT ![r] = "write"] /\ phase[r] = "construct"
        /\ UNCHANGED <<settings, shed, aborted, attempts, reported, rows, late>>
        /\ UNCHANGED <<graphs, recovery>>
    BY <1>1 DEF Construct, D
  <2>3. D \in SUBSET (1..3)
    BY <2>1 DEF D
  <2>4. \A s \in Runs : todo'[s] \subseteq workspace'[s]
    BY <2>2 DEF TypeOK
  <2>5. \A s \in Runs : workspace'[s] \subseteq DOMAIN Items(config'[s].route)
    BY <2>2 DEF TypeOK, D
  <2> QED BY <2>2, <2>3, <2>4, <2>5 DEF TypeOK, RetryInv, Terminal
<1>2. CASE AddBatch(r)
  <2>1. PICK i \in todo[r] : rows' = rows \cup {<<r, i>>} /\ todo' = [todo EXCEPT ![r] = @ \ {i}]
    BY <1>2 DEF AddBatch
  <2>2. <<r, i>> \in AllRows
    BY DEF TypeOK, AllRows
  <2> QED BY <1>2, <2>1, <2>2 DEF AddBatch, TypeOK, RetryInv
<1>3. CASE ConstructionFails(r)
  <2>1. rows' \subseteq AllRows /\ late' \subseteq AllRows
    BY <1>3, UncertainType DEF ConstructionFails
  <2> QED BY <1>3, <2>1 DEF ConstructionFails, AfterConstruction, TypeOK, RetryInv, Terminal
<1>4. CASE ConstructionDone(r)
  BY <1>4 DEF ConstructionDone, AfterConstruction, TypeOK, RetryInv, Terminal
<1> QED BY <1>1, <1>2, <1>3, <1>4

\* So do those of the finally block and of persisting the circuit.
LEMMA TypeUnwind ==
    ASSUME TypeInv, NEW r \in Runs,
           \/ UnwindBatch(r) \/ UnwindFails(r) \/ Unwound(r)
           \/ Persist(r) \/ PersistFails(r)
    PROVE  TypeInv'
<1> USE DEF TypeInv
<1>1. CASE UnwindBatch(r)
  BY <1>1 DEF UnwindBatch, TypeOK, RetryInv
<1>2. CASE UnwindFails(r)
  <2>1. rows' \subseteq rows
    BY <1>2 DEF UnwindFails
  <2> QED BY <1>2, <2>1 DEF UnwindFails, UnwindReports, TypeOK, RetryInv
<1>3. CASE Unwound(r)
  BY <1>3 DEF Unwound, TypeOK, RetryInv, Terminal
<1>4. CASE Persist(r)
  BY <1>4 DEF Persist, AfterPersist, TypeOK, RetryInv, Terminal
<1>5. CASE PersistFails(r)
  BY <1>5 DEF PersistFails, TypeOK, RetryInv, Terminal
<1> QED BY <1>1, <1>2, <1>3, <1>4, <1>5

\* So do those of the endpoint cleanup.
LEMMA TypeCleanup ==
    ASSUME TypeInv, NEW r \in Runs,
           ClearGraph(r) \/ RemoveBatch(r) \/ CleanupFails(r) \/ CleanupDone(r)
    PROVE  TypeInv'
<1> USE DEF TypeInv
<1>1. CASE ClearGraph(r)
  <2> DEFINE R == RemovedRows(r)
             T == RemovedTriples(r)
  <2>1. R \in SUBSET (1..3) /\ R \subseteq workspace[r] /\ T \in SUBSET Triples
    BY RemovalType
  <2>2. /\ todo' = [todo EXCEPT ![r] = R] /\ shed' = [shed EXCEPT ![r] = T]
        /\ phase' = [phase EXCEPT ![r] = "remove"] /\ phase[r] = "clear"
        /\ UNCHANGED <<settings, workspace, aborted, attempts, reported, rows, late, recovery>>
    BY <1>1 DEF ClearGraph
  <2> HIDE DEF R, T
  <2> QED BY <2>1, <2>2 DEF TypeOK, RetryInv, Terminal
<1>2. CASE RemoveBatch(r)
  <2>1. UNCHANGED <<settings, phase, workspace, aborted, attempts, reported, late, recovery>>
    BY <1>2 DEF RemoveBatch
  <2>2. CASE /\ \E i \in todo[r] : rows' = rows \ {<<r, i>>} /\ todo' = [todo EXCEPT ![r] = @ \ {i}]
             /\ UNCHANGED shed
    BY <2>1, <2>2 DEF TypeOK, RetryInv
  <2>3. CASE /\ \E t \in shed[r] : shed' = [shed EXCEPT ![r] = @ \ {t}]
             /\ UNCHANGED <<todo, rows>>
    BY <2>1, <2>3 DEF TypeOK, RetryInv
  <2> QED BY <1>2, <2>2, <2>3 DEF RemoveBatch
<1>3. CASE CleanupFails(r)
  <2>1. rows' \subseteq rows
    BY <1>3 DEF CleanupFails
  <2>2. attempts[r] \in 0..1
    BY <1>3 DEF CleanupFails, TypeOK, RetryInv, Terminal
  <2> QED BY <1>3, <2>1, <2>2 DEF CleanupFails, Retried, Attempts, TypeOK, RetryInv, Terminal
<1>4. CASE CleanupDone(r)
  BY <1>4 DEF CleanupDone, TypeOK, RetryInv, Terminal
<1> QED BY <1>1, <1>2, <1>3, <1>4

LEMMA TypeStep == TypeInv /\ [Next]_vars => TypeInv'
<1> SUFFICES ASSUME TypeInv, [Next]_vars PROVE TypeInv'
  OBVIOUS
<1> USE DEF TypeInv
<1>1. ASSUME NEW r \in Runs, Start(r) PROVE TypeInv'
  BY <1>1 DEF Start, TypeOK, RetryInv, Terminal
<1>2. ASSUME NEW r \in Runs, RunStep(r) PROVE TypeInv'
  BY <1>2, TypeConstruction, TypeUnwind, TypeCleanup DEF RunStep
<1>3. ASSUME NEW r \in Runs, Kill(r) PROVE TypeInv'
  <2>1. rows' \subseteq AllRows /\ late' \subseteq AllRows
    BY <1>3, UncertainType DEF Kill
  <2> QED BY <1>3, <2>1 DEF Kill, TypeOK, RetryInv, Terminal
<1>4. CASE ApplyLate
  BY <1>4 DEF ApplyLate, runVars, TypeOK, RetryInv
<1>5. CASE Recover
  BY <1>5 DEF Recover, runVars, TypeOK, RetryInv
<1>6. CASE Validate
  BY <1>6 DEF Validate, runVars, TypeOK, RetryInv
<1>7. CASE UNCHANGED vars
  BY <1>7 DEF vars, runVars, TypeOK, RetryInv
<1> QED BY <1>1, <1>2, <1>3, <1>4, <1>5, <1>6, <1>7 DEF Next, Finished

\* Type correctness of every run, and the bound of two on the cleanup attempts.
THEOREM EndpointTypeCorrect == Spec => []TypeOK
<1>1. TypeInv => TypeOK
  BY DEF TypeInv
<1> QED BY <1>1, TypeInit, TypeStep, PTL DEF Spec

-----------------------------------------------------------------------------
(* A clean exit means a clean store                                         *)

Ended == {"failed", "killed"}

\* The rows of run r that are on the endpoint are still to be removed.
Left(r, I) == \A i \in 1..3 : <<r, i>> \in rows => i \in I

\* Of one run: updates are on their way only if it can no longer exit cleanly, and
\* its rows are where its phase says, as long as it has met no failed cleanup.
CleanAt(r) ==
    /\ \A i \in 1..3 :
           <<r, i>> \in late => phase[r] \in Ended \/ (phase[r] = "unwind" /\ aborted[r])
    /\ phase[r] \in {"planned", "construct"} => Left(r, {})
    /\ phase[r] = "write" => Left(r, workspace[r])
    /\ phase[r] = "unwind" => IsPlan(r)
    /\ phase[r] = "unwind" /\ ~aborted[r] /\ reported[r] = {} => Left(r, todo[r])
    /\ phase[r] \in {"persist", "clear", "remove", "done"} /\ IsPlan(r) /\ reported[r] = {}
           => Left(r, {})
    /\ phase[r] \in {"persist", "clear"} /\ ~IsPlan(r) => Left(r, workspace[r])
    /\ phase[r] = "remove" /\ ~IsPlan(r) => Left(r, todo[r])
    /\ phase[r] = "done" /\ ~IsPlan(r) /\ config[r].cleanup /\ reported[r] = {}
           => Left(r, {})

CleanInv == \A r \in Runs : CleanAt(r)

LEMMA CleanInit == Init => CleanInv
BY DEF Init, CleanInv, CleanAt, Left

\* Another run's step leaves run s alone.
Untouched(s) ==
    /\ config'[s] = config[s] /\ phase'[s] = phase[s] /\ workspace'[s] = workspace[s]
    /\ todo'[s] = todo[s] /\ aborted'[s] = aborted[s] /\ reported'[s] = reported[s]
    /\ \A i \in 1..3 : /\ <<s, i>> \in rows' => <<s, i>> \in rows
                       /\ <<s, i>> \in late' => <<s, i>> \in late

LEMMA CleanFrame ==
    ASSUME NEW s \in Runs, Untouched(s), CleanAt(s)
    PROVE  CleanAt(s)'
BY DEF Untouched, CleanAt, Left, IsPlan

\* A step of run r touches no other run.
LEMMA OthersUntouched ==
    ASSUME TypeInv, NEW r \in Runs, NEW s \in Runs \ {r},
           Start(r) \/ RunStep(r) \/ Kill(r)
    PROVE  Untouched(s)
<1> USE DEF Untouched, TypeInv, TypeOK
<1>1. CASE Start(r)
  BY <1>1 DEF Start
<1>2. ASSUME Uncertain(r)
      PROVE  \A i \in 1..3 : /\ <<s, i>> \in rows' => <<s, i>> \in rows
                             /\ <<s, i>> \in late' => <<s, i>> \in late
  BY <1>2, UncertainType DEF Own
<1>3. CASE Kill(r)
  BY <1>2, <1>3 DEF Kill
<1>4. CASE ConstructionFails(r)
  BY <1>2, <1>4 DEF ConstructionFails, AfterConstruction
<1>5. CASE Construct(r) \/ AddBatch(r) \/ ConstructionDone(r)
  BY <1>5 DEF Construct, AddBatch, ConstructionDone, AfterConstruction
<1>6. CASE UnwindBatch(r) \/ UnwindFails(r) \/ Unwound(r)
  BY <1>6 DEF UnwindBatch, UnwindFails, Unwound
<1>7. CASE Persist(r) \/ PersistFails(r)
  BY <1>7 DEF Persist, PersistFails
<1>8. CASE ClearGraph(r) \/ RemoveBatch(r) \/ CleanupDone(r)
  BY <1>8 DEF ClearGraph, RemoveBatch, CleanupDone
<1>9. CASE CleanupFails(r)
  BY <1>9 DEF CleanupFails
<1> QED BY <1>1, <1>3, <1>4, <1>5, <1>6, <1>7, <1>8, <1>9 DEF RunStep

\* The construction keeps the invariant of its run.
LEMMA CleanConstruction ==
    ASSUME TypeInv, NEW r \in Runs, CleanAt(r),
           Construct(r) \/ AddBatch(r) \/ ConstructionFails(r) \/ ConstructionDone(r)
    PROVE  CleanAt(r)'
<1> USE DEF TypeInv
<1>0. todo[r] \subseteq workspace[r] /\ workspace[r] \subseteq 1..3
  BY DEF TypeOK
<1>1. CASE Construct(r)
  <2>1. phase'[r] = "write" /\ rows' = rows /\ late' = late /\ Left(r, {})
    BY <1>1 DEF Construct, TypeOK, CleanAt
  <2>2. phase[r] = "construct"
    BY <1>1 DEF Construct
  <2> QED BY <2>1, <2>2 DEF CleanAt, Left, Ended
<1>2. CASE AddBatch(r)
  <2>1. PICK i \in todo[r] : rows' = rows \cup {<<r, i>>}
    BY <1>2 DEF AddBatch
  <2>2. /\ phase[r] = "write" /\ phase' = phase /\ late' = late
        /\ workspace' = workspace
    BY <1>2 DEF AddBatch
  <2> QED BY <1>0, <2>1, <2>2 DEF CleanAt, Left, Ended
<1>3. CASE ConstructionFails(r)
  <2>1. \/ phase'[r] = "unwind" /\ aborted'[r] /\ IsPlan(r)'
        \/ phase'[r] = "failed"
    BY <1>3 DEF ConstructionFails, AfterConstruction, TypeOK, IsPlan
  <2> QED BY <2>1 DEF CleanAt, Ended
<1>4. CASE ConstructionDone(r)
  <2>1. /\ phase[r] = "write" /\ rows' = rows /\ late' = late /\ config' = config
        /\ workspace' = workspace /\ todo'[r] = workspace[r]
    BY <1>4 DEF ConstructionDone, TypeOK
  <2>2. \/ phase'[r] = "unwind" /\ IsPlan(r)
        \/ phase'[r] = "persist" /\ ~IsPlan(r)
    BY <1>4 DEF ConstructionDone, AfterConstruction, TypeOK
  <2> QED BY <2>1, <2>2 DEF CleanAt, Left, Ended, IsPlan
<1> QED BY <1>1, <1>2, <1>3, <1>4

\* So do the finally block and persisting.
LEMMA CleanUnwind ==
    ASSUME TypeInv, NEW r \in Runs, CleanAt(r),
           \/ UnwindBatch(r) \/ UnwindFails(r) \/ Unwound(r)
           \/ Persist(r) \/ PersistFails(r)
    PROVE  CleanAt(r)'
<1> USE DEF TypeInv
<1>1. CASE UnwindBatch(r)
  <2>1. PICK i \in todo[r] : rows' = rows \ {<<r, i>>} /\ todo'[r] = todo[r] \ {i}
    BY <1>1 DEF UnwindBatch, TypeOK
  <2>2. /\ phase[r] = "unwind" /\ UNCHANGED <<config, phase, aborted, reported, late>>
    BY <1>1 DEF UnwindBatch
  <2> QED BY <2>1, <2>2 DEF CleanAt, Left, Ended, IsPlan
<1>2. CASE UnwindFails(r)
  <2>1. /\ phase[r] = "unwind" /\ UNCHANGED <<config, phase, aborted, late>>
        /\ reported'[r] # {}
    BY <1>2 DEF UnwindFails, UnwindReports, TypeOK
  <2> QED BY <2>1 DEF CleanAt, Ended, IsPlan
<1>3. CASE Unwound(r)
  <2>1. /\ phase[r] = "unwind" /\ todo[r] = {}
        /\ UNCHANGED <<config, aborted, reported, rows, late>>
        /\ phase'[r] = IF aborted[r] THEN "failed" ELSE "persist"
    BY <1>3 DEF Unwound, TypeOK
  <2> QED BY <2>1 DEF CleanAt, Left, Ended, IsPlan
<1>4. CASE Persist(r)
  <2>1. /\ phase[r] = "persist" /\ UNCHANGED <<config, workspace, reported, rows, late>>
        /\ phase'[r] = IF NeedsCleanup(r) THEN "clear" ELSE "done"
    BY <1>4 DEF Persist, AfterPersist, TypeOK
  <2>2. ~IsPlan(r) /\ config[r].cleanup => NeedsCleanup(r)
    <3>1. Items("path") # << >>
      BY DEF Items
    <3> QED BY <3>1 DEF NeedsCleanup, IsPlan, Feedback
  <2>3. phase'[r] \in {"clear", "done"}
    BY <2>1
  <2> QED BY <2>1, <2>2, <2>3 DEF CleanAt, Left, Ended, IsPlan
<1>5. CASE PersistFails(r)
  BY <1>5 DEF PersistFails, TypeOK, CleanAt, Ended
<1> QED BY <1>1, <1>2, <1>3, <1>4, <1>5

\* So does the endpoint cleanup, through its retry.
LEMMA CleanCleanup ==
    ASSUME TypeInv, NEW r \in Runs, CleanAt(r),
           ClearGraph(r) \/ RemoveBatch(r) \/ CleanupFails(r) \/ CleanupDone(r)
    PROVE  CleanAt(r)'
<1> USE DEF TypeInv
<1>0. todo[r] \subseteq workspace[r]
  BY DEF TypeOK
<1>1. CASE ClearGraph(r)
  <2>1. /\ phase[r] = "clear" /\ phase'[r] = "remove"
        /\ UNCHANGED <<config, workspace, reported, rows, late>>
        /\ ~IsPlan(r) => todo'[r] = workspace[r]
    BY <1>1 DEF ClearGraph, RemovedRows, TypeOK
  <2> QED BY <2>1 DEF CleanAt, Left, Ended, IsPlan
<1>2. CASE RemoveBatch(r)
  <2>1. \/ \E i \in todo[r] : rows' = rows \ {<<r, i>>} /\ todo'[r] = todo[r] \ {i}
        \/ rows' = rows /\ todo' = todo
    BY <1>2 DEF RemoveBatch, TypeOK
  <2>2. /\ phase[r] = "remove" /\ UNCHANGED <<config, phase, reported, late>>
    BY <1>2 DEF RemoveBatch
  <2> QED BY <2>1, <2>2 DEF CleanAt, Left, Ended, IsPlan
<1>3. CASE CleanupFails(r)
  <2>1. rows' \subseteq rows /\ UNCHANGED <<config, workspace, late>>
    BY <1>3 DEF CleanupFails
  <2>2. phase[r] \in {"clear", "remove"}
    BY <1>3 DEF CleanupFails
  <2>3. \/ phase'[r] = "clear" /\ reported'[r] = reported[r]
        \/ phase'[r] = "done" /\ reported'[r] # {}
    BY <1>3 DEF CleanupFails, TypeOK
  <2>4. ~IsPlan(r) => Left(r, workspace[r])
    BY <1>0, <2>2 DEF CleanAt, Left
  <2> QED BY <2>1, <2>2, <2>3, <2>4 DEF CleanAt, Left, Ended, IsPlan
<1>4. CASE CleanupDone(r)
  <2>1. /\ phase[r] = "remove" /\ phase'[r] = "done" /\ todo[r] = {}
        /\ UNCHANGED <<config, reported, rows, late>>
    BY <1>4 DEF CleanupDone, TypeOK
  <2> QED BY <2>1 DEF CleanAt, Left, Ended, IsPlan
<1> QED BY <1>1, <1>2, <1>3, <1>4

LEMMA CleanStep == TypeInv /\ CleanInv /\ [Next]_vars => CleanInv'
<1> SUFFICES ASSUME TypeInv, CleanInv, [Next]_vars, NEW s \in Runs PROVE CleanAt(s)'
  BY DEF CleanInv
<1>0. CleanAt(s)
  BY DEF CleanInv
<1>1. ASSUME NEW r \in Runs \ {s}, Start(r) \/ RunStep(r) \/ Kill(r) PROVE CleanAt(s)'
  BY <1>0, <1>1, OthersUntouched, CleanFrame
<1>2. CASE Start(s)
  <2>1. /\ phase[s] = "planned" /\ phase'[s] = "construct" /\ rows' = rows /\ late' = late
    BY <1>2 DEF Start, TypeInv, TypeOK
  <2> QED BY <1>0, <2>1 DEF CleanAt, Left, Ended
<1>3. CASE RunStep(s)
  BY <1>0, <1>3, CleanConstruction, CleanUnwind, CleanCleanup DEF RunStep
<1>4. CASE Kill(s)
  BY <1>4 DEF Kill, TypeInv, TypeOK, CleanAt, Ended
<1>5. CASE ApplyLate
  <2>1. PICK x \in late : rows' = rows \cup {x} /\ late' = late \ {x}
    BY <1>5 DEF ApplyLate
  <2>2. UNCHANGED <<config, phase, workspace, todo, aborted, reported>>
    BY <1>5 DEF ApplyLate, runVars
  <2>3. CASE x[1] = s
    <3>1. x = <<s, x[2]>> /\ x[2] \in 1..3
      BY <2>3 DEF TypeInv, TypeOK, AllRows
    <3>2. phase[s] \in Ended \/ (phase[s] = "unwind" /\ aborted[s])
      BY <1>0, <3>1 DEF CleanAt
    <3> QED BY <1>0, <2>2, <3>2 DEF CleanAt, Ended, IsPlan
  <2>4. CASE x[1] # s
    <3>1. \A i \in 1..3 : <<s, i>> # x
      BY <2>4
    <3>2. Untouched(s)
      BY <2>1, <2>2, <3>1 DEF Untouched
    <3> QED BY <1>0, <3>2, CleanFrame
  <2> QED BY <2>3, <2>4
<1>6. CASE Recover
  <2>1. rows' \subseteq rows /\ UNCHANGED <<config, runVars, late>>
    BY <1>6 DEF Recover
  <2> QED BY <1>0, <2>1, CleanFrame DEF Untouched, runVars
<1>7. CASE Validate \/ UNCHANGED vars
  <2>1. UNCHANGED <<config, runVars, rows, late>>
    BY <1>7 DEF Validate, vars
  <2> QED BY <1>0, <2>1, CleanFrame DEF Untouched, runVars
<1> QED BY <1>1, <1>2, <1>3, <1>4, <1>5, <1>6, <1>7 DEF Next, Finished

LEMMA CleanExit == TypeInv /\ CleanInv => CleanExitMeansCleanStore
<1> SUFFICES ASSUME TypeInv, CleanInv, NEW r \in Runs, phase[r] = "done",
                    reported[r] = {}, IsPlan(r) \/ config[r].cleanup
             PROVE  OwnRows(r) = {}
  BY DEF CleanExitMeansCleanStore
<1>1. Left(r, {})
  BY DEF CleanInv, CleanAt
<1>2. \A x \in rows : x[1] = r => x = <<r, x[2]>> /\ x[2] \in 1..3
  BY DEF TypeInv, TypeOK, AllRows
<1> QED BY <1>1, <1>2 DEF OwnRows, Left

\* A run that ended well and reported no failed cleanup stage has left no row on the
\* endpoint, whatever failed in its earlier attempts and whatever other runs did.
THEOREM CleanExitIsClean == Spec => []CleanExitMeansCleanStore
BY TypeInit, TypeStep, CleanInit, CleanStep, CleanExit, PTL DEF Spec

-----------------------------------------------------------------------------
(* Named graphs                                                             *)

\* Only a run that was asked to clean up reaches the endpoint cleanup.
CleanupAsked == \A r \in Runs : phase[r] \in {"clear", "remove"} => config[r].cleanup

LEMMA CleanupAskedStep == TypeInv /\ CleanupAsked /\ [Next]_vars => CleanupAsked'
<1> SUFFICES ASSUME TypeInv, CleanupAsked, [Next]_vars PROVE CleanupAsked'
  OBVIOUS
<1> USE DEF TypeInv, TypeOK, CleanupAsked, Terminal
<1>1. ASSUME NEW r \in Runs, Start(r) \/ Kill(r) PROVE CleanupAsked'
  BY <1>1 DEF Start, Kill
<1>2. ASSUME NEW r \in Runs, Construct(r) \/ AddBatch(r) PROVE CleanupAsked'
  BY <1>2 DEF Construct, AddBatch
<1>3. ASSUME NEW r \in Runs, ConstructionFails(r) \/ ConstructionDone(r) PROVE CleanupAsked'
  BY <1>3 DEF ConstructionFails, ConstructionDone, AfterConstruction
<1>4. ASSUME NEW r \in Runs, UnwindBatch(r) \/ UnwindFails(r) \/ Unwound(r) PROVE CleanupAsked'
  BY <1>4 DEF UnwindBatch, UnwindFails, Unwound
<1>5. ASSUME NEW r \in Runs, Persist(r) \/ PersistFails(r) PROVE CleanupAsked'
  BY <1>5 DEF Persist, PersistFails, AfterPersist, NeedsCleanup
<1>6. ASSUME NEW r \in Runs, ClearGraph(r) \/ RemoveBatch(r) \/ CleanupDone(r) PROVE CleanupAsked'
  BY <1>6 DEF ClearGraph, RemoveBatch, CleanupDone
<1>7. ASSUME NEW r \in Runs, CleanupFails(r) PROVE CleanupAsked'
  BY <1>7 DEF CleanupFails
<1>8. CASE ApplyLate \/ Recover \/ Validate \/ UNCHANGED vars
  BY <1>8 DEF ApplyLate, Recover, Validate, runVars, vars
<1> QED BY <1>1, <1>2, <1>3, <1>4, <1>5, <1>6, <1>7, <1>8 DEF Next, RunStep, Finished

\* The graph of an automatic name is not the one of CIRCUIT_GRAPH.
LEMMA GraphNames ==
    ASSUME TypeInv, NEW r \in Runs
    PROVE  /\ \A g \in Persisted(r) : g[1] = RunGraph(r) /\ g[2] \in Circuit(r)
           /\ config[r].graph = "named" => RunGraph(r) = <<"named">>
           /\ config[r].graph = "auto" => RunGraph(r)[1] = "run" /\ RunGraph(r) # <<"named">>
           /\ Persists(r) => config[r].graph \in {"auto", "named"}
<1>1. config[r] \in Config
  BY ItemsType DEF TypeInv
<1> QED BY <1>1 DEF Config, RunGraph, Persists, Persisted

\* A run ends well by persisting or by its cleanup.
LEMMA HowRunsEnd ==
    ASSUME TypeInv, [Next]_vars, NEW r \in Runs, phase[r] # "done", phase'[r] = "done"
    PROVE  Persist(r) \/ CleanupFails(r) \/ CleanupDone(r)
<1> USE DEF TypeInv, TypeOK, Terminal
<1>1. ASSUME NEW s \in Runs, s # r, Start(s) \/ RunStep(s) \/ Kill(s) PROVE FALSE
  BY <1>1, OthersUntouched, ZenonT(60) DEF Untouched
<1>2. CASE Start(r) \/ Kill(r)
  BY <1>2 DEF Start, Kill
<1>3. CASE Construct(r) \/ AddBatch(r) \/ ConstructionFails(r) \/ ConstructionDone(r)
  BY <1>3 DEF Construct, AddBatch, ConstructionFails, ConstructionDone, AfterConstruction
<1>4. CASE UnwindBatch(r) \/ UnwindFails(r) \/ Unwound(r) \/ PersistFails(r)
  BY <1>4 DEF UnwindBatch, UnwindFails, Unwound, PersistFails
<1>5. CASE ClearGraph(r) \/ RemoveBatch(r)
  BY <1>5 DEF ClearGraph, RemoveBatch
<1>6. CASE ApplyLate \/ Recover \/ Validate \/ UNCHANGED vars
  BY <1>6 DEF ApplyLate, Recover, Validate, runVars, vars
<1> QED BY <1>1, <1>2, <1>3, <1>4, <1>5, <1>6 DEF Next, RunStep, Finished

\* What a step does to the named graphs.
LEMMA GraphChanges ==
    ASSUME TypeInv, [Next]_vars
    PROVE  \/ graphs' = graphs
           \/ Recover /\ graphs' = RemainingGraphs
           \/ \E r \in Runs : /\ Persist(r) \/ PersistFails(r)
                              /\ Persists(r) /\ graphs' = graphs \cup Persisted(r)
           \/ \E r \in Runs : /\ ClearGraph(r) \/ CleanupFails(r)
                              /\ phase[r] = "clear" /\ Persists(r)
                              /\ graphs' = {g \in graphs : g[1] # RunGraph(r)}
           \/ \E r \in Runs : /\ RemoveBatch(r) \/ CleanupFails(r)
                              /\ phase[r] = "remove"
                              /\ \E t \in shed[r] : graphs' = Without({t})
<1>1. ASSUME NEW r \in Runs, Start(r) \/ Kill(r) PROVE graphs' = graphs
  BY <1>1 DEF Start, Kill
<1>2. ASSUME NEW r \in Runs, Construct(r) \/ AddBatch(r) \/ ConstructionFails(r)
                             \/ ConstructionDone(r)
      PROVE  graphs' = graphs
  BY <1>2 DEF Construct, AddBatch, ConstructionFails, ConstructionDone
<1>3. ASSUME NEW r \in Runs, UnwindBatch(r) \/ UnwindFails(r) \/ Unwound(r) \/ CleanupDone(r)
      PROVE  graphs' = graphs
  BY <1>3 DEF UnwindBatch, UnwindFails, Unwound, CleanupDone
<1>4. ASSUME NEW r \in Runs, Persist(r) \/ PersistFails(r)
      PROVE  graphs' = graphs \/ (Persists(r) /\ graphs' = graphs \cup Persisted(r))
  BY <1>4 DEF Persist, PersistFails
<1>5. ASSUME NEW r \in Runs, ClearGraph(r) \/ CleanupFails(r) \/ RemoveBatch(r)
      PROVE  \/ graphs' = graphs
             \/ /\ ClearGraph(r) \/ CleanupFails(r)
                /\ phase[r] = "clear" /\ Persists(r)
                /\ graphs' = {g \in graphs : g[1] # RunGraph(r)}
             \/ /\ RemoveBatch(r) \/ CleanupFails(r)
                /\ phase[r] = "remove" /\ \E t \in shed[r] : graphs' = Without({t})
  <2>1. CASE ClearGraph(r)
    BY <2>1 DEF ClearGraph, Cleared
  <2>2. CASE RemoveBatch(r)
    BY <2>2 DEF RemoveBatch
  <2>3. CASE CleanupFails(r)
    <3>1. \/ /\ phase[r] = "clear" /\ Persists(r)
             /\ graphs' \in {graphs, Cleared(r)}
          \/ graphs' = graphs
          \/ phase[r] = "remove" /\ \E t \in shed[r] : graphs' \in {graphs, Without({t})}
      BY <2>3 DEF CleanupFails
    <3> QED BY <2>3, <3>1 DEF Cleared
  <2> QED BY <1>5, <2>1, <2>2, <2>3
<1>6. CASE Recover
  BY <1>6 DEF Recover
<1>7. CASE ApplyLate \/ Validate \/ UNCHANGED vars
  BY <1>7 DEF ApplyLate, Validate, vars
<1> QED BY <1>1, <1>2, <1>3, <1>4, <1>5, <1>6, <1>7 DEF Next, RunStep, Finished

LEMMA ConfigStays == [Next]_vars => config' = config /\ union' = union
BY DEF Next, RunStep, vars, Start, Construct, AddBatch, ConstructionFails, ConstructionDone,
       UnwindBatch, UnwindFails, Unwound, Persist, PersistFails, ClearGraph, RemoveBatch,
       CleanupFails, CleanupDone, Kill, ApplyLate, Recover, Validate, Finished

\* A run that removes triples removes those of the circuit it built.
ShedInv == \A r \in Runs : shed[r] \subseteq RemovedTriples(r)

LEMMA ShedStep == TypeInv /\ ShedInv /\ [Next]_vars => ShedInv'
<1> SUFFICES ASSUME TypeInv, ShedInv, [Next]_vars, NEW r \in Runs
             PROVE  shed'[r] \subseteq RemovedTriples(r)'
  BY DEF ShedInv
<1>1. RemovedTriples(r)' = RemovedTriples(r) /\ shed[r] \subseteq RemovedTriples(r)
  BY ConfigStays DEF RemovedTriples, IsPlan, Feedback, ShedInv
<1> USE DEF TypeInv, TypeOK
<1>2. ASSUME NEW s \in Runs, Start(s) \/ Kill(s) PROVE shed'[r] \subseteq shed[r]
  BY <1>2 DEF Start, Kill
<1>3. ASSUME NEW s \in Runs, Construct(s) \/ AddBatch(s) \/ ConstructionFails(s) \/ ConstructionDone(s)
      PROVE  shed' = shed
  BY <1>3 DEF Construct, AddBatch, ConstructionFails, ConstructionDone
<1>4. ASSUME NEW s \in Runs, UnwindBatch(s) \/ UnwindFails(s) \/ Unwound(s) PROVE shed' = shed
  BY <1>4 DEF UnwindBatch, UnwindFails, Unwound
<1>5. ASSUME NEW s \in Runs, Persist(s) \/ PersistFails(s) \/ CleanupDone(s) PROVE shed' = shed
  BY <1>5 DEF Persist, PersistFails, CleanupDone
<1>6. ASSUME NEW s \in Runs, RemoveBatch(s) \/ CleanupFails(s) PROVE shed'[r] \subseteq shed[r]
  <2>1. \/ shed' = shed \/ shed' = [shed EXCEPT ![s] = {}]
        \/ \E t \in shed[s] : shed' = [shed EXCEPT ![s] = @ \ {t}]
    BY <1>6 DEF RemoveBatch, CleanupFails
  <2> QED BY <2>1
<1>7. ASSUME NEW s \in Runs, ClearGraph(s) PROVE shed'[r] \in {shed[r], RemovedTriples(r)}
  BY <1>7 DEF ClearGraph
<1>8. CASE ApplyLate \/ Recover \/ Validate \/ UNCHANGED vars
  BY <1>1, <1>8 DEF ApplyLate, Recover, Validate, runVars, vars
<1> QED BY <1>1, <1>2, <1>3, <1>4, <1>5, <1>6, <1>7, <1>8 DEF Next, RunStep, Finished

\* A run that has begun its cleanup has begun it for good.
LEMMA CleansUpStays ==
    ASSUME TypeInv, [Next]_vars, NEW s \in Runs, CleansUp(s)
    PROVE  CleansUp(s)'
<1>1. config' = config
  BY ConfigStays
<1> USE DEF TypeInv, TypeOK, CleansUp
<1>2. ASSUME NEW r \in Runs, r # s, Start(r) \/ RunStep(r) \/ Kill(r) PROVE CleansUp(s)'
  BY <1>1, <1>2, OthersUntouched DEF Untouched
<1>3. CASE Start(s) \/ Kill(s)
  BY <1>1, <1>3 DEF Start, Kill
<1>4. CASE ClearGraph(s) \/ RemoveBatch(s) \/ CleanupFails(s) \/ CleanupDone(s)
  BY <1>1, <1>4 DEF ClearGraph, RemoveBatch, CleanupFails, CleanupDone
<1>5. RunStep(s) => ClearGraph(s) \/ RemoveBatch(s) \/ CleanupFails(s) \/ CleanupDone(s)
  BY DEF RunStep, Construct, AddBatch, ConstructionFails, ConstructionDone, UnwindBatch,
         UnwindFails, Unwound, Persist, PersistFails
<1>6. CASE ApplyLate \/ Recover \/ Validate \/ UNCHANGED vars
  BY <1>1, <1>6 DEF ApplyLate, Recover, Validate, runVars, vars
<1> QED BY <1>2, <1>3, <1>4, <1>5, <1>6 DEF Next, Finished

\* Who may have removed triple t of a circuit that run r persisted in CIRCUIT_GRAPH.
Culprit(s, t) == CleansUp(s) /\ (config[s].graph = "named" \/ (union /\ t \in RemovedTriples(s)))
Excused(r, t) == (\E s \in Runs : Culprit(s, t)) \/ (union /\ r \in recovered)

\* Excuses last: a run that has ended is among the recovered after the next recovery too.
LEMMA ExcusedStays ==
    ASSUME TypeInv, [Next]_vars, NEW r \in Runs, NEW t, phase[r] = "done", Excused(r, t)
    PROVE  Excused(r, t)'
<1>1. union' = union /\ config' = config
  BY ConfigStays
<1>2. \A s \in Runs : RemovedTriples(s)' = RemovedTriples(s)
  BY <1>1 DEF RemovedTriples, IsPlan, Feedback
<1>3. r \in recovered => r \in recovered'
  <2>1. recovered' = recovered \/ recovered' = {s \in Runs : phase[s] \in Terminal}
    BY DEF Next, RunStep, vars, Start, Construct, AddBatch, ConstructionFails, ConstructionDone,
           UnwindBatch, UnwindFails, Unwound, Persist, PersistFails, ClearGraph, RemoveBatch,
           CleanupFails, CleanupDone, Kill, ApplyLate, Recover, Validate, Finished
  <2> QED BY <2>1 DEF Terminal
<1>4. \A s \in Runs : Culprit(s, t) => Culprit(s, t)'
  BY <1>1, <1>2, CleansUpStays DEF Culprit
<1> QED BY <1>1, <1>3, <1>4 DEF Excused

LEMMA PersistedStep ==
    TypeInv /\ CleanupAsked /\ ShedInv /\ PersistedCircuitStays /\ [Next]_vars => PersistedCircuitStays'
<1> SUFFICES ASSUME TypeInv, CleanupAsked, ShedInv, PersistedCircuitStays, [Next]_vars, NEW r \in Runs,
                    phase'[r] = "done", config'[r].graph = "named", NEW t \in Circuit(r)',
                    <<RunGraph(r), t>>' \notin graphs'
             PROVE  Excused(r, t)'
  BY DEF PersistedCircuitStays, Excused, Culprit
<1>1. config' = config /\ union' = union
  BY ConfigStays
<1>2. RunGraph(r)' = RunGraph(r) /\ Circuit(r)' = Circuit(r)
  BY <1>1 DEF RunGraph, Circuit
<1>3. RunGraph(r) = <<"named">> /\ Persists(r) /\ t \in Circuit(r) /\ <<RunGraph(r), t>> \notin graphs'
  BY <1>1, <1>2, GraphNames DEF Persists
<1>4. ASSUME NEW s \in Runs, Culprit(s, t) PROVE Excused(r, t)'
  BY <1>1, <1>4, CleansUpStays DEF Excused, Culprit, RemovedTriples, IsPlan, Feedback
<1>5. CASE phase[r] # "done"
  <2>1. ~Persist(r)
    BY <1>3 DEF Persist, Persisted
  <2>2. CleanupFails(r) \/ CleanupDone(r)
    BY <1>5, <2>1, HowRunsEnd
  <2>3. phase[r] \in {"clear", "remove"}
    BY <2>2 DEF CleanupFails, CleanupDone
  <2>4. Culprit(r, t)
    BY <1>1, <2>3 DEF Culprit, CleansUp, CleanupAsked
  <2> QED BY <1>4, <2>4
<1>6. CASE phase[r] = "done"
  <2>1. CASE Excused(r, t)
    BY <1>6, <2>1, ExcusedStays
  <2>2. CASE <<RunGraph(r), t>> \in graphs
    <3>1. CASE graphs' = graphs
      BY <1>3, <2>2, <3>1
    <3>2. CASE Recover /\ graphs' = RemainingGraphs
      <4>1. union
        BY <1>3, <2>2, <3>2 DEF RemainingGraphs
      <4>2. r \in recovered'
        BY <1>6, <3>2 DEF Recover, Terminal
      <4> QED BY <1>1, <4>1, <4>2 DEF Excused
    <3>3. CASE \E s \in Runs : graphs' = graphs \cup Persisted(s)
      BY <1>3, <2>2, <3>3
    <3>4. ASSUME NEW s \in Runs, phase[s] = "clear", Persists(s),
                 graphs' = {g \in graphs : g[1] # RunGraph(s)}
          PROVE  Excused(r, t)'
      <4>1. RunGraph(s) = RunGraph(r)
        BY <1>3, <2>2, <3>4
      <4>2. config[s].graph = "named"
        BY <1>3, <3>4, <4>1, GraphNames
      <4>3. Culprit(s, t)
        BY <3>4, <4>2 DEF Culprit, CleansUp, CleanupAsked
      <4> QED BY <1>4, <4>3
    <3>5. ASSUME NEW s \in Runs, phase[s] = "remove", NEW u \in shed[s], graphs' = Without({u})
          PROVE  Excused(r, t)'
      <4>1. union /\ t = u
        BY <1>3, <2>2, <3>5 DEF Without
      <4>2. Culprit(s, t)
        BY <3>5, <4>1 DEF Culprit, CleansUp, CleanupAsked, ShedInv
      <4> QED BY <1>4, <4>2
    <3> QED BY <3>1, <3>2, <3>3, <3>4, <3>5, GraphChanges
  <2>3. t \in Circuit(r) /\ config[r].graph = "named"
    BY <1>1, <1>3
  <2> QED BY <1>6, <2>1, <2>2, <2>3 DEF PersistedCircuitStays, Excused, Culprit
<1> QED BY <1>5, <1>6

\* A triple of a circuit in the graph named by CIRCUIT_GRAPH is lost only to the cleanup of
\* a run with that graph, of a run that built the same triple on a store with a union
\* default graph, or to the recovery of such a store.
THEOREM PersistedCircuitsStay == Spec => []PersistedCircuitStays
<1>1. Init => CleanupAsked /\ ShedInv /\ PersistedCircuitStays
  BY DEF Init, CleanupAsked, ShedInv, PersistedCircuitStays
<1> QED BY <1>1, TypeInit, TypeStep, CleanupAskedStep, ShedStep, PersistedStep, PTL DEF Spec

-----------------------------------------------------------------------------
(* What makes a store fail its validation                                   *)

\* Between the recovery update and the next start no run is active.
QuietInv == recovery # "none" => \A r \in Runs : phase[r] \in Terminal \cup {"planned"}

\* A run that is about to drop its graph, may keep it, or did not end well.
GraphKeeper(r) ==
    /\ config[r].graph = "named"
    /\ \/ phase[r] = "clear" \/ phase[r] \in Ended
       \/ phase[r] = "done" /\ (~config[r].cleanup \/ reported[r] # {})

GraphInv ==
    /\ \A g \in graphs : g[1] = <<"named">> \/ g[1][1] = "run"
    /\ recovery # "none" => \A g \in graphs : g[1][1] # "run"
    /\ \A g \in graphs : g[1] = <<"named">> => \E r \in Runs : GraphKeeper(r) /\ g \in Persisted(r)

SpoilInv == QuietInv /\ GraphInv /\ (recovery = "invalid" => rows # {} \/ graphs # {})

LEMMA SpoilInit == Init => SpoilInv
BY DEF Init, SpoilInv, QuietInv, GraphInv

\* While a run is active there is no recovery to speak of.
LEMMA ActiveRuns ==
    ASSUME TypeInv, QuietInv, NEW r \in Runs, RunStep(r) \/ Kill(r)
    PROVE  recovery = "none" /\ recovery' = "none"
<1>1. phase[r] \notin Terminal \cup {"planned"}
  BY DEF RunStep, Kill, Construct, AddBatch, ConstructionFails, ConstructionDone, UnwindBatch,
         UnwindFails, Unwound, Persist, PersistFails, ClearGraph, RemoveBatch, CleanupFails,
         CleanupDone, Terminal
<1>2. recovery = "none"
  BY <1>1 DEF QuietInv
<1>3. recovery' = recovery
  BY DEF RunStep, Kill, Construct, AddBatch, ConstructionFails, ConstructionDone, UnwindBatch,
         UnwindFails, Unwound, Persist, PersistFails, ClearGraph, RemoveBatch, CleanupFails,
         CleanupDone
<1> QED BY <1>2, <1>3

LEMMA QuietStep == TypeInv /\ QuietInv /\ [Next]_vars => QuietInv'
<1> SUFFICES ASSUME TypeInv, QuietInv, [Next]_vars PROVE QuietInv'
  OBVIOUS
<1>1. ASSUME NEW r \in Runs, Start(r) PROVE QuietInv'
  BY <1>1 DEF Start, QuietInv
<1>2. ASSUME NEW r \in Runs, RunStep(r) \/ Kill(r) PROVE QuietInv'
  BY <1>2, ActiveRuns DEF QuietInv
<1>3. CASE Recover
  BY <1>3 DEF Recover, runVars, QuietInv
<1>4. CASE ApplyLate \/ Validate \/ UNCHANGED vars
  BY <1>4 DEF ApplyLate, Validate, runVars, vars, QuietInv
<1> QED BY <1>1, <1>2, <1>3, <1>4 DEF Next, Finished

\* A keeper stays one, but for the run that drops the graph.
LEMMA KeeperStep ==
    ASSUME TypeInv, [Next]_vars, NEW s \in Runs, GraphKeeper(s)
    PROVE  \/ GraphKeeper(s)'
           \/ ClearGraph(s) /\ graphs' = {g \in graphs : g[1] # <<"named">>}
<1>1. config' = config
  BY ConfigStays
<1>2. ASSUME NEW r \in Runs, r # s, Start(r) \/ RunStep(r) \/ Kill(r)
      PROVE  GraphKeeper(s)'
  BY <1>2, OthersUntouched DEF Untouched, GraphKeeper
<1>3. ASSUME Kill(s) PROVE GraphKeeper(s)'
  BY <1>1, <1>3 DEF Kill, GraphKeeper, Ended, TypeInv, TypeOK
<1>4. ASSUME CleanupFails(s) PROVE GraphKeeper(s)'
  BY <1>1, <1>4 DEF CleanupFails, GraphKeeper, TypeInv, TypeOK
<1>5. ASSUME ClearGraph(s) PROVE graphs' = {g \in graphs : g[1] # <<"named">>}
  BY <1>5, GraphNames DEF ClearGraph, Cleared, GraphKeeper, Persists
<1>6. ~Start(s) /\ (RunStep(s) => ClearGraph(s) \/ CleanupFails(s))
  BY DEF GraphKeeper, Ended, Start, RunStep, Construct, AddBatch, ConstructionFails,
         ConstructionDone, UnwindBatch, UnwindFails, Unwound, Persist, PersistFails,
         RemoveBatch, CleanupDone
<1>7. CASE ApplyLate \/ Recover \/ Validate \/ UNCHANGED vars
  BY <1>7 DEF ApplyLate, Recover, Validate, runVars, vars, GraphKeeper
<1> QED BY <1>2, <1>3, <1>4, <1>5, <1>6, <1>7 DEF Next, Finished

\* Writing a graph makes its run a keeper.
LEMMA WriterKeeps ==
    ASSUME TypeInv, NEW r \in Runs, Persist(r) \/ PersistFails(r), config[r].graph = "named"
    PROVE  GraphKeeper(r)'
<1>1. Persists(r)
  BY DEF Persists
<1>2. CASE Persist(r)
  <2>1. phase'[r] = IF config[r].cleanup THEN "clear" ELSE "done"
    BY <1>1, <1>2 DEF Persist, AfterPersist, NeedsCleanup, TypeInv, TypeOK
  <2> QED BY <1>2, <2>1 DEF Persist, GraphKeeper
<1>3. CASE PersistFails(r)
  BY <1>3 DEF PersistFails, GraphKeeper, Ended, TypeInv, TypeOK
<1> QED BY <1>2, <1>3

LEMMA GraphStep == TypeInv /\ QuietInv /\ GraphInv /\ [Next]_vars => GraphInv'
<1> SUFFICES ASSUME TypeInv, QuietInv, GraphInv, [Next]_vars PROVE GraphInv'
  OBVIOUS
<1>0. \A r \in Runs : Persisted(r)' = Persisted(r)
  BY ConfigStays DEF Persisted, RunGraph, Circuit
<1>1. \A g \in graphs' : g \in graphs \/ \E r \in Runs : /\ Persist(r) \/ PersistFails(r)
                                                       /\ Persists(r) /\ g \in Persisted(r)
  BY GraphChanges DEF RemainingGraphs, Without
<1>2. ASSUME NEW g \in graphs' PROVE g[1] = <<"named">> \/ g[1][1] = "run"
  BY <1>1, <1>2, GraphNames DEF GraphInv
<1>3. ASSUME recovery' # "none", NEW g \in graphs' PROVE g[1][1] # "run"
  <2>1. CASE Recover
    BY <1>3, <2>1 DEF Recover, RemainingGraphs
  <2>2. CASE ~Recover
    <3>1. recovery # "none" /\ graphs' = graphs
      <4>1. ASSUME NEW r \in Runs, Start(r) PROVE FALSE
        BY <1>3, <4>1 DEF Start
      <4>2. ASSUME NEW r \in Runs, RunStep(r) \/ Kill(r) PROVE FALSE
        BY <1>3, <4>2, ActiveRuns
      <4>3. CASE Validate
        BY <4>3 DEF Validate
      <4>4. CASE ApplyLate \/ UNCHANGED vars
        BY <1>3, <4>4 DEF ApplyLate, vars
      <4> QED BY <2>2, <4>1, <4>2, <4>3, <4>4 DEF Next, Finished
    <3> QED BY <1>3, <3>1 DEF GraphInv
  <2> QED BY <2>1, <2>2
<1>4. ASSUME NEW g \in graphs', g[1] = <<"named">>
      PROVE  \E r \in Runs : GraphKeeper(r)' /\ g \in Persisted(r)'
  <2>1. CASE g \in graphs
    <3>1. PICK s \in Runs : GraphKeeper(s) /\ g \in Persisted(s)
      BY <1>4, <2>1 DEF GraphInv
    <3> QED BY <1>0, <1>4, <3>1, KeeperStep
  <2>2. CASE g \notin graphs
    <3>1. PICK r \in Runs : /\ Persist(r) \/ PersistFails(r)
                            /\ Persists(r) /\ g \in Persisted(r)
      BY <1>1, <2>2
    <3>2. config[r].graph = "named"
      BY <1>4, <3>1, GraphNames
    <3> QED BY <1>0, <3>1, <3>2, WriterKeeps
  <2> QED BY <2>1, <2>2
<1> QED BY <1>2, <1>3, <1>4 DEF GraphInv

\* After a recovery, whatever is in the store has a run at fault behind it.
LEMMA LeftByFaulty ==
    TypeInv /\ CleanInv /\ SpoilInv => OnlyFaultyRunsSpoilTheStore
<1> SUFFICES ASSUME TypeInv, CleanInv, SpoilInv, recovery = "invalid"
             PROVE  /\ \A x \in rows : AtFault(x[1])
                    /\ \A g \in graphs : \E r \in Runs : AtFault(r) /\ g \in Persisted(r)
  BY DEF OnlyFaultyRunsSpoilTheStore, SpoilInv
<1>1. \A r \in Runs : phase[r] \in Terminal \cup {"planned"}
  BY DEF SpoilInv, QuietInv
<1>2. ASSUME NEW x \in rows PROVE AtFault(x[1])
  <2>1. PICK r \in Runs, i \in 1..3 : x = <<r, i>>
    BY DEF TypeInv, TypeOK, AllRows
  <2>2. CleanAt(r) /\ ~Left(r, {})
    BY <2>1 DEF CleanInv, Left
  <2>3. AtFault(r)
    BY <1>1, <2>2 DEF AtFault, CleanAt, Ended, Terminal
  <2> QED BY <2>1, <2>3
<1>3. ASSUME NEW g \in graphs PROVE \E r \in Runs : AtFault(r) /\ g \in Persisted(r)
  <2>1. g[1] = <<"named">>
    BY DEF SpoilInv, GraphInv
  <2>2. PICK r \in Runs : GraphKeeper(r) /\ g \in Persisted(r)
    BY <2>1 DEF SpoilInv, GraphInv
  <2>3. phase[r] # "clear"
    BY <1>1 DEF Terminal
  <2> QED BY <2>2, <2>3 DEF GraphKeeper, AtFault, Ended
<1> QED BY <1>2, <1>3

LEMMA SpoilStep == TypeInv /\ SpoilInv /\ [Next]_vars => SpoilInv'
<1> SUFFICES ASSUME TypeInv, SpoilInv, [Next]_vars, recovery' = "invalid"
             PROVE  rows' # {} \/ graphs' # {}
  BY QuietStep, GraphStep DEF SpoilInv
<1> USE DEF SpoilInv
<1>1. ASSUME NEW r \in Runs, Start(r) PROVE FALSE
  BY <1>1 DEF Start
<1>2. ASSUME NEW r \in Runs, RunStep(r) \/ Kill(r) PROVE FALSE
  BY <1>2, ActiveRuns
<1>3. ~Recover
  BY DEF Recover
<1>4. CASE Validate
  BY <1>4 DEF Validate, Valid, GeneratedState
<1>5. CASE ApplyLate \/ UNCHANGED vars
  BY <1>5 DEF ApplyLate, vars
<1> QED BY <1>1, <1>2, <1>3, <1>4, <1>5 DEF Next, Finished

\* When a recovered store does not validate, every row and triple left in it is of a run
\* that crashed, failed, reported a failed cleanup or was told to keep what it wrote.
THEOREM InvalidStoreHasACulprit == Spec => []OnlyFaultyRunsSpoilTheStore
BY TypeInit, TypeStep, CleanInit, CleanStep, SpoilInit, SpoilStep, LeftByFaulty, PTL DEF Spec
=============================================================================
