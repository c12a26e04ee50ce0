------------------------- MODULE WikidataShardProofs -------------------------
(***************************************************************************)
(* Theorems about WikidataShard and WikidataPqe, for every plan of a query, *)
(* any number of measured executions, sessions and starts of the batch:     *)
(* what the results of a shard say of the store, of its cells and of their  *)
(* answers, and what backs the figures.  Then, for every NPCS response, one  *)
(* about the Boolean graph that ProvenanceDag makes of what was retrieved.   *)
(***************************************************************************)
EXTENDS WikidataPqe, ProvenanceDag, FiniteSetTheorems, SequenceTheorems, WellFoundedInduction, TLAPS

-----------------------------------------------------------------------------
(* The invariant of the shard                                               *)

Methods == {"N-per-answer", "N-shared", "C-flat", "C-factorised", "C-path"}
Files == (UNION {[Logical(c) -> Answers \cup {"none"}] : c \in Cells}) \cup {<< >>}
Run == [endpoint : BOOLEAN, ok : SUBSET Methods, answers : Files]
CellSet == [status : UNION {[Logical(c) -> {"ok", "incomplete", "answer-mismatch"}] : c \in Cells},
            recovery : BOOLEAN, runs : Seq(Run)]
Directory == [present : BOOLEAN, opened : SUBSET Executions,
              runs : [Executions -> Run \cup {<< >>}], cell : CellSet \cup {NoCell}]
Process == [at : {"none", "start", "open", "run", "final", "ended"},
            cell : 0 .. Len(Plan), runs : Seq(Run), code : {0, 1, 20}]

TypeOK ==
  /\ output \in [Cells -> Directory]
  /\ interrupted \in SUBSET (Cells \X (CellSet \cup {NoCell}))
  /\ validation \in {"none", "unknown", "equal", "different"}
  /\ session \in 0 .. Sessions
  /\ driver \in [doing : {"none", "look", "archive", "visit", "await", "finish", "ended"},
                 cell : 0 .. Len(Plan)]
  /\ process \in [1 .. Sessions -> Process]
  /\ store \in SUBSET (1 .. Sessions)
  /\ disturbed \in SUBSET Cells

\* A process that is past the directory it must not reuse.
Inside(s) == process[s].at \in {"open", "run", "final"}

\* No archiving has taken the directory of the cell from a process at work in it.
Calm(c) == c \notin disturbed \/ interrupted = {}

\* A directory without a record that nobody is at work in.
Abandoned(c) == Partial(c) /\ \A t \in 1 .. Sessions : Inside(t) => CellOf(t) # c

\* Only the process of the last session is awaited, and sessions to come have none.
ProcessAt(s) ==
  /\ s > session => process[s] = NoProcess /\ s \notin store
  /\ process[s].at = "ended" => s = session /\ driver.doing = "await"
  /\ Live(s) => CellOf(s) \in Cells
  /\ process[s].at = "start" => process[s].runs = << >>
  /\ process[s].at \in {"start", "open", "run"} => Len(process[s].runs) < 1 + Measured

\* State in the store has its process, or a trace in the results.
StoreAt(s) == s \in store =>
  /\ process[s].at \notin {"start", "open"}
  /\ process[s].at = "ended" => process[s].code # 0
  /\ Inside(s) => IsCircuit(CellOf(s))
  /\ process[s].at = "final" => \E i \in DOMAIN process[s].runs : ~process[s].runs[i].endpoint
  /\ interrupted # {} \/ Inside(s) \/ \E c \in Cells : output[c].cell.recovery \/ Abandoned(c)

\* The driver has a process only where it waits for it, archives what nobody works in
\* unless that cell counts as disturbed, and leaves records behind it.
DriverInv ==
  /\ Working => session # 0 /\ driver.cell \in Cells
  /\ driver.doing \in {"look", "archive", "visit", "finish"} =>
       process[session].at = "none"
  /\ driver.doing \in {"look", "archive", "visit"} => session \notin store
  /\ driver.doing = "archive" /\ driver.cell \notin disturbed =>
       Partial(driver.cell) /\ \A s \in 1 .. Sessions : Live(s) => CellOf(s) # driver.cell
  /\ Working => \A c \in Cells \ disturbed :
                  c < driver.cell \/ driver.doing = "finish" => HasCell(c)

\* A record says what its runs are, and they are those of the directory; at most one
\* process is at work in a calm cell, which has no record yet.
CellAtWork(c) ==
  /\ HasCell(c) => /\ output[c].present
                   /\ DOMAIN output[c].cell.status = Logical(c)
                   /\ \A m \in Logical(c) : output[c].cell.status[m] = "ok" =>
                        Complete(output[c].cell.runs, m)
  /\ Calm(c) /\ HasCell(c) => \A i \in DOMAIN output[c].cell.runs :
                                output[c].runs[i] = output[c].cell.runs[i]
  /\ \A s \in 1 .. Sessions : Calm(c) /\ Inside(s) /\ CellOf(s) = c =>
       /\ Partial(c)
       /\ \A i \in DOMAIN process[s].runs : output[c].runs[i] = process[s].runs[i]
       /\ \A t \in 1 .. Sessions : Inside(t) /\ CellOf(t) = c => t = s

\* A record is archived only of a cell that was disturbed.
ArchivedInv == \A e \in interrupted : e[2] # NoCell => e[1] \in disturbed

ParityInv ==
  validation \in {"equal", "different"} /\ disturbed = {} =>
    /\ \A c \in Cells : HasCell(c) /\ CellOk(output[c].cell)
    /\ (validation = "equal") = (\A p \in Compared : AnswersOf(p[1]) = AnswersOf(p[2]))

ShardInv ==
  /\ \A s \in 1 .. Sessions : ProcessAt(s) /\ StoreAt(s)
  /\ DriverInv
  /\ \A c \in Cells : CellAtWork(c)
  /\ ArchivedInv
  /\ CompleteIsTrue
  /\ ParityInv

-----------------------------------------------------------------------------
(* What a step keeps                                                        *)

LEMMA PlanFacts ==
  /\ Plan \in Seq(Physical) /\ Len(Plan) \in Nat \ {0} /\ Cells = 1 .. Len(Plan)
  /\ Sessions \in Nat \ {0} /\ Measured \in Nat \ {0}
  /\ \A c \in Cells : Logical(c) # {} /\ Logical(c) \subseteq Methods
<1>1. Plan \in Seq(Physical) \ {<< >>} /\ Sessions \in Nat \ {0} /\ Measured \in Nat \ {0}
  BY ShardAssumption
<1>2. Len(Plan) \in Nat \ {0} /\ DOMAIN Plan = 1 .. Len(Plan)
  BY <1>1
<1>3. \A c \in Cells : Plan[c] \in Physical
  BY <1>1, <1>2 DEF Cells
<1>4. \A c \in Cells : Logical(c) # {} /\ Logical(c) \subseteq Methods
  BY <1>3 DEF Logical, IsCircuit, Physical, Methods
<1> QED BY <1>1, <1>2, <1>4 DEF Cells

LEMMA MethodsHaveCells == \A m \in LogicalMethods : CellFor(m) \in Cells /\ m \in Logical(CellFor(m))
BY DEF LogicalMethods, CellFor

\* A record that is there stays as it is, but in disturbed cells.
CellsKept == \A c \in Cells \ disturbed : HasCell(c) => output'[c] = output[c]

LEMMA ParityKept ==
    ASSUME TypeOK, ParityInv, CellsKept, validation' = validation, disturbed \subseteq disturbed'
    PROVE  ParityInv'
<1> SUFFICES ASSUME validation \in {"equal", "different"}, disturbed' = {}
             PROVE  /\ \A c \in Cells : HasCell(c)' /\ CellOk(output'[c].cell)
                    /\ (validation = "equal")
                         = (\A p \in Compared : AnswersOf(p[1])' = AnswersOf(p[2])')
  BY DEF ParityInv
<1>1. disturbed = {}
  OBVIOUS
<1>2. /\ \A c \in Cells : HasCell(c) /\ CellOk(output[c].cell)
      /\ (validation = "equal") = (\A p \in Compared : AnswersOf(p[1]) = AnswersOf(p[2]))
  BY <1>1 DEF ParityInv
<1>3. \A c \in Cells : output'[c] = output[c]
  BY <1>1, <1>2 DEF CellsKept
<1>4. \A m \in LogicalMethods : AnswersOf(m)' = AnswersOf(m)
  BY <1>3, MethodsHaveCells DEF AnswersOf
<1>5. \A p \in Compared : p[1] \in LogicalMethods /\ p[2] \in LogicalMethods
  BY DEF Compared
<1>6. (\A p \in Compared : AnswersOf(p[1])' = AnswersOf(p[2])')
        <=> (\A p \in Compared : AnswersOf(p[1]) = AnswersOf(p[2]))
  BY <1>4, <1>5
<1>7. \A c \in Cells : HasCell(c)' /\ CellOk(output'[c].cell)
  BY <1>2, <1>3 DEF HasCell
<1> QED BY <1>2, <1>6, <1>7

LEMMA CompleteKept ==
    ASSUME CompleteIsTrue, CellsKept, complete' = complete, disturbed \subseteq disturbed'
    PROVE  CompleteIsTrue'
BY DEF CompleteIsTrue, CellsKept, HasCell

-----------------------------------------------------------------------------
(* Steps of a cell process                                                  *)

\* What a step of process s leaves alone.
ProcessFrame(s) ==
  /\ Live(s)
  /\ UNCHANGED <<interrupted, validation, complete, disturbed, session, driver>>
  /\ \A t \in 1 .. Sessions \ {s} : process'[t] = process[t] /\ (t \in store' <=> t \in store)
  /\ \A c \in Cells \ {CellOf(s)} : output'[c] = output[c]
  /\ Live(s)' => CellOf(s)' = CellOf(s)
  /\ ~Inside(s) => \/ output'[CellOf(s)] = output[CellOf(s)] /\ ~Inside(s)'
                   \/ ~output[CellOf(s)].present

\* Where a process is at work in a calm cell there is no record, and no trace of others.
LEMMA AtWork ==
    ASSUME ShardInv, NEW s \in 1 .. Sessions, Inside(s)
    PROVE  /\ CellOf(s) \in Cells /\ Live(s)
           /\ Calm(CellOf(s)) => ~HasCell(CellOf(s)) /\ output[CellOf(s)].present
           /\ interrupted = {} => /\ ~output[CellOf(s)].cell.recovery
                                  /\ ~Abandoned(CellOf(s))
<1>1. Live(s) /\ CellOf(s) \in Cells
  BY DEF ShardInv, ProcessAt, Inside, Live
<1>2. Calm(CellOf(s)) => ~HasCell(CellOf(s)) /\ output[CellOf(s)].present
  BY <1>1 DEF ShardInv, CellAtWork, Partial
<1>3. ~HasCell(CellOf(s)) => ~output[CellOf(s)].cell.recovery
  BY DEF HasCell, NoCell
<1> QED BY <1>1, <1>2, <1>3 DEF Calm, Abandoned

\* Before a process is inside, the directory of a cell without one has no record.
LEMMA NotPresent ==
    ASSUME ShardInv, NEW c \in Cells, ~output[c].present
    PROVE  ~HasCell(c) /\ ~output[c].cell.recovery
<1>1. ~HasCell(c)
  BY DEF ShardInv, CellAtWork
<1> QED BY <1>1 DEF HasCell, NoCell

LEMMA ProcessStepKeeps ==
    ASSUME TypeOK, ShardInv, NEW s \in 1 .. Sessions, ProcessFrame(s),
           NEW k \in Cells, k = CellOf(s), ProcessAt(s)', StoreAt(s)', CellAtWork(k)'
    PROVE  ShardInv'
<1>1. /\ Live(s) /\ s <= session
      /\ interrupted' = interrupted /\ validation' = validation /\ complete' = complete
      /\ disturbed' = disturbed /\ session' = session /\ driver' = driver
      /\ \A t \in 1 .. Sessions \ {s} : process'[t] = process[t] /\ (t \in store' <=> t \in store)
      /\ \A c \in Cells \ {k} : output'[c] = output[c]
      /\ Inside(s)' => process'[s].cell = k
  <2>1. Live(s)
    BY DEF ProcessFrame
  <2>2. session \in Nat
    BY PlanFacts DEF TypeOK
  <2>3. s <= session
    BY <2>1, <2>2 DEF ShardInv, ProcessAt, NoProcess, Live
  <2> QED BY <2>1, <2>3 DEF ProcessFrame, Live, Inside, CellOf
<1>2. CellsKept
  <2> SUFFICES ASSUME NEW c \in Cells \ disturbed, HasCell(c) PROVE output'[c] = output[c]
    BY DEF CellsKept
  <2>1. CASE c # k
    BY <1>1, <2>1
  <2>2. CASE c = k
    <3>1. output[c].present /\ ~Inside(s)
      BY <2>2, AtWork DEF ShardInv, CellAtWork, Calm
    <3> QED BY <2>2, <3>1 DEF ProcessFrame
  <2> QED BY <2>1, <2>2
<1>3. ASSUME interrupted = {}, NEW c \in Cells, output[c].cell.recovery \/ Abandoned(c)
      PROVE  output'[c].cell.recovery \/ Abandoned(c)'
  <2>1. CASE c # k
    <3>1. output'[c] = output[c]
      BY <1>1, <2>1
    <3>2. ASSUME Abandoned(c), NEW t \in 1 .. Sessions, Inside(t)' PROVE process'[t].cell # c
      <4>1. CASE t = s
        BY <1>1, <2>1, <3>2, <4>1
      <4>2. CASE t # s
        BY <1>1, <3>2, <4>2 DEF Abandoned, Inside, CellOf
      <4> QED BY <4>1, <4>2
    <3> QED BY <1>3, <3>1, <3>2 DEF Abandoned, Partial, HasCell, CellOf
  <2>2. CASE c = k
    <3>1. ~Inside(s)
      BY <1>3, <2>2, AtWork
    <3>2. output[c].present
      BY <1>3, <2>2, NotPresent DEF Abandoned, Partial
    <3>3. output'[c] = output[c] /\ ~Inside(s)'
      BY <2>2, <3>1, <3>2 DEF ProcessFrame
    <3>4. ASSUME Abandoned(c), NEW t \in 1 .. Sessions, Inside(t)' PROVE process'[t].cell # c
      <4>1. t # s
        BY <3>3, <3>4
      <4> QED BY <1>1, <3>4, <4>1 DEF Abandoned, Inside, CellOf
    <3> QED BY <1>3, <3>3, <3>4 DEF Abandoned, Partial, HasCell, CellOf
  <2> QED BY <2>1, <2>2
<1>4. ASSUME NEW t \in 1 .. Sessions PROVE ProcessAt(t)' /\ StoreAt(t)'
  <2>1. CASE t = s
    BY <2>1
  <2>2. CASE t # s
    <3>1. ProcessAt(t) /\ StoreAt(t)
      BY DEF ShardInv
    <3>2. process'[t] = process[t] /\ (t \in store' <=> t \in store)
      BY <1>1, <2>2
    <3>3. ProcessAt(t)'
      BY <1>1, <3>1, <3>2 DEF ProcessAt, Live, CellOf
    <3>4. StoreAt(t)'
      BY <1>1, <1>3, <3>1, <3>2 DEF StoreAt, Inside, CellOf
    <3> QED BY <3>3, <3>4
  <2> QED BY <2>1, <2>2
<1>5. ASSUME NEW c \in Cells PROVE CellAtWork(c)'
  <2>1. CASE c = k
    BY <2>1
  <2>2. CASE c # k
    <3>1. CellAtWork(c) /\ output'[c] = output[c]
      BY <1>1, <2>2 DEF ShardInv
    <3>2. \A t \in 1 .. Sessions : Inside(t)' /\ process'[t].cell = c =>
             process'[t] = process[t] /\ Inside(t) /\ CellOf(t) = c
      BY <1>1, <2>2 DEF Inside, CellOf
    <3>3. Calm(c)' <=> Calm(c)
      BY <1>1 DEF Calm
    <3> QED BY <3>1, <3>2, <3>3 DEF CellAtWork, HasCell, Partial, CellOf
  <2> QED BY <2>1, <2>2
<1>6. DriverInv'
  <2>1. DriverInv
    BY DEF ShardInv
  <2>2. driver.doing \in {"look", "archive", "visit", "finish"} =>
           s # session /\ process'[session] = process[session]
                       /\ (session \in store' <=> session \in store)
    <3>1. driver.doing \in {"look", "archive", "visit", "finish"} =>
             session \in 1 .. Sessions /\ process[session].at = "none"
      BY <2>1, PlanFacts DEF DriverInv, Working, TypeOK
    <3> QED BY <1>1, <3>1 DEF Live
  <2>3. driver.doing = "archive" /\ driver.cell \notin disturbed =>
           /\ Partial(driver.cell)'
           /\ \A t \in 1 .. Sessions : Live(t)' => process'[t].cell # driver.cell
    <3> SUFFICES ASSUME driver.doing = "archive", driver.cell \notin disturbed
                 PROVE  /\ Partial(driver.cell)'
                        /\ \A t \in 1 .. Sessions : Live(t)' => process'[t].cell # driver.cell
      OBVIOUS
    <3>1. /\ Partial(driver.cell) /\ driver.cell \in Cells
          /\ \A t \in 1 .. Sessions : Live(t) => CellOf(t) # driver.cell
      BY <2>1 DEF DriverInv, Working
    <3>2. output'[driver.cell] = output[driver.cell]
      BY <1>1, <3>1
    <3>3. Partial(driver.cell)'
      BY <1>1, <3>1, <3>2 DEF Partial, HasCell
    <3>4. ASSUME NEW t \in 1 .. Sessions, Live(t)' PROVE process'[t].cell # driver.cell
      <4>1. CASE t = s
        BY <1>1, <3>1, <3>4, <4>1 DEF ProcessFrame, CellOf
      <4>2. CASE t # s
        BY <1>1, <3>1, <3>4, <4>2 DEF Live, CellOf
      <4> QED BY <4>1, <4>2
    <3> QED BY <3>3, <3>4
  <2>4. Working => \A c \in Cells \ disturbed :
                     c < driver.cell \/ driver.doing = "finish" => HasCell(c)'
    BY <1>2, <2>1 DEF DriverInv, CellsKept, HasCell
  <2> QED BY <1>1, <2>1, <2>2, <2>3, <2>4 DEF DriverInv, Working, CellOf
<1>7. ArchivedInv' /\ CompleteIsTrue' /\ ParityInv'
  BY <1>1, <1>2, ParityKept, CompleteKept DEF ShardInv, ArchivedInv
<1> QED BY <1>4, <1>5, <1>6, <1>7 DEF ShardInv

\* The end of a process.
LEMMA EndsFacts ==
    ASSUME TypeOK, NEW s \in 1 .. Sessions, NEW code \in {0, 1, 20}, Ends(s, code)
    PROVE  /\ process' \in [1 .. Sessions -> Process]
           /\ \A t \in 1 .. Sessions \ {s} : process'[t] = process[t]
           /\ ~Inside(s)' /\ ~Live(s)' /\ process'[s].at \notin {"start", "open", "run", "final"}
           /\ process'[s].at = "ended" => Awaited(s) /\ process'[s].code = code
           /\ process'[s].runs = << >>
<1>1. NoProcess \in Process /\ [NoProcess EXCEPT !.at = "ended", !.code = code] \in Process
  <2>1. 0 \in 0 .. Len(Plan) /\ << >> \in Seq(Run)
    BY PlanFacts
  <2> QED BY <2>1 DEF NoProcess, Process
<1>2. PICK end \in Process : /\ process' = [process EXCEPT ![s] = end]
                             /\ end.at \in {"none", "ended"} /\ end.runs = << >>
                             /\ end.at = "ended" => Awaited(s) /\ end.code = code
  BY <1>1 DEF Ends, NoProcess
<1> QED BY <1>2 DEF TypeOK, Inside, Live

\* A process that dies or is refused leaves what it found; if it left state in the
\* store, then its directory stays behind.
LEMMA DeathKeeps ==
    ASSUME TypeOK, ShardInv, NEW s \in 1 .. Sessions, Live(s), Ends(s, 1),
           UNCHANGED <<output, results, session, driver, store>>
    PROVE  TypeOK' /\ ShardInv'
<1>1. /\ process' \in [1 .. Sessions -> Process]
      /\ \A t \in 1 .. Sessions \ {s} : process'[t] = process[t]
      /\ ~Inside(s)' /\ ~Live(s)' /\ process'[s].at \notin {"start", "open", "run", "final"}
      /\ process'[s].at = "ended" => Awaited(s) /\ process'[s].code = 1
  BY EndsFacts
<1>2. /\ output' = output /\ session' = session /\ driver' = driver /\ store' = store
      /\ interrupted' = interrupted /\ validation' = validation /\ complete' = complete
      /\ disturbed' = disturbed
  BY DEF results
<1>3. TypeOK'
  BY <1>1, <1>2 DEF TypeOK
<1>4. ProcessFrame(s)
  BY <1>1, <1>2 DEF ProcessFrame
<1>5. s <= session /\ CellOf(s) \in Cells
  <2>1. session \in Nat
    BY PlanFacts DEF TypeOK
  <2> QED BY <2>1 DEF ShardInv, ProcessAt, NoProcess, Live
<1>6. ProcessAt(s)'
  <2>1. ~(s > session)
    BY <1>5, PlanFacts DEF TypeOK
  <2> QED BY <1>1, <1>2, <2>1 DEF ProcessAt, Awaited
<1>7. StoreAt(s)'
  <2> SUFFICES ASSUME s \in store, interrupted = {}
               PROVE  \E c \in Cells : output'[c].cell.recovery \/ Abandoned(c)'
    BY <1>1, <1>2 DEF StoreAt
  <2>1. CASE Inside(s)
    <3>1. /\ Partial(CellOf(s))
          /\ \A t \in 1 .. Sessions : Inside(t) /\ CellOf(t) = CellOf(s) => t = s
      BY <1>5, <2>1 DEF ShardInv, CellAtWork, Calm
    <3>2. \A t \in 1 .. Sessions : Inside(t)' => process'[t].cell # CellOf(s)
      BY <1>1, <3>1 DEF Inside, CellOf
    <3> QED BY <1>2, <1>5, <3>1, <3>2 DEF Abandoned, Partial, HasCell, CellOf
  <2>2. CASE ~Inside(s)
    <3>1. process[s].at = "start"
      BY <2>2 DEF Inside, Live, TypeOK, Process
    <3> QED BY <3>1 DEF ShardInv, StoreAt
  <2> QED BY <2>1, <2>2
<1>8. ASSUME NEW c \in Cells PROVE CellAtWork(c)'
  <2>1. CellAtWork(c)
    BY DEF ShardInv
  <2>2. \A t \in 1 .. Sessions : Inside(t)' => process'[t] = process[t] /\ Inside(t)
    BY <1>1 DEF Inside
  <2> QED BY <1>2, <2>1, <2>2 DEF CellAtWork, HasCell, Partial, Calm, CellOf
<1> QED BY <1>3, <1>4, <1>5, <1>6, <1>7, <1>8, ProcessStepKeeps

LEMMA CopyQueryKeeps ==
    ASSUME TypeOK, ShardInv, NEW s \in 1 .. session, CopyQuery(s)
    PROVE  TypeOK' /\ ShardInv'
<1>0. s \in 1 .. Sessions /\ s <= session
  BY PlanFacts DEF TypeOK
<1>1. process[s].at = "start" /\ Live(s) /\ ~Inside(s)
  BY DEF CopyQuery, Live, Inside
<1>a. PICK k \in Cells : k = CellOf(s)
  BY <1>0, <1>1 DEF ShardInv, ProcessAt
<1>2. process[s].runs = << >> /\ s \notin store
  BY <1>0, <1>1 DEF ShardInv, ProcessAt, StoreAt
<1>3. CASE output[k].present
  <2>1. Ends(s, 1) /\ UNCHANGED <<output, results, session, driver, store>>
    BY <1>a, <1>3 DEF CopyQuery
  <2> QED BY <1>0, <1>1, <2>1, DeathKeeps
<1>4. CASE ~output[k].present
  <2>1. /\ output' = [output EXCEPT ![k].present = TRUE]
        /\ process' = [process EXCEPT ![s].at = "open"]
        /\ interrupted' = interrupted /\ validation' = validation /\ complete' = complete
        /\ disturbed' = disturbed /\ session' = session /\ driver' = driver /\ store' = store
    BY <1>a, <1>4 DEF CopyQuery, Goes_on, results
  <2>2. /\ output' \in [Cells -> Directory] /\ \A c \in Cells \ {k} : output'[c] = output[c]
        /\ output'[k].present /\ output'[k].cell = output[k].cell
    <3> DEFINE new == [output[k] EXCEPT !.present = TRUE]
    <3>1. output[k] \in Directory
      BY DEF TypeOK
    <3>2. new \in Directory /\ new.present /\ new.cell = output[k].cell
      BY <3>1 DEF Directory
    <3>3. output' = [output EXCEPT ![k] = new]
      BY <2>1
    <3> HIDE DEF new
    <3> QED BY <3>2, <3>3 DEF TypeOK
  <2>3. /\ process' \in [1 .. Sessions -> Process]
        /\ \A t \in 1 .. Sessions \ {s} : process'[t] = process[t]
        /\ process'[s].at = "open" /\ process'[s].cell = process[s].cell
        /\ process'[s].runs = << >>
    <3> DEFINE new == [process[s] EXCEPT !.at = "open"]
    <3>1. process[s] \in Process
      BY <1>0 DEF TypeOK
    <3>2. new \in Process /\ new.at = "open" /\ new.cell = process[s].cell /\ new.runs = << >>
      BY <1>2, <3>1 DEF Process
    <3>3. process' = [process EXCEPT ![s] = new]
      BY <2>1
    <3> HIDE DEF new
    <3> QED BY <1>0, <3>2, <3>3 DEF TypeOK
  <2>4. TypeOK'
    BY <2>1, <2>2, <2>3 DEF TypeOK
  <2>5. ~HasCell(k)
    BY <1>2, <1>4, NotPresent
  <2>6. ProcessFrame(s)
    BY <1>a, <1>1, <1>4, <2>1, <2>2, <2>3 DEF ProcessFrame, CellOf
  <2>7. ProcessAt(s)' /\ StoreAt(s)'
    <3>1. Len(<< >>) < 1 + Measured /\ ~(s > session)
      BY <1>0, PlanFacts DEF TypeOK
    <3> QED BY <1>a, <1>2, <2>1, <2>3, <3>1 DEF ProcessAt, StoreAt, CellOf
  <2>8. CellAtWork(k)'
    <3>1. ASSUME Calm(k)', NEW t \in 1 .. Sessions, Inside(t)', process'[t].cell = k
          PROVE  t = s
      <4>1. t # s => Inside(t) /\ CellOf(t) = k
        BY <2>3, <3>1 DEF Inside, CellOf
      <4>2. Calm(k)
        BY <2>1, <3>1 DEF Calm
      <4> QED BY <1>2, <1>4, <3>1, <4>1, <4>2 DEF ShardInv, CellAtWork, Partial
    <3>2. ~HasCell(k)' /\ Partial(k)'
      BY <2>2, <2>5 DEF HasCell, Partial
    <3> QED BY <2>3, <3>1, <3>2 DEF CellAtWork, CellOf
  <2> QED BY <1>a, <1>0, <1>2, <2>4, <2>6, <2>7, <2>8, ProcessStepKeeps
<1> QED BY <1>3, <1>4

LEMMA OpenExecutionKeeps ==
    ASSUME TypeOK, ShardInv, NEW s \in 1 .. session, OpenExecution(s)
    PROVE  TypeOK' /\ ShardInv'
<1>0. s \in 1 .. Sessions /\ s <= session
  BY PlanFacts DEF TypeOK
<1>1. process[s].at = "open" /\ Live(s) /\ Inside(s)
  BY DEF OpenExecution, Live, Inside
<1>a. PICK k \in Cells : k = CellOf(s)
  BY <1>0, <1>1 DEF ShardInv, ProcessAt
<1> DEFINE i == Len(process[s].runs) + 1
<1>2. /\ k \in Cells /\ s \notin store
      /\ Len(process[s].runs) < 1 + Measured /\ process[s].runs \in Seq(Run)
  BY <1>0, <1>1 DEF ShardInv, ProcessAt, StoreAt, TypeOK, Process
<1>3. CASE i \in output[k].opened \/ (IsCircuit(k) /\ ~output[k].present)
  <2>1. Ends(s, 1) /\ UNCHANGED <<output, results, session, driver, store>>
    BY <1>a, <1>3 DEF OpenExecution
  <2> QED BY <1>0, <1>1, <2>1, DeathKeeps
<1>4. CASE ~(i \in output[k].opened \/ (IsCircuit(k) /\ ~output[k].present))
  <2>1. /\ output' = [output EXCEPT ![k].present = TRUE, ![k].opened = @ \cup {i}]
        /\ process' = [process EXCEPT ![s].at = "run"]
        /\ interrupted' = interrupted /\ validation' = validation /\ complete' = complete
        /\ disturbed' = disturbed /\ session' = session /\ driver' = driver
        /\ store' = (IF IsCircuit(k) THEN store \cup {s} ELSE store)
    BY <1>a, <1>4 DEF OpenExecution, Goes_on, results
  <2>2. i \in Executions
    BY <1>2, PlanFacts DEF Executions
  <2> HIDE DEF i
  <2>3. /\ output' \in [Cells -> Directory] /\ \A c \in Cells \ {k} : output'[c] = output[c]
        /\ output'[k].present /\ output'[k].cell = output[k].cell
        /\ output'[k].runs = output[k].runs
    <3>1. output[k] \in Directory
      BY <1>2 DEF TypeOK
    <3> DEFINE new == [output[k] EXCEPT !.present = TRUE, !.opened = @ \cup {i}]
    <3>2. /\ new \in Directory /\ new.present /\ new.cell = output[k].cell
          /\ new.runs = output[k].runs
      BY <2>2, <3>1 DEF Directory
    <3>3. output' = [output EXCEPT ![k] = new]
      BY <2>1
    <3> HIDE DEF new
    <3> QED BY <1>2, <3>2, <3>3 DEF TypeOK
  <2>4. /\ process' \in [1 .. Sessions -> Process]
        /\ \A t \in 1 .. Sessions \ {s} : process'[t] = process[t]
        /\ process'[s].at = "run" /\ process'[s].cell = process[s].cell
        /\ process'[s].runs = process[s].runs
    BY <1>0, <1>2, <2>1 DEF TypeOK, Process
  <2>5. TypeOK'
    BY <1>0, <2>1, <2>3, <2>4 DEF TypeOK
  <2>6. ProcessFrame(s)
    BY <1>a, <1>1, <2>1, <2>3, <2>4 DEF ProcessFrame, CellOf
  <2>7. ProcessAt(s)' /\ StoreAt(s)'
    <3>1. ~(s > session)
      BY <1>0, PlanFacts DEF TypeOK
    <3> QED BY <1>a, <1>2, <2>1, <2>4, <3>1 DEF ProcessAt, StoreAt, CellOf, Inside
  <2>8. CellAtWork(k)'
    <3>1. CellAtWork(k) /\ (Calm(k)' <=> Calm(k)) /\ (HasCell(k)' <=> HasCell(k))
      BY <1>2, <2>1, <2>3 DEF ShardInv, Calm, HasCell
    <3>2. \A t \in 1 .. Sessions : /\ Inside(t)' <=> Inside(t)
                                   /\ process'[t].cell = CellOf(t)
                                   /\ process'[t].runs = process[t].runs
      BY <1>1, <2>4 DEF Inside, CellOf
    <3> QED BY <2>3, <3>1, <3>2 DEF CellAtWork, Partial, CellOf
  <2> QED BY <1>a, <1>0, <1>2, <2>5, <2>6, <2>7, <2>8, ProcessStepKeeps
<1> QED BY <1>3, <1>4

LEMMA OutcomesAreRuns ==
    ASSUME NEW c \in Cells, NEW runs \in Seq(Run), NEW run \in Outcomes(c, runs)
    PROVE  run \in Run
<1>1. \A i, methods, ok : AnswerFiles(c, i, methods, ok) \subseteq Files
  <2> DEFINE all == {[Logical(d) -> Answers \cup {"none"}] : d \in Cells}
  <2>1. [Logical(c) -> Answers \cup {"none"}] \in all
    OBVIOUS
  <2>2. Files = (UNION all) \cup {<< >>}
    BY DEF Files
  <2> HIDE DEF all
  <2>3. [Logical(c) -> Answers \cup {"none"}] \subseteq Files /\ << >> \in Files
    BY <2>1, <2>2
  <2> QED BY <2>3 DEF AnswerFiles
<1>2. Active(c, runs) \subseteq Methods
  <2>1. runs # << >> => runs[1] \in Run
    OBVIOUS
  <2> QED BY <2>1, PlanFacts DEF Active, Run
<1>3. CASE run \in {[endpoint |-> FALSE, ok |-> {}, answers |-> f] :
                       f \in AnswerFiles(c, Len(runs) + 1, {}, {})}
  <2>1. PICK f \in AnswerFiles(c, Len(runs) + 1, {}, {}) :
           run = [endpoint |-> FALSE, ok |-> {}, answers |-> f]
    BY <1>3
  <2>2. f \in Files
    BY <1>1
  <2> QED BY <2>1, <2>2 DEF Run
<1>4. CASE run \in UNION {{[endpoint |-> TRUE, ok |-> ok, answers |-> f] :
                  f \in AnswerFiles(c, Len(runs) + 1, Active(c, runs), ok)} :
               ok \in SUBSET Active(c, runs)}
  <2>1. PICK ok \in SUBSET Active(c, runs) :
           run \in {[endpoint |-> TRUE, ok |-> ok, answers |-> f] :
                       f \in AnswerFiles(c, Len(runs) + 1, Active(c, runs), ok)}
    BY <1>4
  <2>2. PICK f \in AnswerFiles(c, Len(runs) + 1, Active(c, runs), ok) :
           run = [endpoint |-> TRUE, ok |-> ok, answers |-> f]
    BY <2>1
  <2> QED BY <1>1, <1>2, <2>1, <2>2 DEF Run
<1> QED BY <1>3, <1>4 DEF Outcomes

LEMMA ExecuteKeeps ==
    ASSUME TypeOK, ShardInv, NEW s \in 1 .. session, Execute(s)
    PROVE  TypeOK' /\ ShardInv'
<1>0. s \in 1 .. Sessions /\ s <= session
  BY PlanFacts DEF TypeOK
<1>1. process[s].at = "run" /\ Live(s) /\ Inside(s)
  BY DEF Execute, Live, Inside
<1>a. PICK k \in Cells : k = CellOf(s)
  BY <1>0, <1>1 DEF ShardInv, ProcessAt
<1> DEFINE i == Len(process[s].runs) + 1
<1>2. /\ k \in Cells /\ Len(process[s].runs) < 1 + Measured /\ process[s].runs \in Seq(Run)
  BY <1>0, <1>1 DEF ShardInv, ProcessAt, TypeOK, Process
<1>3. PICK run \in Outcomes(k, process[s].runs) :
        LET runs == Append(process[s].runs, run)
        IN /\ output' = [output EXCEPT ![k].present = TRUE, ![k].opened = @ \cup {i},
                                       ![k].runs[i] = run]
           /\ process' = [process EXCEPT ![s].runs = runs,
                                         ![s].at = IF Goes(k, runs) THEN "open" ELSE "final"]
           /\ store' \in IF run.endpoint THEN {store \ {s}} ELSE {store, store \ {s}}
  BY <1>a DEF Execute
<1> DEFINE runs == Append(process[s].runs, run)
           to == IF Goes(k, runs) THEN "open" ELSE "final"
<1>4. /\ interrupted' = interrupted /\ validation' = validation /\ complete' = complete
      /\ disturbed' = disturbed /\ session' = session /\ driver' = driver
  BY DEF Execute, results
<1>5. run \in Run
  BY <1>2, OutcomesAreRuns
<1>6. i \in Executions /\ i = Len(process[s].runs) + 1
  BY <1>2, PlanFacts DEF Executions
<1>7. /\ runs \in Seq(Run) /\ DOMAIN runs = 1 .. i /\ runs[i] = run
      /\ \A j \in DOMAIN runs : j # i => j \in DOMAIN process[s].runs
                                         /\ runs[j] = process[s].runs[j]
  BY <1>2, <1>5
<1>8. to = "open" => Len(runs) < 1 + Measured /\ \A j \in DOMAIN runs : runs[j].endpoint
  BY DEF Goes
<1>9. s \in store' => s \in store /\ ~run.endpoint /\ to = "final"
  <2>1. s \in store' => s \in store /\ ~run.endpoint
    BY <1>3
  <2>2. i \in DOMAIN runs
    BY <1>6, <1>7 DEF Executions
  <2> QED BY <1>7, <1>8, <2>1, <2>2
<1>10. /\ output' = [output EXCEPT ![k] = [output[k] EXCEPT !.present = TRUE,
                                       !.opened = @ \cup {i}, !.runs[i] = run]]
       /\ process' = [process EXCEPT ![s] = [process[s] EXCEPT !.runs = runs, !.at = to]]
  BY <1>3
<1>11. to \in {"open", "final"}
  OBVIOUS
<1>12. store' \in SUBSET (1 .. Sessions) /\ \A t \in 1 .. Sessions \ {s} : t \in store' <=> t \in store
  BY <1>3 DEF TypeOK
<1> HIDE DEF i, runs, to
<1>13. /\ output' \in [Cells -> Directory] /\ \A c \in Cells \ {k} : output'[c] = output[c]
       /\ output'[k].present /\ output'[k].cell = output[k].cell
       /\ output'[k].runs[i] = run
       /\ \A j \in Executions : j # i => output'[k].runs[j] = output[k].runs[j]
  <2>1. output[k] \in Directory
    BY <1>2 DEF TypeOK
  <2> DEFINE past == [output[k].runs EXCEPT ![i] = run]
             new == [output[k] EXCEPT !.present = TRUE, !.opened = @ \cup {i}, !.runs = past]
  <2>2. /\ past \in [Executions -> Run \cup {<< >>}] /\ past[i] = run
        /\ \A j \in Executions : j # i => past[j] = output[k].runs[j]
    BY <1>5, <1>6, <2>1 DEF Directory
  <2>3. new = [output[k] EXCEPT !.present = TRUE, !.opened = @ \cup {i}, !.runs[i] = run]
    OBVIOUS
  <2> HIDE DEF past
  <2>4. new \in Directory /\ new.present /\ new.cell = output[k].cell /\ new.runs = past
    BY <1>6, <2>1, <2>2 DEF Directory
  <2>5. output' = [output EXCEPT ![k] = new]
    BY <1>10, <2>3
  <2> HIDE DEF new
  <2> QED BY <1>2, <2>2, <2>4, <2>5 DEF TypeOK
<1>14. /\ process' \in [1 .. Sessions -> Process]
       /\ \A t \in 1 .. Sessions \ {s} : process'[t] = process[t]
       /\ process'[s].at = to /\ process'[s].cell = process[s].cell
       /\ process'[s].runs = runs
  <2> DEFINE new == [process[s] EXCEPT !.runs = runs, !.at = to]
  <2>1. process[s] \in Process
    BY <1>0 DEF TypeOK
  <2>2. /\ new \in Process /\ new.at = to /\ new.cell = process[s].cell /\ new.runs = runs
    BY <1>7, <1>11, <2>1 DEF Process
  <2>3. process' = [process EXCEPT ![s] = new]
    BY <1>10
  <2> HIDE DEF new
  <2> QED BY <1>0, <2>2, <2>3 DEF TypeOK
<1>15. TypeOK'
  BY <1>4, <1>12, <1>13, <1>14 DEF TypeOK
<1>16. ProcessFrame(s)
  BY <1>a, <1>1, <1>4, <1>12, <1>13, <1>14 DEF ProcessFrame, CellOf
<1>17. ProcessAt(s)'
  <2>1. ~(s > session)
    BY <1>0, PlanFacts DEF TypeOK
  <2> QED BY <1>a, <1>2, <1>4, <1>8, <1>11, <1>14, <2>1 DEF ProcessAt, CellOf
<1>18. StoreAt(s)'
  <2>1. s \in store' => IsCircuit(k)
    BY <1>a, <1>0, <1>1, <1>9 DEF ShardInv, StoreAt
  <2>2. s \in store' => \E j \in DOMAIN runs : ~runs[j].endpoint
    <3>1. i \in DOMAIN runs
      BY <1>6, <1>7 DEF Executions
    <3> QED BY <1>7, <1>9, <3>1
  <2> QED BY <1>a, <1>9, <1>14, <2>1, <2>2 DEF StoreAt, CellOf, Inside
<1>19. CellAtWork(k)'
  <2>1. CellAtWork(k) /\ (Calm(k)' <=> Calm(k)) /\ (HasCell(k)' <=> HasCell(k))
    BY <1>2, <1>4, <1>13 DEF ShardInv, Calm, HasCell
  <2>2. \A t \in 1 .. Sessions : /\ Inside(t)' <=> Inside(t)
                                 /\ process'[t].cell = CellOf(t)
    BY <1>1, <1>11, <1>14 DEF Inside, CellOf
  <2>3. CASE Calm(k)
    <3>1. /\ ~HasCell(k) /\ Partial(k)
          /\ \A j \in DOMAIN process[s].runs : output[k].runs[j] = process[s].runs[j]
          /\ \A t \in 1 .. Sessions : Inside(t) /\ CellOf(t) = k => t = s
      BY <1>a, <1>0, <1>1, <2>1, <2>3 DEF CellAtWork, Partial
    <3>2. \A j \in DOMAIN runs : output'[k].runs[j] = runs[j]
      <4>1. ASSUME NEW j \in DOMAIN runs, j # i PROVE output'[k].runs[j] = runs[j]
        <5>1. j \in DOMAIN process[s].runs /\ runs[j] = process[s].runs[j]
          BY <1>7, <4>1
        <5>2. j \in Executions
          BY <1>6, <1>7, PlanFacts DEF Executions
        <5> QED BY <1>13, <3>1, <4>1, <5>1, <5>2
      <4> QED BY <1>7, <1>13, <4>1
    <3>3. ~HasCell(k)' /\ Partial(k)'
      BY <1>13, <2>1, <3>1 DEF Partial
    <3>4. ASSUME NEW t \in 1 .. Sessions, Inside(t)', process'[t].cell = k
          PROVE  t = s
      BY <2>2, <3>1, <3>4
    <3> QED BY <1>14, <3>2, <3>3, <3>4 DEF CellAtWork, CellOf
  <2>4. CASE ~Calm(k)
    BY <1>13, <2>1, <2>4 DEF CellAtWork
  <2> QED BY <2>3, <2>4
<1> QED BY <1>a, <1>0, <1>2, <1>15, <1>16, <1>17, <1>18, <1>19, ProcessStepKeeps

LEMMA CellRecordFacts ==
    ASSUME TypeOK, NEW c \in Cells, NEW runs \in Seq(Run)
    PROVE  /\ CellRecord(c, runs) \in CellSet /\ CellRecord(c, runs) # NoCell
           /\ CellRecord(c, runs).runs = runs
           /\ CellRecord(c, runs).recovery = Recovery(c, runs)
           /\ DOMAIN CellRecord(c, runs).status = Logical(c)
           /\ \A m \in Logical(c) : CellRecord(c, runs).status[m] = "ok" => Complete(runs, m)
<1> DEFINE status == [m \in Logical(c) |-> IF Mismatch(c) THEN "answer-mismatch"
                                           ELSE IF Complete(runs, m) THEN "ok" ELSE "incomplete"]
           cell == [status |-> status, recovery |-> Recovery(c, runs), runs |-> runs]
<1>1. CellRecord(c, runs) = cell
  BY DEF CellRecord
<1>2. /\ DOMAIN status = Logical(c)
      /\ status \in [Logical(c) -> {"ok", "incomplete", "answer-mismatch"}]
      /\ \A m \in Logical(c) : status[m] = "ok" => Complete(runs, m)
  OBVIOUS
<1>3. status # << >>
  <2>1. DOMAIN status # DOMAIN << >>
    BY <1>2, PlanFacts
  <2> HIDE DEF status
  <2> QED BY <2>1
<1>4. Recovery(c, runs) \in BOOLEAN
  BY DEF Recovery
<1> HIDE DEF status
<1>5. cell \in CellSet
  BY <1>2, <1>4 DEF CellSet
<1>6. cell # NoCell
  BY <1>3 DEF NoCell
<1>7. cell.status = status /\ cell.recovery = Recovery(c, runs) /\ cell.runs = runs
  OBVIOUS
<1> QED BY <1>1, <1>2, <1>5, <1>6, <1>7

LEMMA WriteCellKeeps ==
    ASSUME TypeOK, ShardInv, NEW s \in 1 .. session, WriteCell(s)
    PROVE  TypeOK' /\ ShardInv'
<1>0. s \in 1 .. Sessions /\ s <= session
  BY PlanFacts DEF TypeOK
<1>1. process[s].at = "final" /\ Live(s) /\ Inside(s)
  BY DEF WriteCell, Live, Inside
<1>a. PICK k \in Cells : k = CellOf(s)
  BY <1>0, <1>1 DEF ShardInv, ProcessAt
<1> DEFINE cell == CellRecord(k, process[s].runs)
           code == IF cell.recovery THEN 20 ELSE 0
<1>2. k \in Cells /\ process[s].runs \in Seq(Run)
  BY <1>0, <1>1 DEF ShardInv, ProcessAt, TypeOK, Process
<1>3. /\ output' = [output EXCEPT ![k].present = TRUE, ![k].cell = cell] /\ Ends(s, code)
      /\ interrupted' = interrupted /\ validation' = validation /\ complete' = complete
      /\ disturbed' = disturbed /\ session' = session /\ driver' = driver /\ store' = store
  BY <1>a DEF WriteCell, results
<1>4. /\ cell \in CellSet /\ cell # NoCell /\ cell.runs = process[s].runs
      /\ cell.recovery = Recovery(k, process[s].runs) /\ DOMAIN cell.status = Logical(k)
      /\ \A m \in Logical(k) : cell.status[m] = "ok" => Complete(cell.runs, m)
  BY <1>2, CellRecordFacts
<1>5. code \in {0, 20} /\ (cell.recovery => code = 20)
  OBVIOUS
<1> HIDE DEF cell, code
<1>6. /\ process' \in [1 .. Sessions -> Process]
      /\ \A t \in 1 .. Sessions \ {s} : process'[t] = process[t]
      /\ ~Inside(s)' /\ ~Live(s)' /\ process'[s].at \notin {"start", "open", "run", "final"}
      /\ process'[s].at = "ended" => Awaited(s) /\ process'[s].code = code
  BY <1>0, <1>3, <1>5, EndsFacts
<1>7. /\ output' \in [Cells -> Directory] /\ \A c \in Cells \ {k} : output'[c] = output[c]
      /\ output'[k].present /\ output'[k].cell = cell
      /\ output'[k].runs = output[k].runs
  <2>1. output[k] \in Directory
    BY <1>2 DEF TypeOK
  <2> DEFINE new == [output[k] EXCEPT !.present = TRUE, !.cell = cell]
  <2>2. /\ new \in Directory /\ new.present /\ new.cell = cell
        /\ new.runs = output[k].runs
    BY <1>4, <2>1 DEF Directory
  <2>3. output' = [output EXCEPT ![k] = new]
    BY <1>3
  <2> HIDE DEF new
  <2> QED BY <1>2, <2>2, <2>3 DEF TypeOK
<1>8. TypeOK'
  BY <1>3, <1>6, <1>7 DEF TypeOK
<1>9. ProcessFrame(s)
  BY <1>a, <1>1, <1>3, <1>6, <1>7 DEF ProcessFrame, CellOf
<1>10. ProcessAt(s)'
  <2>1. ~(s > session)
    BY <1>0, PlanFacts DEF TypeOK
  <2> QED BY <1>3, <1>6, <2>1 DEF ProcessAt, Awaited
<1>11. StoreAt(s)'
  <2>1. s \in store => output'[k].cell.recovery /\ code = 20
    <3>1. s \in store => IsCircuit(k) /\ \E i \in DOMAIN process[s].runs :
                                            ~process[s].runs[i].endpoint
      BY <1>a, <1>0, <1>1 DEF ShardInv, StoreAt
    <3> QED BY <1>4, <1>5, <1>7, <3>1 DEF Recovery
  <2>2. s \in store' => \E c \in Cells : output'[c].cell.recovery
    BY <1>3, <2>1
  <2>3. s \in store' /\ process'[s].at = "ended" => process'[s].code # 0
    BY <1>3, <1>6, <2>1
  <2> QED BY <1>6, <2>2, <2>3 DEF StoreAt
<1>12. CellAtWork(k)'
  <2>1. CellAtWork(k) /\ (Calm(k)' <=> Calm(k))
    BY <1>2, <1>3 DEF ShardInv, Calm
  <2>2. Calm(k) => \A i \in DOMAIN cell.runs : output'[k].runs[i] = cell.runs[i]
    BY <1>a, <1>0, <1>1, <1>4, <1>7, <2>1 DEF CellAtWork
  <2>3. Calm(k) => \A t \in 1 .. Sessions : ~(Inside(t)' /\ process'[t].cell = k)
    <3>1. Calm(k) => \A t \in 1 .. Sessions : Inside(t) /\ CellOf(t) = k => t = s
      BY <1>a, <1>0, <1>1, <2>1 DEF CellAtWork
    <3>2. \A t \in 1 .. Sessions : Inside(t)' => Inside(t) /\ t # s /\ process'[t] = process[t]
      BY <1>6 DEF Inside
    <3> QED BY <3>1, <3>2 DEF CellOf
  <2> QED BY <1>4, <1>7, <2>1, <2>2, <2>3 DEF CellAtWork, HasCell, CellOf
<1> QED BY <1>a, <1>0, <1>2, <1>8, <1>9, <1>10, <1>11, <1>12, ProcessStepKeeps

LEMMA ProcessDiesKeeps ==
    ASSUME TypeOK, ShardInv, NEW s \in 1 .. session, ProcessDies(s)
    PROVE  TypeOK' /\ ShardInv'
<1>1. s \in 1 .. Sessions
  BY PlanFacts DEF TypeOK
<1> QED BY <1>1, DeathKeeps DEF ProcessDies

-----------------------------------------------------------------------------
(* Steps of the driver                                                      *)

\* A step that leaves the directories alone and lets no process in keeps what is said
\* of the cells, of the traces in them, and of what was archived.
LEMMA DriverKeepsCells ==
    ASSUME TypeOK, ShardInv, output' = output, interrupted' = interrupted,
           disturbed \subseteq disturbed',
           \A s \in 1 .. Sessions : Inside(s)' => process'[s] = process[s]
    PROVE  /\ \A c \in Cells : CellAtWork(c)' /\ (Abandoned(c) => Abandoned(c)')
           /\ ArchivedInv' /\ CellsKept
<1>1. \A s \in 1 .. Sessions : Inside(s)' => Inside(s) /\ process'[s] = process[s]
  BY DEF Inside
<1>2. ASSUME NEW c \in Cells PROVE CellAtWork(c)'
  <2>1. CellAtWork(c) /\ (Calm(c)' => Calm(c))
    BY DEF ShardInv, Calm
  <2> QED BY <1>1, <2>1 DEF CellAtWork, HasCell, Partial, CellOf
<1>3. ASSUME NEW c \in Cells, Abandoned(c) PROVE Abandoned(c)'
  BY <1>1, <1>3 DEF Abandoned, HasCell, Partial, CellOf
<1>4. ArchivedInv' /\ CellsKept
  BY DEF ShardInv, ArchivedInv, CellsKept
<1> QED BY <1>2, <1>3, <1>4

\* One step of the driver: its own part, the processes and the traces remain.
LEMMA DriverStepKeeps ==
    ASSUME TypeOK, ShardInv, output' = output, interrupted' = interrupted,
           disturbed \subseteq disturbed',
           \A s \in 1 .. Sessions : Inside(s)' => process'[s] = process[s],
           \A s \in 1 .. Sessions : ProcessAt(s)',
           \A s \in store' : /\ s \in store /\ process'[s].at \notin {"start", "open"}
                             /\ process'[s].at = "ended" => process'[s] = process[s]
                             /\ Inside(s) => \/ Inside(s)'
                                             \/ \E c \in Cells : Abandoned(c)',
           DriverInv', CompleteIsTrue', ParityInv'
    PROVE  ShardInv'
<1>1. /\ \A c \in Cells : CellAtWork(c)' /\ (Abandoned(c) => Abandoned(c)')
      /\ ArchivedInv'
  BY DriverKeepsCells
<1>2. ASSUME NEW s \in 1 .. Sessions PROVE StoreAt(s)'
  <2> SUFFICES ASSUME s \in store' PROVE StoreAt(s)'
    BY DEF StoreAt
  <2>1. /\ s \in store /\ StoreAt(s) /\ process'[s].at \notin {"start", "open"}
        /\ process'[s].at = "ended" => process'[s] = process[s]
        /\ Inside(s)' => process'[s] = process[s] /\ Inside(s)
    BY DEF ShardInv, Inside
  <2>2. \/ interrupted' # {} \/ Inside(s)'
        \/ \E c \in Cells : output'[c].cell.recovery \/ Abandoned(c)'
    BY <1>1, <2>1 DEF StoreAt
  <2>3. /\ Inside(s)' => IsCircuit(process'[s].cell)
        /\ process'[s].at = "final" =>
             \E i \in DOMAIN process'[s].runs : ~process'[s].runs[i].endpoint
        /\ process'[s].at = "ended" => process'[s].code # 0
    BY <2>1 DEF StoreAt, Inside, CellOf
  <2> QED BY <2>1, <2>2, <2>3 DEF StoreAt, CellOf
<1> QED BY <1>1, <1>2 DEF ShardInv

\* The driver's step leaves the processes and the store alone.
LEMMA DriverOnlyKeeps ==
    ASSUME TypeOK, ShardInv, output' = output, interrupted' = interrupted,
           disturbed \subseteq disturbed', process' = process, store' = store,
           session' = session, driver.doing # "await",
           validation' = validation \/ ParityInv', complete' = complete \/ CompleteIsTrue',
           DriverInv'
    PROVE  ShardInv'
<1>1. CellsKept
  BY DriverKeepsCells
<1>2. ParityInv' /\ CompleteIsTrue'
  BY <1>1, ParityKept, CompleteKept DEF ShardInv
<1>3. ASSUME NEW s \in 1 .. Sessions PROVE ProcessAt(s)' /\ process[s].at # "ended"
  BY DEF ShardInv, ProcessAt, Live, CellOf
<1>4. \A s \in store : process[s].at \notin {"start", "open"} /\ s \in 1 .. Sessions
  BY DEF ShardInv, StoreAt, TypeOK
<1>5. \A s \in 1 .. Sessions : Inside(s)' <=> Inside(s)
  BY DEF Inside
<1> QED BY <1>2, <1>3, <1>4, <1>5, DriverStepKeeps

LEMMA StartKeeps ==
    ASSUME TypeOK, ShardInv, Start
    PROVE  TypeOK' /\ ShardInv'
<1>1. /\ driver.doing \in {"none", "ended"} /\ session < Sessions /\ session' = session + 1
      /\ driver' = [doing |-> "look", cell |-> 1]
      /\ output' = output /\ interrupted' = interrupted /\ validation' = validation
      /\ complete' = complete /\ disturbed' = disturbed /\ process' = process /\ store' = store
  BY DEF Start, Working, At, results
<1>2. session \in Nat /\ session + 1 \in 1 .. Sessions /\ 1 \in Cells /\ 1 \in 0 .. Len(Plan)
  BY <1>1, PlanFacts DEF TypeOK
<1>3. TypeOK'
  BY <1>1, <1>2 DEF TypeOK
<1>4. \A s \in 1 .. Sessions : process[s].at # "ended"
  BY <1>1 DEF ShardInv, ProcessAt
<1>5. process[session + 1] = NoProcess /\ session + 1 \notin store
  BY <1>2 DEF ShardInv, ProcessAt
<1>6. ASSUME NEW s \in 1 .. Sessions PROVE ProcessAt(s)'
  <2>1. s > session + 1 => s > session
    BY <1>2
  <2> QED BY <1>1, <1>4, <2>1 DEF ShardInv, ProcessAt, Live, CellOf
<1>7. DriverInv'
  <2>1. \A c \in Cells : ~(c < 1)
    BY PlanFacts
  <2> QED BY <1>1, <1>2, <1>5, <2>1 DEF DriverInv, Working, NoProcess
<1>8. ParityInv' /\ CompleteIsTrue'
  BY <1>1, DriverKeepsCells, ParityKept, CompleteKept DEF ShardInv
<1>9. \A s \in store : /\ process[s].at \notin {"start", "open"} /\ s \in 1 .. Sessions
  BY DEF ShardInv, StoreAt, TypeOK
<1>10. \A s \in 1 .. Sessions : Inside(s)' <=> Inside(s)
  BY <1>1 DEF Inside
<1> QED BY <1>1, <1>3, <1>4, <1>6, <1>7, <1>8, <1>9, <1>10, DriverStepKeeps

LEMMA LookKeeps ==
    ASSUME TypeOK, ShardInv, Look
    PROVE  TypeOK' /\ ShardInv'
<1> DEFINE to == IF Partial(driver.cell) THEN "archive" ELSE "visit"
           live == {c \in {driver.cell} :
                      Partial(c) /\ \E s \in 1 .. session : Live(s) /\ CellOf(s) = c}
<1>1. /\ driver.doing = "look" /\ driver' = [doing |-> to, cell |-> driver.cell]
      /\ disturbed' = disturbed \cup live
      /\ output' = output /\ interrupted' = interrupted /\ validation' = validation
      /\ complete' = complete /\ session' = session /\ process' = process /\ store' = store
  BY DEF Look, At
<1>2. /\ session # 0 /\ driver.cell \in Cells /\ process[session].at = "none"
      /\ session \notin store
      /\ \A c \in Cells \ disturbed : c < driver.cell => HasCell(c)
  BY <1>1 DEF ShardInv, DriverInv, Working
<1>3. to \in {"archive", "visit"} /\ live \subseteq Cells
  BY <1>2
<1>4. driver.cell \in 0 .. Len(Plan) /\ session \in 1 .. Sessions
  BY <1>2, PlanFacts DEF TypeOK
<1>5. to = "archive" /\ driver.cell \notin live =>
         /\ Partial(driver.cell)
         /\ \A s \in 1 .. Sessions : Live(s) => CellOf(s) # driver.cell
  <2> SUFFICES ASSUME to = "archive", driver.cell \notin live,
                      NEW s \in 1 .. Sessions, Live(s), CellOf(s) = driver.cell
               PROVE  FALSE
    OBVIOUS
  <2>1. s <= session
    BY <1>4, PlanFacts DEF ShardInv, ProcessAt, Live, NoProcess
  <2> QED BY <2>1
<1> HIDE DEF to, live
<1>6. TypeOK'
  BY <1>1, <1>3, <1>4 DEF TypeOK
<1>7. DriverInv'
  <2>1. driver'.doing = to /\ driver'.cell = driver.cell /\ disturbed \subseteq disturbed'
    BY <1>1
  <2>2. Partial(driver.cell)' <=> Partial(driver.cell)
    BY <1>1 DEF Partial, HasCell
  <2> QED BY <1>1, <1>2, <1>3, <1>5, <2>1, <2>2 DEF DriverInv, Working, HasCell, Live, CellOf
<1>8. driver.doing # "await" /\ disturbed \subseteq disturbed'
  BY <1>1
<1> QED BY <1>1, <1>6, <1>7, <1>8, DriverOnlyKeeps

\* Going on from a cell that has its record.
LEMMA NextCellFacts ==
    ASSUME TypeOK, ShardInv, NEW c \in Cells, Next_cell(c), c \notin disturbed => HasCell(c),
           \A d \in Cells \ disturbed : d < c => HasCell(d),
           session # 0, output' = output, disturbed' = disturbed, session' = session,
           process'[session].at = "none", store' = store,
           session \notin store
    PROVE  DriverInv' /\ driver' \in [doing : {"look", "finish"}, cell : 0 .. Len(Plan)]
<1>1. /\ driver' = (IF c < Len(Plan) THEN [doing |-> "look", cell |-> c + 1]
                                     ELSE [doing |-> "finish", cell |-> c])
  BY DEF Next_cell, At
<1>2. /\ Cells = 1 .. Len(Plan) /\ Len(Plan) \in Nat
  BY PlanFacts
<1>3. \A d \in Cells : HasCell(d)' <=> HasCell(d)
  BY DEF HasCell
<1>4. CASE c < Len(Plan)
  <2>1. driver'.doing = "look" /\ driver'.cell = c + 1 /\ c + 1 \in Cells
    BY <1>1, <1>2, <1>4
  <2>2. \A d \in Cells : d < c + 1 => d < c \/ d = c
    BY <1>2
  <2>3. driver' \in [doing : {"look", "finish"}, cell : 0 .. Len(Plan)]
    BY <1>1, <1>2, <1>4
  <2> QED BY <1>3, <2>1, <2>2, <2>3 DEF DriverInv, Working
<1>5. CASE ~(c < Len(Plan))
  <2>1. driver'.doing = "finish" /\ driver'.cell = c
    BY <1>1, <1>5
  <2>2. \A d \in Cells : d < c \/ d = c
    BY <1>2, <1>5
  <2>3. driver' \in [doing : {"look", "finish"}, cell : 0 .. Len(Plan)]
    BY <1>1, <1>2, <1>5
  <2> QED BY <1>3, <2>1, <2>2, <2>3 DEF DriverInv, Working
<1> QED BY <1>4, <1>5

LEMMA ReuseKeeps ==
    ASSUME TypeOK, ShardInv, Reuse
    PROVE  TypeOK' /\ ShardInv'
<1>1. /\ driver.doing = "visit" /\ HasCell(driver.cell) /\ Next_cell(driver.cell)
      /\ output' = output /\ interrupted' = interrupted /\ validation' = validation
      /\ complete' = complete /\ disturbed' = disturbed /\ session' = session
      /\ process' = process /\ store' = store
  BY DEF Reuse, results
<1>2. /\ session # 0 /\ driver.cell \in Cells /\ process[session].at = "none"
      /\ session \notin store
      /\ \A c \in Cells \ disturbed : c < driver.cell => HasCell(c)
  BY <1>1 DEF ShardInv, DriverInv, Working
<1>3. DriverInv' /\ driver' \in [doing : {"look", "finish"}, cell : 0 .. Len(Plan)]
  BY <1>1, <1>2, NextCellFacts
<1>4. TypeOK'
  BY <1>1, <1>3 DEF TypeOK
<1> QED BY <1>1, <1>3, <1>4, DriverOnlyKeeps

LEMMA SpawnKeeps ==
    ASSUME TypeOK, ShardInv, Spawn
    PROVE  TypeOK' /\ ShardInv'
<1> DEFINE new == [NoProcess EXCEPT !.at = "start", !.cell = driver.cell]
<1>1. /\ driver.doing = "visit" /\ ~HasCell(driver.cell)
      /\ process' = [process EXCEPT ![session] = new]
      /\ driver' = [doing |-> "await", cell |-> driver.cell]
      /\ output' = output /\ interrupted' = interrupted /\ validation' = validation
      /\ complete' = complete /\ disturbed' = disturbed /\ session' = session /\ store' = store
  BY DEF Spawn, At, results
<1>2. /\ session # 0 /\ driver.cell \in Cells /\ process[session].at = "none"
      /\ session \notin store
      /\ \A c \in Cells \ disturbed : c < driver.cell => HasCell(c)
  BY <1>1 DEF ShardInv, DriverInv, Working
<1>3. driver.cell \in 0 .. Len(Plan) /\ session \in 1 .. Sessions /\ 1 + Measured > 0
      /\ session \in Nat
  BY <1>2, PlanFacts DEF TypeOK
<1>4. new \in Process /\ new.at = "start" /\ new.cell = driver.cell /\ new.runs = << >>
  <2>1. NoProcess \in Process /\ NoProcess.runs = << >>
    <3>1. 0 \in 0 .. Len(Plan) /\ << >> \in Seq(Run)
      BY PlanFacts
    <3> QED BY <3>1 DEF NoProcess, Process
  <2> QED BY <1>3, <2>1 DEF Process
<1> HIDE DEF new
<1>5. /\ process' \in [1 .. Sessions -> Process] /\ process'[session] = new
      /\ \A s \in 1 .. Sessions \ {session} : process'[s] = process[s]
  BY <1>1, <1>3, <1>4 DEF TypeOK
<1>6. TypeOK'
  BY <1>1, <1>3, <1>5 DEF TypeOK
<1>7. ASSUME NEW s \in 1 .. Sessions PROVE ProcessAt(s)' /\ process[s].at # "ended"
  <2>1. ProcessAt(s) /\ process[s].at # "ended"
    BY <1>1 DEF ShardInv, ProcessAt
  <2>2. CASE s = session
    <3>1. ~(s > session) /\ Len(<< >>) < 1 + Measured
      BY <1>3, <2>2
    <3> QED BY <1>1, <1>2, <1>4, <1>5, <2>1, <2>2, <3>1 DEF ProcessAt, CellOf
  <2>3. CASE s # session
    BY <1>1, <1>5, <2>1, <2>3 DEF ProcessAt, Live, CellOf
  <2> QED BY <2>1, <2>2, <2>3
<1>8. DriverInv'
  BY <1>1, <1>2 DEF DriverInv, Working, HasCell
<1>9. \A s \in 1 .. Sessions : /\ Inside(s)' => process'[s] = process[s]
                               /\ Inside(s) => Inside(s)'
  BY <1>2, <1>4, <1>5 DEF Inside
<1>10. \A s \in store : /\ s \in 1 .. Sessions /\ process'[s].at \notin {"start", "open"}
                        /\ process'[s].at # "ended"
  BY <1>2, <1>5, <1>7 DEF ShardInv, StoreAt, TypeOK
<1>11. ParityInv' /\ CompleteIsTrue'
  BY <1>1, <1>9, DriverKeepsCells, ParityKept, CompleteKept DEF ShardInv
<1> QED BY <1>1, <1>6, <1>7, <1>8, <1>9, <1>10, <1>11, DriverStepKeeps

\* What write_query_validations writes holds of the cells that are there.
LEMMA ValidatedFacts ==
    ASSUME TypeOK, ShardInv, output' = output, disturbed \subseteq disturbed',
           validation' = Validated
    PROVE  ParityInv' /\ validation' \in {"none", "unknown", "equal", "different"}
<1>1. CASE validation # "none" \/ \E c \in Cells : ~HasCell(c)
  <2>1. validation' = validation
    BY <1>1 DEF Validated
  <2>2. CellsKept
    BY DEF CellsKept
  <2> QED BY <2>1, <2>2, ParityKept DEF ShardInv, TypeOK
<1>2. CASE validation = "none" /\ \A c \in Cells : HasCell(c)
  <2>1. \/ validation' = "unknown"
        \/ /\ validation' = (IF \A p \in Compared : AnswersOf(p[1]) = AnswersOf(p[2])
                             THEN "equal" ELSE "different")
           /\ AllSucceeded
    BY <1>2 DEF Validated
  <2>2. AllSucceeded => \A c \in Cells : CellOk(output[c].cell)
    BY <1>2 DEF AllSucceeded, CellOk, ShardInv, CellAtWork
  <2>3. \A c \in Cells : HasCell(c)' /\ (CellOk(output'[c].cell) <=> CellOk(output[c].cell))
    BY <1>2 DEF HasCell
  <2>4. \A m : AnswersOf(m)' = AnswersOf(m)
    BY DEF AnswersOf
  <2>5. CASE validation' = "unknown"
    BY <2>5 DEF ParityInv
  <2>6. CASE /\ validation' = (IF \A p \in Compared : AnswersOf(p[1]) = AnswersOf(p[2])
                             THEN "equal" ELSE "different")
             /\ AllSucceeded
    <3>1. (\A p \in Compared : AnswersOf(p[1])' = AnswersOf(p[2])')
             <=> (\A p \in Compared : AnswersOf(p[1]) = AnswersOf(p[2]))
      BY <2>4
    <3>2. validation' \in {"equal", "different"}
      BY <2>6
    <3>3. (validation' = "equal") = (\A p \in Compared : AnswersOf(p[1])' = AnswersOf(p[2])')
      BY <2>6, <3>1
    <3> QED BY <2>2, <2>3, <2>6, <3>2, <3>3 DEF ParityInv
  <2> QED BY <2>1, <2>5, <2>6
<1> QED BY <1>1, <1>2

LEMMA CollectKeeps ==
    ASSUME TypeOK, ShardInv, Collect
    PROVE  TypeOK' /\ ShardInv'
<1> DEFINE code == process[session].code
<1>1. /\ driver.doing = "await" /\ process[session].at = "ended" /\ validation' = Validated
      /\ IF EndsDriver(driver.cell, code) THEN driver' = [doing |-> "ended", cell |-> 0]
                                          ELSE Next_cell(driver.cell)
      /\ process' = [process EXCEPT ![session] = NoProcess]
      /\ output' = output /\ interrupted' = interrupted /\ complete' = complete
      /\ disturbed' = disturbed /\ session' = session /\ store' = store
  BY DEF Collect, At
<1>2. /\ session # 0 /\ driver.cell \in Cells
      /\ \A c \in Cells \ disturbed : c < driver.cell => HasCell(c)
  BY <1>1 DEF ShardInv, DriverInv, Working
<1>3. session \in 1 .. Sessions /\ session \in Nat /\ 0 \in 0 .. Len(Plan)
  BY <1>2, PlanFacts DEF TypeOK
<1>4. NoProcess \in Process /\ NoProcess.at = "none"
  BY <1>3 DEF NoProcess, Process
<1>5. /\ process' \in [1 .. Sessions -> Process] /\ process'[session] = NoProcess
      /\ \A s \in 1 .. Sessions \ {session} : process'[s] = process[s]
  BY <1>1, <1>3, <1>4 DEF TypeOK
<1>6. ParityInv' /\ validation' \in {"none", "unknown", "equal", "different"}
  BY <1>1, ValidatedFacts
<1>7. /\ DriverInv'
      /\ driver' \in [doing : {"look", "finish", "ended"}, cell : 0 .. Len(Plan)]
  <2>1. CASE EndsDriver(driver.cell, code)
    BY <1>1, <1>3, <2>1 DEF DriverInv, Working
  <2>2. CASE ~EndsDriver(driver.cell, code)
    <3>1. HasCell(driver.cell) /\ code = 0 /\ Next_cell(driver.cell)
      BY <1>1, <2>2 DEF EndsDriver
    <3>2. session \notin store
      BY <1>1, <1>3, <3>1 DEF ShardInv, StoreAt
    <3>3. DriverInv' /\ driver' \in [doing : {"look", "finish"}, cell : 0 .. Len(Plan)]
      BY <1>1, <1>2, <1>4, <1>5, <3>1, <3>2, NextCellFacts
    <3> QED BY <3>3
  <2> QED BY <2>1, <2>2
<1>8. TypeOK'
  BY <1>1, <1>5, <1>6, <1>7 DEF TypeOK
<1>9. ASSUME NEW s \in 1 .. Sessions
      PROVE  /\ ProcessAt(s)' /\ process'[s].at # "ended"
             /\ Inside(s)' => process'[s] = process[s]
             /\ Inside(s) => Inside(s)'
  <2>1. CASE s = session
    <3>1. ~(s > session)
      BY <1>3, <2>1
    <3> QED BY <1>1, <1>4, <1>5, <2>1, <3>1 DEF ProcessAt, Live, Inside
  <2>2. CASE s # session
    BY <1>1, <1>5, <2>2 DEF ShardInv, ProcessAt, Live, CellOf, Inside
  <2> QED BY <2>1, <2>2
<1>10. \A s \in store : s \in 1 .. Sessions /\ process'[s].at \notin {"start", "open"}
  BY <1>4, <1>5 DEF ShardInv, StoreAt, TypeOK
<1>11. CompleteIsTrue'
  BY <1>1, <1>9, DriverKeepsCells, CompleteKept DEF ShardInv
<1> QED BY <1>1, <1>6, <1>7, <1>8, <1>9, <1>10, <1>11, DriverStepKeeps

LEMMA FinishKeeps ==
    ASSUME TypeOK, ShardInv, Finish
    PROVE  TypeOK' /\ ShardInv'
<1>1. /\ driver.doing = "finish" /\ validation' = Validated
      /\ complete' = [c \in Cells |-> output[c].cell.status]
      /\ driver' = [doing |-> "ended", cell |-> 0]
      /\ output' = output /\ interrupted' = interrupted
      /\ disturbed' = disturbed /\ session' = session /\ process' = process /\ store' = store
  BY DEF Finish, At
<1>2. \A c \in Cells \ disturbed : HasCell(c)
  BY <1>1 DEF ShardInv, DriverInv, Working
<1>3. ParityInv' /\ validation' \in {"none", "unknown", "equal", "different"}
  BY <1>1, ValidatedFacts
<1>4. 0 \in 0 .. Len(Plan)
  BY PlanFacts
<1>5. TypeOK'
  BY <1>1, <1>3, <1>4 DEF TypeOK
<1>6. CompleteIsTrue'
  BY <1>1, <1>2 DEF CompleteIsTrue, HasCell
<1>7. DriverInv'
  BY <1>1 DEF DriverInv, Working
<1> QED BY <1>1, <1>3, <1>5, <1>6, <1>7, DriverOnlyKeeps

LEMMA RecoverKeeps ==
    ASSUME TypeOK, ShardInv, Recover
    PROVE  TypeOK' /\ ShardInv'
<1>1. /\ driver.doing \in {"none", "ended"} /\ store' = {}
      /\ output' = output /\ interrupted' = interrupted /\ validation' = validation
      /\ complete' = complete /\ disturbed' = disturbed /\ session' = session
      /\ process' = process /\ driver' = driver
  BY DEF Recover, Working, results
<1>2. TypeOK'
  BY <1>1 DEF TypeOK
<1>3. \A s \in 1 .. Sessions : ProcessAt(s)'
  BY <1>1 DEF ShardInv, ProcessAt, Live, CellOf
<1>4. DriverInv'
  BY <1>1 DEF DriverInv, Working
<1>5. ParityInv' /\ CompleteIsTrue'
  BY <1>1, DriverKeepsCells, ParityKept, CompleteKept DEF ShardInv
<1> QED BY <1>1, <1>2, <1>3, <1>4, <1>5, DriverStepKeeps

LEMMA KillKeeps ==
    ASSUME TypeOK, ShardInv, Kill
    PROVE  TypeOK' /\ ShardInv'
<1>1. /\ driver.doing \notin {"none", "ended"} /\ driver' = [doing |-> "ended", cell |-> 0]
      /\ output' = output /\ interrupted' = interrupted /\ validation' = validation
      /\ complete' = complete /\ disturbed' = disturbed /\ session' = session
      /\ store' = store
      /\ \/ process' = [process EXCEPT ![session] = NoProcess]
         \/ process' = process /\ Live(session)
  BY DEF Kill, Working, At, results
<1>2. session # 0
  BY <1>1 DEF ShardInv, DriverInv, Working
<1>3. session \in 1 .. Sessions /\ session \in Nat /\ 0 \in 0 .. Len(Plan)
  BY <1>2, PlanFacts DEF TypeOK
<1>4. NoProcess \in Process /\ NoProcess.at = "none"
  BY <1>3 DEF NoProcess, Process
<1>5. /\ process' \in [1 .. Sessions -> Process]
      /\ \A s \in 1 .. Sessions \ {session} : process'[s] = process[s]
      /\ process'[session] = NoProcess \/ (process' = process /\ Live(session))
  BY <1>1, <1>3, <1>4 DEF TypeOK
<1>6. TypeOK'
  BY <1>1, <1>3, <1>5 DEF TypeOK
<1>7. ASSUME NEW s \in 1 .. Sessions
      PROVE  /\ ProcessAt(s)' /\ process'[s].at # "ended"
             /\ Inside(s)' => process'[s] = process[s]
             /\ process'[s].at \in {"start", "open"} => process'[s] = process[s]
  <2>1. CASE s = session /\ process'[session] = NoProcess
    <3>1. ~(s > session)
      BY <1>3, <2>1
    <3> QED BY <1>1, <1>4, <2>1, <3>1 DEF ProcessAt, Live, Inside
  <2>2. CASE s = session /\ process' = process /\ Live(session)
    BY <1>1, <2>2 DEF ShardInv, ProcessAt, Live, CellOf, Inside
  <2>3. CASE s # session
    BY <1>1, <1>5, <2>3 DEF ShardInv, ProcessAt, Live, CellOf, Inside
  <2> QED BY <1>5, <2>1, <2>2, <2>3
<1>8. DriverInv'
  BY <1>1 DEF DriverInv, Working
<1>9. ParityInv' /\ CompleteIsTrue'
  BY <1>1, <1>7, DriverKeepsCells, ParityKept, CompleteKept DEF ShardInv
<1>10. ASSUME NEW s \in store PROVE s \in 1 .. Sessions /\ process'[s].at \notin {"start", "open"}
  BY <1>7 DEF ShardInv, StoreAt, TypeOK
<1>11. CASE interrupted = {}
  <2>1. ASSUME NEW s \in 1 .. Sessions, Inside(s), ~Inside(s)'
        PROVE  \E c \in Cells : Abandoned(c)'
    <3>1. s = session /\ process'[session] = NoProcess
      BY <1>5, <2>1 DEF Inside
    <3>2. PICK k \in Cells : k = CellOf(s)
      BY <2>1, AtWork
    <3>3. /\ Partial(k)
          /\ \A t \in 1 .. Sessions : Inside(t) /\ CellOf(t) = k => t = s
      BY <1>11, <2>1, <3>2 DEF ShardInv, CellAtWork, Calm
    <3>4. ASSUME NEW t \in 1 .. Sessions, Inside(t)' PROVE process'[t].cell # k
      <4>1. Inside(t) /\ process'[t] = process[t] /\ t # s
        BY <1>7, <2>1, <3>4 DEF Inside
      <4> QED BY <3>3, <4>1 DEF CellOf
    <3>5. Abandoned(k)'
      BY <1>1, <3>3, <3>4 DEF Abandoned, Partial, HasCell, CellOf
    <3> QED BY <3>5
  <2> QED BY <1>1, <1>6, <1>7, <1>8, <1>9, <1>10, <2>1, DriverStepKeeps
<1>12. CASE interrupted # {}
  <2>1. /\ \A c \in Cells : CellAtWork(c)'
        /\ ArchivedInv'
    BY <1>1, <1>7, DriverKeepsCells
  <2>2. ASSUME NEW s \in 1 .. Sessions PROVE StoreAt(s)'
    <3>1. StoreAt(s)
      BY DEF ShardInv
    <3>2. Inside(s)' => Inside(s)
      BY <1>7 DEF Inside
    <3> QED BY <1>1, <1>7, <1>10, <1>12, <3>1, <3>2 DEF StoreAt, Inside, CellOf
  <2> QED BY <1>6, <1>7, <1>8, <1>9, <2>1, <2>2 DEF ShardInv
<1> QED BY <1>11, <1>12

\* The directory goes away, and with it nothing that an undisturbed cell recorded.
LEMMA ArchiveKeeps ==
    ASSUME TypeOK, ShardInv, Archive
    PROVE  TypeOK' /\ ShardInv'
<1>1. PICK k \in Cells : k = driver.cell
  BY DEF Archive, ShardInv, DriverInv, Working
<1>2. /\ driver.doing = "archive" /\ interrupted' = interrupted \cup {<<k, output[k].cell>>}
      /\ output' = [output EXCEPT ![k] = NoOutput]
      /\ driver' = [doing |-> "visit", cell |-> k]
      /\ validation' = validation /\ complete' = complete /\ disturbed' = disturbed
      /\ session' = session /\ process' = process /\ store' = store
  BY <1>1 DEF Archive, At
<1>3. /\ session # 0 /\ process[session].at = "none" /\ session \notin store
      /\ \A c \in Cells \ disturbed : c < k => HasCell(c)
      /\ k \notin disturbed =>
           Partial(k) /\ \A s \in 1 .. Sessions : Live(s) => CellOf(s) # k
  BY <1>1, <1>2 DEF ShardInv, DriverInv, Working
<1>4. NoOutput \in Directory /\ NoOutput.cell = NoCell
  BY DEF NoOutput, Directory
<1>5. /\ output' \in [Cells -> Directory] /\ output'[k].cell = NoCell
      /\ \A c \in Cells \ {k} : output'[c] = output[c]
  BY <1>2, <1>4 DEF TypeOK
<1>6. TypeOK'
  <2>1. k \in 0 .. Len(Plan)
    BY PlanFacts
  <2>2. output[k].cell \in CellSet \cup {NoCell}
    BY DEF TypeOK, Directory
  <2> QED BY <1>2, <1>5, <2>1, <2>2 DEF TypeOK
<1>7. CellsKept
  BY <1>3, <1>5 DEF CellsKept, Partial
<1>8. ParityInv' /\ CompleteIsTrue'
  BY <1>2, <1>7, ParityKept, CompleteKept DEF ShardInv
<1>9. interrupted' # {}
  BY <1>2
<1>10. ASSUME NEW s \in 1 .. Sessions PROVE ProcessAt(s)' /\ StoreAt(s)'
  <2>1. ProcessAt(s) /\ StoreAt(s)
    BY DEF ShardInv
  <2> QED BY <1>2, <1>9, <2>1 DEF ProcessAt, StoreAt, Live, Inside, CellOf
<1>11. DriverInv'
  <2>1. \A c \in Cells \ disturbed : c < k => HasCell(c)'
    BY <1>3, <1>5, PlanFacts DEF HasCell
  <2> QED BY <1>2, <1>3, <2>1 DEF DriverInv, Working
<1>12. ASSUME NEW c \in Cells PROVE CellAtWork(c)'
  <2>1. Calm(c)' => c \notin disturbed
    BY <1>2, <1>9 DEF Calm
  <2>2. CASE c = k
    <3>1. ~HasCell(c)'
      BY <1>5, <2>2 DEF HasCell
    <3>2. Calm(c)' => \A s \in 1 .. Sessions : ~(Inside(s)' /\ process'[s].cell = c)
      BY <1>2, <1>3, <2>1, <2>2 DEF Inside, Live, CellOf
    <3> QED BY <3>1, <3>2 DEF CellAtWork, CellOf
  <2>3. CASE c # k
    <3>1. CellAtWork(c) /\ output'[c] = output[c] /\ (Calm(c)' => Calm(c))
      BY <1>5, <2>1, <2>3 DEF ShardInv, Calm
    <3> QED BY <1>2, <3>1 DEF CellAtWork, HasCell, Partial, Inside, CellOf
  <2> QED BY <2>2, <2>3
<1>13. ArchivedInv'
  <2>1. output[k].cell # NoCell => k \in disturbed
    BY <1>3 DEF Partial, HasCell
  <2> QED BY <1>2, <2>1 DEF ShardInv, ArchivedInv
<1> QED BY <1>6, <1>8, <1>10, <1>11, <1>12, <1>13 DEF ShardInv

-----------------------------------------------------------------------------
(* The theorems about the shard                                             *)

LEMMA ShardInit == ASSUME Init PROVE TypeOK /\ ShardInv
<1>1. << >> \in Seq(Run) /\ 0 \in 0 .. Len(Plan) /\ 0 \in 0 .. Sessions
      /\ Measured \in Nat \ {0} /\ Sessions \in Nat
  BY PlanFacts
<1>2. NoProcess \in Process /\ NoOutput \in Directory
  BY <1>1 DEF NoProcess, Process, NoOutput, Directory
<1>3. TypeOK
  BY <1>1, <1>2 DEF Init, TypeOK
<1>4. /\ \A c \in Cells : ~HasCell(c)
      /\ \A s \in 1 .. Sessions : process[s] = NoProcess /\ process[s].at = "none" /\ s \notin store
      /\ driver.doing = "none" /\ validation = "none" /\ complete = << >> /\ interrupted = {}
  BY DEF Init, HasCell, NoOutput, NoProcess
<1>5. \A s \in 1 .. Sessions : ProcessAt(s) /\ StoreAt(s)
  BY <1>4 DEF ProcessAt, StoreAt, Live
<1>6. DriverInv
  BY <1>4 DEF DriverInv, Working
<1>7. \A c \in Cells : CellAtWork(c)
  BY <1>4 DEF CellAtWork, Inside
<1>8. ArchivedInv /\ CompleteIsTrue /\ ParityInv
  BY <1>4 DEF ArchivedInv, CompleteIsTrue, ParityInv
<1> QED BY <1>3, <1>5, <1>6, <1>7, <1>8 DEF ShardInv

LEMMA ShardStutter ==
    ASSUME TypeOK, ShardInv, UNCHANGED vars
    PROVE  TypeOK' /\ ShardInv'
<1>1. /\ output' = output /\ interrupted' = interrupted /\ validation' = validation
      /\ complete' = complete /\ disturbed' = disturbed /\ session' = session
      /\ process' = process /\ store' = store /\ driver' = driver
  BY DEF vars, results
<1>2. TypeOK'
  BY <1>1 DEF TypeOK
<1>3. \A s \in 1 .. Sessions : ProcessAt(s)' /\ StoreAt(s)'
  BY <1>1 DEF ShardInv, ProcessAt, StoreAt, Live, Inside, CellOf, Abandoned, Partial, HasCell
<1>4. DriverInv'
  BY <1>1 DEF ShardInv, DriverInv, Working, Partial, HasCell, Live, CellOf
<1>5. /\ \A c \in Cells : CellAtWork(c)'
      /\ ArchivedInv' /\ CellsKept
  BY <1>1, DriverKeepsCells
<1>6. ParityInv' /\ CompleteIsTrue'
  BY <1>1, <1>5, ParityKept, CompleteKept DEF ShardInv
<1> QED BY <1>2, <1>3, <1>4, <1>5, <1>6 DEF ShardInv

LEMMA ShardStep == ASSUME TypeOK, ShardInv, [Next]_vars PROVE TypeOK' /\ ShardInv'
<1>1. CASE UNCHANGED vars
  BY <1>1, ShardStutter
<1>2. CASE DriverStep
  <2>1. CASE Start
    BY <2>1, StartKeeps
  <2>2. CASE Look
    BY <2>2, LookKeeps
  <2>3. CASE Archive
    BY <2>3, ArchiveKeeps
  <2>4. CASE Reuse
    BY <2>4, ReuseKeeps
  <2>5. CASE Spawn
    BY <2>5, SpawnKeeps
  <2>6. CASE Collect
    BY <2>6, CollectKeeps
  <2>7. CASE Finish
    BY <2>7, FinishKeeps
  <2> QED BY <1>2, <2>1, <2>2, <2>3, <2>4, <2>5, <2>6, <2>7 DEF DriverStep
<1>3. CASE Kill
  BY <1>3, KillKeeps
<1>4. CASE Recover
  BY <1>4, RecoverKeeps
<1>5. ASSUME NEW s \in 1 .. session, ProcessStep(s) PROVE TypeOK' /\ ShardInv'
  <2>1. CASE CopyQuery(s)
    BY <2>1, CopyQueryKeeps
  <2>2. CASE OpenExecution(s)
    BY <2>2, OpenExecutionKeeps
  <2>3. CASE Execute(s)
    BY <2>3, ExecuteKeeps
  <2>4. CASE WriteCell(s)
    BY <2>4, WriteCellKeeps
  <2> QED BY <1>5, <2>1, <2>2, <2>3, <2>4 DEF ProcessStep
<1>6. ASSUME NEW s \in 1 .. session, ProcessDies(s) PROVE TypeOK' /\ ShardInv'
  BY <1>6, ProcessDiesKeeps
<1> QED BY <1>1, <1>2, <1>3, <1>4, <1>5, <1>6 DEF Next

\* The directories, processes and documents have the shapes the code gives them, and the
\* invariant that ties a cell's record to its runs and to the processes holds throughout.
THEOREM ShardInvariant == Spec => [](TypeOK /\ ShardInv)
<1>1. Init => TypeOK /\ ShardInv
  BY ShardInit
<1>2. TypeOK /\ ShardInv /\ [Next]_vars => (TypeOK /\ ShardInv)'
  BY ShardStep
<1> QED BY <1>1, <1>2, PTL DEF Spec

\* Circuit state that is left in the store, and that no live process is going to remove,
\* can be told from the results: a cell that asks for recovery, a directory without a
\* record, or an archived one, whichever processes died and whoever reused what.
THEOREM LeftoversShow == Spec => []LeftoverLeavesATrace
<1>1. TypeOK /\ ShardInv => LeftoverLeavesATrace
  <2> SUFFICES ASSUME TypeOK, ShardInv, NEW s \in store
               PROVE  \/ \E t \in store : Live(t)
                      \/ \E c \in Cells : output[c].cell.recovery \/ Partial(c)
                      \/ interrupted # {}
    BY DEF LeftoverLeavesATrace
  <2>1. s \in 1 .. Sessions
    BY DEF TypeOK
  <2>2. interrupted # {} \/ Inside(s) \/ \E c \in Cells : output[c].cell.recovery \/ Abandoned(c)
    BY <2>1 DEF ShardInv, StoreAt
  <2> QED BY <2>2 DEF Inside, Live, Abandoned
<1> QED BY <1>1, ShardInvariant, PTL

\* complete.json lists every cell that was not archived under a process at work in it,
\* with the status its record still has in every later session.
THEOREM CompletionHolds == Spec => []CompleteIsTrue
<1>1. ShardInv => CompleteIsTrue
  BY DEF ShardInv
<1> QED BY <1>1, ShardInvariant, PTL

\* A query's parity verdict, written once, stays true of the cells that are there, unless
\* one of them was archived under a process at work in it.
THEOREM ParityHolds == Spec => []ParityIsOfTheCells
<1>1. ShardInv => ParityIsOfTheCells
  BY DEF ShardInv, ParityInv, ParityIsOfTheCells
<1> QED BY <1>1, ShardInvariant, PTL

-----------------------------------------------------------------------------
(* The evaluation batch                                                     *)

RunStatus == {"ok", "failed", "source"}
PqeCell == [at : {"absent", "partial", "cell"}, ok : BOOLEAN, runs : Seq(RunStatus)]

PqeTypeOK ==
  /\ config \in {<< >>} \cup {<<absent>> : absent \in SUBSET Circuits}
  /\ target \in [Circuits -> PqeCell]
  /\ final \in BOOLEAN /\ starts \in Nat
  /\ batch \in [doing : {"ended", "next", "await"}, cell : 0 .. Len(Plan),
                todo : SUBSET ({<<c>> : c \in Circuits} \cup (Circuits \X CellSet))]
  /\ worker \in [at : {"none", "run"}, cell : 0 .. Len(Plan), runs : Seq(RunStatus),
                 source : Seq(BOOLEAN)]

\* An undisturbed cell of a source has a record that says it succeeded.
Sourced(c) == c \notin disturbed => HasCell(c) /\ CellOk(output[c].cell)

\* Sources were found with a record, a process at work or an evaluated cell has one, and
\* an evaluation whose warm-up failed has no further run.
PqeInv ==
  /\ \A e \in batch.todo : /\ e[1] \in Circuits
                           /\ \/ e = <<e[1]>> /\ Sourced(e[1])
                              \/ e \in interrupted /\ e[2] # NoCell
  /\ worker.at = "run" => /\ worker.cell \in Circuits /\ Sourced(worker.cell)
                          /\ worker.runs # << >> => worker.runs[1] = "ok"
  /\ \A c \in Circuits : target[c].at = "cell" /\ target[c].ok =>
       Sourced(c) /\ \A i \in Executions : target[c].runs[i] = "ok"

\* A step of the shard leaves records of undisturbed cells and what was archived.
LEMMA ShardKeepsRecords ==
    ASSUME TypeOK, ShardInv, [Next]_vars
    PROVE  CellsKept /\ disturbed \subseteq disturbed' /\ interrupted \subseteq interrupted'
<1>1. CASE UNCHANGED vars \/ Start \/ Look \/ Reuse \/ Spawn \/ Collect \/ Finish \/ Kill
           \/ Recover \/ \E s \in 1 .. session : ProcessDies(s)
  <2>1. output' = output /\ interrupted' = interrupted /\ disturbed \subseteq disturbed'
    BY <1>1 DEF vars, results, Start, Look, Reuse, Spawn, Collect, Finish, Kill, Recover,
                ProcessDies
  <2> QED BY <2>1 DEF CellsKept
<1>2. CASE Archive
  <2>1. /\ interrupted \subseteq interrupted' /\ disturbed' = disturbed
        /\ output' = [output EXCEPT ![driver.cell] = NoOutput]
    BY <1>2 DEF Archive
  <2>2. driver.cell \notin disturbed => ~HasCell(driver.cell)
    BY <1>2 DEF Archive, ShardInv, DriverInv, Partial
  <2> QED BY <2>1, <2>2 DEF CellsKept, TypeOK
<1>3. ASSUME NEW s \in 1 .. session, ProcessStep(s)
      PROVE  CellsKept /\ disturbed \subseteq disturbed' /\ interrupted \subseteq interrupted'
  <2>1. s \in 1 .. Sessions
    BY PlanFacts DEF TypeOK
  <2>2. interrupted' = interrupted /\ disturbed' = disturbed
    BY <1>3 DEF ProcessStep, CopyQuery, OpenExecution, Execute, WriteCell, results
  <2>3. \A c \in Cells : c # CellOf(s) => output'[c] = output[c]
    BY <1>3 DEF ProcessStep, CopyQuery, OpenExecution, Execute, WriteCell, TypeOK
  <2>4. CASE CopyQuery(s)
    <3>1. output' = output \/ ~output[CellOf(s)].present
      BY <2>4 DEF CopyQuery
    <3>2. \A c \in Cells : HasCell(c) => output[c].present
      BY DEF ShardInv, CellAtWork
    <3> QED BY <2>2, <2>3, <3>1, <3>2 DEF CellsKept
  <2>5. CASE OpenExecution(s) \/ Execute(s) \/ WriteCell(s)
    <3>1. Inside(s)
      BY <2>5 DEF OpenExecution, Execute, WriteCell, Inside
    <3>2. CellOf(s) \in disturbed \/ ~HasCell(CellOf(s))
      BY <2>1, <3>1, AtWork DEF Calm
    <3> QED BY <2>2, <2>3, <3>2 DEF CellsKept
  <2> QED BY <1>3, <2>4, <2>5 DEF ProcessStep
<1> QED BY <1>1, <1>2, <1>3 DEF Next, DriverStep

LEMMA SourcedKept ==
    ASSUME CellsKept, disturbed \subseteq disturbed', NEW c \in Cells, Sourced(c)
    PROVE  Sourced(c)'
BY DEF CellsKept, Sourced, HasCell

\* A step of the shard beside the batch.
LEMMA ShardStepKeepsPqe ==
    ASSUME TypeOK, ShardInv, PqeTypeOK, PqeInv, [Next]_vars, UNCHANGED pqe
    PROVE  PqeTypeOK' /\ PqeInv'
<1>1. /\ config' = config /\ target' = target /\ final' = final /\ starts' = starts
      /\ batch' = batch /\ worker' = worker
  BY DEF pqe
<1>2. CellsKept /\ disturbed \subseteq disturbed' /\ interrupted \subseteq interrupted'
  BY ShardKeepsRecords
<1>3. \A c \in Circuits : Sourced(c) => Sourced(c)'
  BY <1>2, SourcedKept DEF Circuits
<1>4. PqeTypeOK'
  BY <1>1 DEF PqeTypeOK
<1>5. ASSUME NEW e \in batch.todo
      PROVE  /\ e[1] \in Circuits
             /\ \/ e = <<e[1]>> /\ Sourced(e[1])'
                \/ e \in interrupted' /\ e[2] # NoCell
  BY <1>2, <1>3 DEF PqeInv
<1>6. worker.at = "run" => /\ worker.cell \in Circuits /\ Sourced(worker.cell)'
                           /\ worker.runs # << >> => worker.runs[1] = "ok"
  BY <1>1, <1>3 DEF PqeInv, Sourced, HasCell
<1>7. \A c \in Circuits : target[c].at = "cell" /\ target[c].ok =>
         Sourced(c)' /\ \A i \in Executions : target[c].runs[i] = "ok"
  BY <1>3 DEF PqeInv
<1> QED BY <1>1, <1>4, <1>5, <1>6, <1>7 DEF PqeInv, Sourced

\* The sources found are circuit cells with a record of success.
LEMMA FoundFacts ==
    ASSUME TypeOK, NEW e \in Found
    PROVE  /\ e[1] \in Circuits
           /\ \/ e = <<e[1]>> /\ HasCell(e[1]) /\ CellOk(output[e[1]].cell)
              \/ e \in interrupted /\ e[2] # NoCell
           /\ e \in {<<c>> : c \in Circuits} \cup (Circuits \X CellSet)
<1>1. PICK c \in Circuits : e \in Places(c) /\ CellOk(CellAt(e))
  BY DEF Found
<1>2. CASE e \in {f \in {<<c>>} : HasCell(c)}
  <2>1. e = <<c>> /\ HasCell(c) /\ e[1] = c /\ Len(e) = 1
    BY <1>2
  <2>2. CellOk(output[c].cell)
    BY <1>1, <2>1 DEF CellAt
  <2> QED BY <2>1, <2>2
<1>3. CASE e \in {f \in interrupted : f[1] = c /\ f[2] # NoCell}
  <2>1. e \in interrupted /\ e[1] = c /\ e[2] # NoCell
    BY <1>3
  <2>2. e \in Cells \X (CellSet \cup {NoCell})
    BY <2>1 DEF TypeOK
  <2>3. e \in Circuits \X CellSet
    BY <2>1, <2>2
  <2> QED BY <2>1, <2>3
<1> QED BY <1>1, <1>2, <1>3 DEF Places

\* The order of the naturals, as a set of pairs.
LEMMA NatOrder ==
    \E R : IsWellFoundedOn(R, Nat) /\ \A x, y \in Nat : (<<y, x>> \in R) <=> y < x
<1> DEFINE Less(a, b) == a < b
           R == OpToRel(Less, Nat)
<1>1. IsWellFoundedOn(R, Nat)
  BY NatLessThanWellFounded
<1>2. \A x, y \in Nat : (<<y, x>> \in R) <=> y < x
  BY DEF OpToRel
<1> HIDE DEF R
<1> QED BY <1>1, <1>2

LEMMA NatMin ==
    ASSUME NEW T \in SUBSET Nat, T # {}
    PROVE  \E x \in T : \A y \in T : x <= y
<1>1. PICK R : IsWellFoundedOn(R, Nat) /\ \A x, y \in Nat : (<<y, x>> \in R) <=> y < x
  BY NatOrder
<1>2. \E x \in T : \A y \in T : ~(<<y, x>> \in R)
  BY <1>1, WFMin
<1>3. PICK x \in T : \A y \in T : ~(<<y, x>> \in R)
  BY <1>2
<1>4. ASSUME NEW y \in T PROVE x <= y
  <2>1. x \in Nat /\ y \in Nat /\ ~(y < x)
    BY <1>1, <1>3
  <2> QED BY <2>1
<1> QED BY <1>4

\* The batch takes a source of least position.
LEMMA FirstIsOne ==
    ASSUME NEW todo, todo # {}, \A e \in todo : e[1] \in Nat
    PROVE  First(todo) \in todo
<1> DEFINE firsts == {e[1] : e \in todo}
<1>1. firsts \in SUBSET Nat /\ firsts # {}
  OBVIOUS
<1>2. PICK n \in firsts : \A k \in firsts : n <= k
  <2> HIDE DEF firsts
  <2> QED BY <1>1, NatMin
<1>3. PICK e \in todo : e[1] = n
  BY <1>2
<1>4. \A f \in todo : e[1] <= f[1]
  BY <1>2, <1>3
<1> QED BY <1>4 DEF First

LEMMA StartWorkerKeeps ==
    ASSUME TypeOK, ShardInv, PqeTypeOK, PqeInv, StartWorker, UNCHANGED vars
    PROVE  PqeTypeOK' /\ PqeInv'
<1> DEFINE e == First(batch.todo)
<1>1. /\ batch.todo # {} /\ (Len(e) = 1 => HasCell(e[1]))
      /\ target' = [target EXCEPT ![e[1]].at = "partial"]
      /\ worker' = [at |-> "run", cell |-> e[1], runs |-> << >>,
                    source |-> [i \in DOMAIN CellAt(e).runs |-> CellAt(e).runs[i].endpoint]]
      /\ batch' = [batch EXCEPT !.doing = "await", !.cell = e[1], !.todo = @ \ {e}]
      /\ config' = config /\ final' = final /\ starts' = starts
  BY DEF StartWorker
<1>2. \A f \in batch.todo : f[1] \in Nat
  BY PlanFacts DEF PqeInv, Circuits
<1>3. e \in batch.todo
  BY <1>1, <1>2, FirstIsOne
<1> HIDE DEF e
<1>4. /\ e[1] \in Circuits /\ e[1] \in Cells
      /\ \/ e = <<e[1]>> /\ Sourced(e[1])
         \/ e \in interrupted /\ e[2] # NoCell
  BY <1>3 DEF PqeInv, Circuits
<1>5. Sourced(e[1]) /\ CellAt(e).runs \in Seq(Run)
  <2>1. CASE e = <<e[1]>> /\ Sourced(e[1])
    <3>1. Len(e) = 1
      BY <2>1
    <3>2. CellAt(e) = output[e[1]].cell /\ HasCell(e[1])
      BY <1>1, <3>1 DEF CellAt
    <3>3. CellAt(e) \in CellSet
      BY <1>4, <3>2 DEF HasCell, TypeOK, Directory
    <3> QED BY <2>1, <3>3 DEF CellSet
  <2>2. CASE e \in interrupted /\ e[2] # NoCell
    <3>1. e \in Cells \X CellSet /\ e[1] \in disturbed
      BY <2>2 DEF TypeOK, ShardInv, ArchivedInv
    <3>2. Len(e) = 2 /\ e[2] \in CellSet
      BY <3>1
    <3>3. CellAt(e) = e[2]
      BY <3>2 DEF CellAt
    <3> QED BY <3>1, <3>2, <3>3 DEF Sourced, CellSet
  <2> QED BY <1>4, <2>1, <2>2
<1>6. /\ target' \in [Circuits -> PqeCell] /\ target'[e[1]].at = "partial"
      /\ \A c \in Circuits \ {e[1]} : target'[c] = target[c]
  <2>1. target[e[1]] \in PqeCell
    BY <1>4 DEF PqeTypeOK
  <2> DEFINE new == [target[e[1]] EXCEPT !.at = "partial"]
  <2>2. new \in PqeCell /\ new.at = "partial"
    BY <2>1 DEF PqeCell
  <2>3. target' = [target EXCEPT ![e[1]] = new]
    BY <1>1
  <2> HIDE DEF new
  <2> QED BY <1>4, <2>2, <2>3 DEF PqeTypeOK
<1>7. PqeTypeOK'
  <2>1. e[1] \in 0 .. Len(Plan)
    BY <1>4, PlanFacts
  <2>2. [i \in DOMAIN CellAt(e).runs |-> CellAt(e).runs[i].endpoint] \in Seq(BOOLEAN)
    <3> DEFINE rs == CellAt(e).runs
    <3>1. rs \in Seq(Run)
      BY <1>5
    <3> HIDE DEF rs
    <3>2. \A i \in DOMAIN rs : rs[i].endpoint \in BOOLEAN
      <4>1. \A i \in DOMAIN rs : rs[i] \in Run
        BY <3>1
      <4> QED BY <4>1 DEF Run
    <3>3. [i \in DOMAIN rs |-> rs[i].endpoint] \in Seq(BOOLEAN)
      BY <3>1, <3>2
    <3> QED BY <3>3 DEF rs
  <2>3. << >> \in Seq(RunStatus)
    OBVIOUS
  <2>4. worker' \in [at : {"none", "run"}, cell : 0 .. Len(Plan), runs : Seq(RunStatus),
                     source : Seq(BOOLEAN)]
    BY <1>1, <2>1, <2>2, <2>3
  <2> QED BY <1>1, <1>6, <2>1, <2>4 DEF PqeTypeOK
<1>8. batch'.todo \subseteq batch.todo
  BY <1>1 DEF PqeTypeOK
<1>9. \A c \in Circuits : target'[c].at = "cell" => target'[c] = target[c]
  BY <1>6
<1>10. \A c : Sourced(c)' <=> Sourced(c)
  BY DEF Sourced, HasCell, vars, results
<1>11. interrupted' = interrupted
  BY DEF vars, results
<1>12. worker'.at = "run" /\ worker'.cell = e[1] /\ worker'.runs = << >>
  BY <1>1
<1> QED BY <1>4, <1>5, <1>7, <1>8, <1>9, <1>10, <1>11, <1>12 DEF PqeInv, Sourced

LEMMA AppendedRuns ==
    ASSUME NEW done \in Seq(RunStatus), NEW status \in RunStatus, done # << >> => done[1] = "ok"
    PROVE  LET runs == Append(done, status)
               i == Len(done) + 1
           IN /\ runs \in Seq(RunStatus) /\ Len(runs) = i /\ runs # << >> /\ i \in Nat
              /\ i = 1 => runs[1] = status
              /\ i # 1 => runs[1] = "ok"
<1>1. CASE done = << >>
  BY <1>1
<1>2. CASE done # << >>
  BY <1>2
<1> QED BY <1>1, <1>2

LEMMA RunOneKeeps ==
    ASSUME TypeOK, ShardInv, PqeTypeOK, PqeInv, RunOne, UNCHANGED vars
    PROVE  PqeTypeOK' /\ PqeInv'
<1> DEFINE k == worker.cell
           i == Len(worker.runs) + 1
<1>1. PICK status \in Statuses(k, i) :
        LET runs == Append(worker.runs, status)
        IN IF LastRun(i, status)
           THEN /\ worker' = NoWorker
                /\ target' = [target EXCEPT ![k] =
                     [at |-> "cell", ok |-> Evaluated(runs), runs |-> runs]]
           ELSE worker' = [worker EXCEPT !.runs = runs] /\ UNCHANGED target
  BY DEF RunOne
<1> DEFINE runs == Append(worker.runs, status)
<1>2. /\ worker.at = "run" /\ config' = config /\ final' = final /\ starts' = starts
      /\ batch' = batch
  BY DEF RunOne
<1>3. /\ k \in Circuits /\ Sourced(k) /\ (worker.runs # << >> => worker.runs[1] = "ok")
      /\ worker.runs \in Seq(RunStatus) /\ status \in RunStatus
  BY <1>2 DEF PqeInv, PqeTypeOK, Statuses, RunStatus
<1>4. /\ runs \in Seq(RunStatus) /\ Len(runs) = i /\ runs # << >> /\ i \in Nat
      /\ i = 1 => runs[1] = status
      /\ i # 1 => runs[1] = "ok"
  BY <1>3, AppendedRuns
<1>5. /\ \A c : Sourced(c)' <=> Sourced(c)
      /\ interrupted' = interrupted
  BY DEF Sourced, HasCell, vars, results
<1>6. \A e \in batch'.todo : /\ e[1] \in Circuits
                             /\ \/ e = <<e[1]>> /\ Sourced(e[1])'
                                \/ e \in interrupted' /\ e[2] # NoCell
  BY <1>2, <1>5 DEF PqeInv
<1>7. CASE LastRun(i, status)
  <2> DEFINE new == [at |-> "cell", ok |-> Evaluated(runs), runs |-> runs]
  <2>1. worker' = NoWorker /\ target' = [target EXCEPT ![k] = new]
    BY <1>1, <1>7
  <2>2. Evaluated(runs) => \A j \in Executions : runs[j] = "ok"
    <3> SUFFICES ASSUME Evaluated(runs), NEW j \in Executions PROVE runs[j] = "ok"
      OBVIOUS
    <3>1. i = 1 + Measured /\ \A n \in 2 .. i : runs[n] = "ok"
      BY <1>4 DEF Evaluated
    <3>2. i # 1 /\ (j = 1 \/ j \in 2 .. i)
      BY <3>1, PlanFacts DEF Executions
    <3> QED BY <1>4, <3>1, <3>2
  <2>3. Evaluated(runs) \in BOOLEAN
    BY DEF Evaluated
  <2> HIDE DEF k, i, runs
  <2>4. new \in PqeCell /\ new.ok = Evaluated(runs) /\ new.runs = runs
    BY <1>4, <2>3 DEF PqeCell
  <2> HIDE DEF new
  <2>5. /\ target' \in [Circuits -> PqeCell] /\ target'[k] = new
        /\ \A c \in Circuits \ {k} : target'[c] = target[c]
    BY <1>3, <2>1, <2>4 DEF PqeTypeOK
  <2>6. /\ worker' \in [at : {"none", "run"}, cell : 0 .. Len(Plan), runs : Seq(RunStatus),
                        source : Seq(BOOLEAN)]
        /\ worker'.at = "none"
    <3>1. << >> \in Seq(RunStatus) /\ << >> \in Seq(BOOLEAN) /\ 0 \in 0 .. Len(Plan)
      BY PlanFacts
    <3> QED BY <2>1, <3>1 DEF NoWorker
  <2>7. PqeTypeOK'
    BY <1>2, <2>5, <2>6 DEF PqeTypeOK
  <2>8. ASSUME NEW c \in Circuits, target'[c].at = "cell", target'[c].ok
        PROVE  Sourced(c)' /\ \A j \in Executions : target'[c].runs[j] = "ok"
    <3>1. CASE c = k
      BY <1>3, <1>5, <2>2, <2>4, <2>5, <2>8, <3>1
    <3>2. CASE c # k
      BY <1>5, <2>5, <2>8, <3>2 DEF PqeInv
    <3> QED BY <3>1, <3>2
  <2> QED BY <1>6, <2>6, <2>7, <2>8 DEF PqeInv, Sourced
<1>8. CASE ~LastRun(i, status)
  <2>1. worker' = [worker EXCEPT !.runs = runs] /\ target' = target
    BY <1>1, <1>8
  <2>2. runs[1] = "ok"
    BY <1>4, <1>8 DEF LastRun
  <2> HIDE DEF runs
  <2>3. /\ worker' \in [at : {"none", "run"}, cell : 0 .. Len(Plan), runs : Seq(RunStatus),
                        source : Seq(BOOLEAN)]
        /\ worker'.cell = k /\ worker'.runs = runs
    BY <1>4, <2>1 DEF PqeTypeOK
  <2>4. PqeTypeOK'
    BY <1>2, <2>1, <2>3 DEF PqeTypeOK
  <2>5. \A c \in Circuits : target'[c].at = "cell" /\ target'[c].ok =>
           Sourced(c)' /\ \A j \in Executions : target'[c].runs[j] = "ok"
    BY <1>5, <2>1 DEF PqeInv
  <2> QED BY <1>3, <1>5, <1>6, <2>2, <2>3, <2>4, <2>5 DEF PqeInv, Sourced
<1> QED BY <1>7, <1>8

\* Every other step of the batch keeps the evaluated cells and only drops sources.
LEMMA BatchStepKeeps ==
    ASSUME TypeOK, ShardInv, PqeTypeOK, PqeInv, UNCHANGED vars,
           \/ StartBatch \/ ReuseTarget \/ RefusePartial \/ SourceIsGone
           \/ CollectTarget \/ FinishBatch \/ WorkerDies \/ KillBatch
    PROVE  PqeTypeOK' /\ PqeInv'
<1>1. /\ \A c : Sourced(c)' <=> Sourced(c)
      /\ interrupted' = interrupted
  BY DEF Sourced, HasCell, vars, results
<1>2. /\ NoBatch \in [doing : {"ended", "next", "await"}, cell : 0 .. Len(Plan),
                      todo : SUBSET ({<<c>> : c \in Circuits} \cup (Circuits \X CellSet))]
      /\ NoBatch.todo = {}
  BY PlanFacts DEF NoBatch
<1>3. /\ NoWorker \in [at : {"none", "run"}, cell : 0 .. Len(Plan), runs : Seq(RunStatus),
                       source : Seq(BOOLEAN)]
      /\ NoWorker.at = "none"
  <2>1. << >> \in Seq(RunStatus) /\ << >> \in Seq(BOOLEAN) /\ 0 \in 0 .. Len(Plan)
    BY PlanFacts
  <2> QED BY <2>1 DEF NoWorker
<1>4. target' = target /\ (worker' = worker \/ worker' = NoWorker)
  BY DEF StartBatch, ReuseTarget, RefusePartial, SourceIsGone, CollectTarget, FinishBatch,
         WorkerDies, KillBatch
<1>5. /\ final' \in BOOLEAN /\ starts' \in Nat
      /\ config' \in {<< >>} \cup {<<absent>> : absent \in SUBSET Circuits}
  <2>1. (final' = final \/ final' = TRUE) /\ (starts' = starts \/ starts' = starts + 1)
    BY DEF StartBatch, ReuseTarget, RefusePartial, SourceIsGone, CollectTarget, FinishBatch,
           WorkerDies, KillBatch
  <2>2. config' = config \/ config' = <<Circuits \ Sources>>
    BY DEF StartBatch, ReuseTarget, RefusePartial, SourceIsGone, CollectTarget, FinishBatch,
           WorkerDies, KillBatch
  <2>3. /\ final \in BOOLEAN /\ starts \in Nat
        /\ config \in {<< >>} \cup {<<absent>> : absent \in SUBSET Circuits}
    BY DEF PqeTypeOK
  <2>4. final' \in BOOLEAN /\ starts' \in Nat
    <3>1. final' \in BOOLEAN
      BY <2>1, <2>3, Zenon
    <3>2. starts' \in Nat
      BY <2>1, <2>3
    <3> QED BY <3>1, <3>2
  <2>5. <<Circuits \ Sources>> \in {<<absent>> : absent \in SUBSET Circuits}
    OBVIOUS
  <2>6. config' \in {<< >>} \cup {<<absent>> : absent \in SUBSET Circuits}
    BY <2>2, <2>3, <2>5
  <2> QED BY <2>4, <2>6
<1>6. \/ batch' = batch \/ batch' = NoBatch
      \/ batch' = [NoBatch EXCEPT !.doing = "next", !.todo = Found]
      \/ batch' = [batch EXCEPT !.todo = @ \ {First(@)}]
      \/ batch' = [batch EXCEPT !.doing = "next", !.cell = 0]
  BY DEF StartBatch, ReuseTarget, RefusePartial, SourceIsGone, CollectTarget, FinishBatch,
         WorkerDies, KillBatch, Stops
<1>7. Found \subseteq {<<c>> : c \in Circuits} \cup (Circuits \X CellSet)
  BY FoundFacts
<1>8. /\ batch' \in [doing : {"ended", "next", "await"}, cell : 0 .. Len(Plan),
                     todo : SUBSET ({<<c>> : c \in Circuits} \cup (Circuits \X CellSet))]
      /\ batch'.todo \subseteq batch.todo \/ batch'.todo = Found
  <2>1. batch \in [doing : {"ended", "next", "await"}, cell : 0 .. Len(Plan),
                   todo : SUBSET ({<<c>> : c \in Circuits} \cup (Circuits \X CellSet))]
    BY DEF PqeTypeOK
  <2> DEFINE all == {<<c>> : c \in Circuits} \cup (Circuits \X CellSet)
  <2>2. Found \subseteq all /\ 0 \in 0 .. Len(Plan)
    BY <1>7, PlanFacts
  <2> HIDE DEF all
  <2>3. batch' \in [doing : {"ended", "next", "await"}, cell : 0 .. Len(Plan), todo : SUBSET all]
        /\ (batch'.todo \subseteq batch.todo \/ batch'.todo = Found)
    <3>1. /\ batch \in [doing : {"ended", "next", "await"}, cell : 0 .. Len(Plan),
                        todo : SUBSET all]
          /\ NoBatch \in [doing : {"ended", "next", "await"}, cell : 0 .. Len(Plan),
                          todo : SUBSET all]
          /\ NoBatch.todo = {}
      BY <1>2, <2>1 DEF all
    <3>2. CASE batch' = batch \/ batch' = NoBatch
      BY <3>1, <3>2
    <3>3. CASE batch' = [NoBatch EXCEPT !.doing = "next", !.todo = Found]
      BY <2>2, <3>1, <3>3
    <3>4. CASE batch' = [batch EXCEPT !.todo = @ \ {First(@)}]
      BY <3>1, <3>4
    <3>5. CASE batch' = [batch EXCEPT !.doing = "next", !.cell = 0]
      BY <2>2, <3>1, <3>5
    <3> QED BY <1>6, <3>2, <3>3, <3>4, <3>5
  <2> QED BY <2>3 DEF all
<1>9. PqeTypeOK'
  BY <1>3, <1>4, <1>5, <1>8 DEF PqeTypeOK
<1>10. \A e \in batch'.todo : /\ e[1] \in Circuits
                              /\ \/ e = <<e[1]>> /\ Sourced(e[1])
                                 \/ e \in interrupted /\ e[2] # NoCell
  <2>1. CASE batch'.todo \subseteq batch.todo
    BY <2>1 DEF PqeInv
  <2>2. CASE batch'.todo = Found
    BY <2>2, FoundFacts DEF Sourced
  <2> QED BY <1>8, <2>1, <2>2
<1>11. worker'.at = "run" => worker' = worker
  BY <1>3, <1>4
<1> QED BY <1>1, <1>4, <1>9, <1>10, <1>11 DEF PqeInv, Sourced

LEMMA PqeInitial == ASSUME PqeInit PROVE PqeTypeOK /\ PqeInv
<1>1. << >> \in Seq(RunStatus) /\ << >> \in Seq(BOOLEAN) /\ 0 \in 0 .. Len(Plan)
  BY PlanFacts
<1>2. PqeTypeOK
  BY <1>1 DEF PqeInit, PqeTypeOK, PqeCell, NoBatch, NoWorker
<1>3. PqeInv
  BY DEF PqeInit, PqeInv, NoBatch, NoWorker
<1> QED BY <1>2, <1>3

LEMMA PqeKeeps ==
    ASSUME TypeOK, ShardInv, PqeTypeOK, PqeInv, [PqeNext]_<<vars, pqe>>
    PROVE  PqeTypeOK' /\ PqeInv'
<1>1. CASE [Next]_vars /\ UNCHANGED pqe
  BY <1>1, ShardStepKeepsPqe
<1>2. CASE PqeStep /\ UNCHANGED vars
  <2>1. CASE StartWorker
    BY <1>2, <2>1, StartWorkerKeeps
  <2>2. CASE RunOne
    BY <1>2, <2>2, RunOneKeeps
  <2>3. CASE \/ StartBatch \/ ReuseTarget \/ RefusePartial \/ SourceIsGone
             \/ CollectTarget \/ FinishBatch \/ WorkerDies \/ KillBatch
    BY <1>2, <2>3, BatchStepKeeps
  <2> QED BY <1>2, <2>1, <2>2, <2>3 DEF PqeStep, BatchStep
<1> QED BY <1>1, <1>2 DEF PqeNext

\* The shard beside the evaluation batch is the shard: what is proved of it alone holds
\* of the two together.
THEOREM BesideTheBatch == PqeSpec => Spec
<1>1. PqeInit => Init
  BY DEF PqeInit
<1>2. [PqeNext]_<<vars, pqe>> => [Next]_vars
  BY DEF PqeNext
<1> QED BY <1>1, <1>2, PTL DEF PqeSpec, Spec

\* The documents of the batch have their shapes, and what it works from and evaluated are
\* cells with a record of success, unless they were disturbed.
THEOREM BatchInvariant == PqeSpec => [](PqeTypeOK /\ PqeInv)
<1>1. PqeInit => PqeTypeOK /\ PqeInv
  BY PqeInitial
<1>2. TypeOK /\ ShardInv /\ PqeTypeOK /\ PqeInv /\ [PqeNext]_<<vars, pqe>>
         => (PqeTypeOK /\ PqeInv)'
  BY PqeKeeps
<1> QED BY <1>1, <1>2, BesideTheBatch, ShardInvariant, PTL DEF PqeSpec

-----------------------------------------------------------------------------
(* What the figures are backed by                                           *)

\* An undisturbed cell has its record in one place.
LEMMA OnePlace ==
    ASSUME TypeOK, ShardInv, NEW c \in Cells, c \notin disturbed
    PROVE  Places(c) = {e \in {<<c>>} : HasCell(c)}
BY DEF Places, ShardInv, ArchivedInv

\* What the summary of an undisturbed cell reads.
LEMMA SummaryReads ==
    ASSUME TypeOK, ShardInv, NEW m \in LogicalMethods, NEW c \in Cells, c = CellFor(m),
           c \notin disturbed
    PROVE  SummaryOf(m) = IF HasCell(c) THEN MethodSummary(output[c].cell, m) ELSE "missing"
<1>1. Places(c) = {e \in {<<c>>} : HasCell(c)}
  BY OnePlace
<1>2. CASE HasCell(c)
  <2>1. Places(c) = {<<c>>}
    BY <1>1, <1>2
  <2>2. (CHOOSE e \in Places(c) : TRUE) = <<c>>
    BY <2>1
  <2>3. CellAt(<<c>>) = output[c].cell
    BY DEF CellAt
  <2> QED BY <1>2, <2>1, <2>2, <2>3 DEF SummaryOf
<1>3. CASE ~HasCell(c)
  BY <1>1, <1>3 DEF SummaryOf
<1> QED BY <1>2, <1>3

\* A physical circuit method is that of one cell.
LEMMA CircuitIsOne ==
    ASSUME NEW c \in Circuits
    PROVE  Plan[c] \in LogicalMethods /\ CellFor(Plan[c]) = c /\ Logical(c) = {Plan[c]}
<1>1. c \in Cells /\ IsCircuit(c) /\ Logical(c) = {Plan[c]}
  BY DEF Circuits, Logical
<1>2. Plan[c] \in Physical \ {"N-paired"}
  BY <1>1, PlanFacts DEF IsCircuit
<1>3. Plan[c] \in LogicalMethods
  BY <1>1 DEF LogicalMethods
<1>4. CellFor(Plan[c]) \in Cells /\ Plan[c] \in Logical(CellFor(Plan[c]))
  BY <1>3, MethodsHaveCells
<1>5. Plan[CellFor(Plan[c])] = Plan[c]
  BY <1>2, <1>4 DEF Logical, Physical
<1> QED BY <1>1, <1>3, <1>4, <1>5, ShardAssumption

LEMMA MeasuredRuns == Cardinality((1 .. 1 + Measured) \ {1}) = Measured
<1>1. (1 .. 1 + Measured) \ {1} = 2 .. 1 + Measured
  BY PlanFacts
<1>2. Cardinality(2 .. 1 + Measured) = Measured
  BY PlanFacts, FS_Interval
<1> QED BY <1>1, <1>2

\* The rows of the figures are backed by the directories: a method summarised as ok
\* succeeded in every execution that is there, and an evaluation that is ok evaluated
\* every one of them and is of a method summarised as ok, in every cell that was not
\* archived under a process at work in it.
THEOREM FiguresBacked == PqeSpec => []FiguresAreBacked
<1>1. ASSUME TypeOK, ShardInv, PqeTypeOK, PqeInv PROVE FiguresAreBacked
  <2>1. ASSUME NEW m \in LogicalMethods, SummaryOf(m) = "ok", CellFor(m) \notin disturbed,
               NEW i \in Executions
        PROVE  m \in output[CellFor(m)].runs[i].ok
    <3>1. PICK c \in Cells : c = CellFor(m) /\ m \in Logical(c)
      BY MethodsHaveCells
    <3>2. HasCell(c) /\ MethodSummary(output[c].cell, m) = "ok"
      BY <1>1, <2>1, <3>1, SummaryReads
    <3>3. output[c].cell.status[m] = "ok"
      BY <3>2 DEF MethodSummary
    <3>4. CellAtWork(c)
      BY <1>1 DEF ShardInv
    <3>5. Complete(output[c].cell.runs, m)
      BY <3>1, <3>2, <3>3, <3>4 DEF CellAtWork
    <3>6. output[c].cell.runs \in Seq(Run)
      BY <1>1, <3>2 DEF HasCell, TypeOK, Directory, CellSet
    <3>7. i \in DOMAIN output[c].cell.runs /\ m \in output[c].cell.runs[i].ok
      BY <3>5, <3>6 DEF Complete, Executions
    <3>8. output[c].runs[i] = output[c].cell.runs[i]
      BY <2>1, <3>1, <3>2, <3>4, <3>7 DEF CellAtWork, Calm
    <3> QED BY <3>1, <3>7, <3>8
  <2>2. ASSUME NEW c \in PqeRowsOk \ disturbed
        PROVE  /\ \A i \in Executions : target[c].runs[i] = "ok"
               /\ SummaryOf(Plan[c]) = "ok"
    <3>1. c \in Circuits /\ c \in Cells /\ target[c].at = "cell" /\ target[c].ok
      BY DEF PqeRowsOk, Circuits
    <3>2. HasCell(c) /\ CellOk(output[c].cell)
          /\ \A i \in Executions : target[c].runs[i] = "ok"
      BY <1>1, <2>2, <3>1 DEF PqeInv, Sourced
    <3>3. Plan[c] \in LogicalMethods /\ CellFor(Plan[c]) = c /\ Logical(c) = {Plan[c]}
      BY <3>1, CircuitIsOne
    <3>4. CellAtWork(c)
      BY <1>1, <3>1 DEF ShardInv
    <3>5. output[c].cell.status[Plan[c]] = "ok" /\ Complete(output[c].cell.runs, Plan[c])
      BY <3>2, <3>3, <3>4 DEF CellAtWork, CellOk
    <3>6. output[c].cell.runs \in Seq(Run)
      BY <1>1, <3>1, <3>2 DEF HasCell, TypeOK, Directory, CellSet
    <3>7. DOMAIN output[c].cell.runs = 1 .. 1 + Measured
      BY <3>5, <3>6 DEF Complete
    <3>8. MethodSummary(output[c].cell, Plan[c]) = "ok"
      BY <3>5, <3>7, MeasuredRuns DEF MethodSummary, Complete
    <3>9. SummaryOf(Plan[c]) = "ok"
      BY <1>1, <2>2, <3>1, <3>2, <3>3, <3>8, SummaryReads
    <3> QED BY <3>2, <3>9
  <2> QED BY <2>1, <2>2 DEF FiguresAreBacked
<1> QED BY <1>1, BatchInvariant, BesideTheBatch, ShardInvariant, PTL

-----------------------------------------------------------------------------
(* ProvenanceDag: the graph is canonical.                                    *)

IsSeq(s) == s \in Seq(ToSet(s))

\* An operator being read: its operands were made before.
IsFrame(f, n) == /\ f = [op |-> f.op, groups |-> f.groups]
                 /\ f.groups \in Seq(Seq(1 .. n)) /\ f.groups # << >>

IsRaw(node, n) ==
    /\ node.op \in {"leaf", "plus", "times", "minus"} /\ node.kids \in Seq(1 .. n)
    /\ node.op = "minus" => Len(node.kids) = 2

ArenaIs(raw) == IsSeq(raw) /\ \A i \in DOMAIN raw : IsRaw(raw[i], i - 1)
FramesAre(stack, n) == IsSeq(stack) /\ \A i \in DOMAIN stack : IsFrame(stack[i], n)

ParserInv == ArenaIs(arena) /\ FramesAre(frames, Len(arena)) /\ root \in 0 .. Len(arena)

\* A normal form.
IsShape(s) ==
    /\ s = Shape(s.op, s.token, s.kids)
    /\ s.op \in {"and", "or"} =>
           /\ \E k, l \in s.kids : k # l
           /\ \A k \in s.kids : k.op \notin {s.op, "const"}
    /\ s.op = "not" => \E k : s.kids = {k} /\ k.op \notin {"not", "const"}
    /\ s.op = "const" => s \in {True, False}

\* Normal forms, each after its parts.
IsForm(shapes) ==
    /\ IsSeq(shapes)
    /\ \A i \in DOMAIN shapes :
           /\ IsShape(shapes[i])
           /\ \A k \in shapes[i].kids : \E j \in DOMAIN shapes : j < i /\ shapes[j] = k

NormalInv ==
    /\ IsForm(local) /\ IsSeq(mapped) /\ Len(mapped) <= Len(arena)
    /\ ToSet(mapped) \subseteq ToSet(local)
    /\ phase = "parse" => mapped = << >>
    /\ phase \in {"normalize", "reach", "intern"} => root # 0
    /\ phase \in {"reach", "intern"} => Len(mapped) = Len(arena)

ReachInv ==
    phase \in {"reach", "intern"} =>
        /\ reached \cup frontier \subseteq ToSet(local)
        /\ Expression \in reached \cup frontier
        /\ \A s \in reached : s.kids \subseteq reached \cup frontier
        /\ phase = "intern" => frontier = {}

\* The shapes interned so far, with their parts: one to one, each to its node.
InternInv ==
    phase \in {"reach", "intern"} =>
        /\ DOMAIN toGlobal \subseteq reached
        /\ \A s \in DOMAIN toGlobal :
               /\ s.kids \subseteq DOMAIN toGlobal
               /\ toGlobal[s] \in Expressions
               /\ nodes[toGlobal[s]] = Shape(s.op, s.token, {toGlobal[k] : k \in s.kids})
        /\ \A s, t \in DOMAIN toGlobal : toGlobal[s] = toGlobal[t] => s = t

\* The answer at work has no root yet.
InProgress == phase \in {"parse", "normalize", "reach", "intern"}
AnswersInv ==
    /\ mode \in {"shared", "per-answer"}
    /\ IsSeq(answers) /\ at \in 0 .. Len(answers)
    /\ \A i, j \in DOMAIN answers : answers[i].key = answers[j].key => i = j
    /\ \A k \in DOMAIN graphs : \E i \in DOMAIN answers :
           answers[i].key = k /\ i <= at /\ (InProgress => i < at)
    /\ InProgress => at # 0
    /\ InProgress /\ mode = "per-answer" => answerRoots = {}
    /\ phase = "extract" =>
           /\ at = 0 /\ graphs = << >>
           /\ IsSeq(arrived) /\ \A i \in DOMAIN arrived : arrived[i].key \in Int

GraphInv ==
    /\ IsSeq(nodes) /\ answerRoots \subseteq DOMAIN nodes
    /\ IsFiniteSet(answerRoots) /\ IsFiniteSet(DOMAIN graphs)
    /\ \A k \in DOMAIN graphs : graphs[k] = [nodes |-> graphs[k].nodes, root |-> graphs[k].root]
    /\ DagIsCanonical

DagInv == ParserInv /\ NormalInv /\ ReachInv /\ InternInv /\ AnswersInv /\ GraphInv

-----------------------------------------------------------------------------
(* A finite set of numbers has a greatest, and an order.                     *)

LEMMA NumbersHaveMax ==
    ASSUME NEW S, IsFiniteSet(S), S \subseteq Int, S # {}
    PROVE  \E m \in S : \A x \in S : x <= m
<1> DEFINE Bad(T) == IsFiniteSet(T) /\ T \subseteq Int /\ T # {} /\ ~\E m \in T : \A x \in T : x <= m
           Sizes == {n \in Nat : \E T : Bad(T) /\ Cardinality(T) = n}
<1> SUFFICES ASSUME Sizes # {} PROVE FALSE
  <2>1. Cardinality(S) \in Nat
    BY FS_CardinalityType
  <2> QED BY <2>1
<1>1. PICK n \in Sizes : \A k \in Sizes : n <= k
  <2>1. Sizes \in SUBSET Nat
    OBVIOUS
  <2> HIDE DEF Sizes
  <2> QED BY <2>1, NatMin
<1>2. PICK T : Bad(T) /\ Cardinality(T) = n
  BY <1>1
<1>3. PICK a \in T : TRUE
  BY <1>2
<1> DEFINE U == T \ {a}
<1>4. /\ IsFiniteSet(U) /\ Cardinality(U) = n - 1 /\ U \subseteq Int /\ n \in Nat
      /\ Cardinality(U) \in Nat
  BY <1>1, <1>2, <1>3, FS_RemoveElement, FS_CardinalityType
<1>5. CASE U = {}
  BY <1>2, <1>3, <1>5
<1>6. CASE U # {}
  <2>1. ~Bad(U)
    <3>1. Cardinality(U) \notin Sizes
      <4> HIDE DEF Sizes, U
      <4> QED BY <1>1, <1>4
    <3> HIDE DEF Bad, U
    <3> QED BY <1>4, <3>1
  <2>2. PICK m \in U : \A x \in U : x <= m
    BY <1>4, <1>6, <2>1
  <2>3. \E k \in {a, m} : \A x \in T : x <= k
    <3>1. a \in Int /\ m \in Int
      BY <1>2, <1>3
    <3>2. CASE a <= m
      BY <2>2, <3>2
    <3>3. CASE m <= a
      <4>1. \A x \in U : x \in Int /\ x <= m
        BY <1>4, <2>2
      <4>2. \A x \in U : x <= a
        BY <3>1, <3>3, <4>1
      <4> QED BY <3>1, <4>2
    <3> QED BY <3>1, <3>2, <3>3
  <2> QED BY <1>2, <1>3, <2>3
<1> QED BY <1>5, <1>6

InOrder(s) == \A i, j \in DOMAIN s : i < j => s[i] < s[j]

LEMMA NumbersHaveAnOrder ==
    ASSUME NEW S, IsFiniteSet(S), S \subseteq Int
    PROVE  \E s \in [1 .. Cardinality(S) -> S] : InOrder(s)
<1> DEFINE Good(T) == \E s \in [1 .. Cardinality(T) -> T] : InOrder(s)
           Sizes == {n \in Nat : \E T : IsFiniteSet(T) /\ T \subseteq Int /\ Cardinality(T) = n /\ ~Good(T)}
<1> SUFFICES ASSUME Sizes # {} PROVE FALSE
  <2>1. Cardinality(S) \in Nat
    BY FS_CardinalityType
  <2> HIDE DEF Good
  <2>2. Good(S)
    BY <2>1
  <2> QED BY <2>2 DEF Good
<1>1. PICK n \in Sizes : \A k \in Sizes : n <= k
  <2>1. Sizes \in SUBSET Nat
    OBVIOUS
  <2> HIDE DEF Sizes
  <2> QED BY <2>1, NatMin
<1>2. PICK T : IsFiniteSet(T) /\ T \subseteq Int /\ Cardinality(T) = n /\ ~Good(T)
  BY <1>1
<1>3. T # {}
  <2>1. ASSUME T = {} PROVE Good(T)
    <3>1. Cardinality(T) = 0
      BY <2>1, FS_EmptySet
    <3>2. << >> \in [1 .. 0 -> {}] /\ InOrder(<< >>)
      BY DEF InOrder
    <3> QED BY <2>1, <3>1, <3>2
  <2> QED BY <1>2, <2>1
<1>4. PICK m \in T : \A x \in T : x <= m
  BY <1>2, <1>3, NumbersHaveMax
<1> DEFINE U == T \ {m}
<1>5. /\ IsFiniteSet(U) /\ Cardinality(U) = n - 1 /\ U \subseteq Int /\ n \in Nat
      /\ n - 1 \in Nat
  <2>1. IsFiniteSet(U) /\ Cardinality(U) = n - 1
    BY <1>2, <1>4, FS_RemoveElement
  <2>2. Cardinality(U) \in Nat
    BY <2>1, FS_CardinalityType
  <2> QED BY <1>1, <1>2, <2>1, <2>2
<1>6. Good(U)
  <2> HIDE DEF Good, U
  <2>1. n - 1 \notin Sizes
    <3> HIDE DEF Sizes
    <3> QED BY <1>1, <1>5
  <2> QED BY <1>5, <2>1
<1>7. PICK r \in [1 .. n - 1 -> U] : InOrder(r)
  BY <1>5, <1>6
<1> DEFINE s == [i \in 1 .. n |-> IF i = n THEN m ELSE r[i]]
<1>8. \A i \in 1 .. n : i = n \/ i \in 1 .. n - 1
  BY <1>5
<1>9. \A i \in 1 .. n - 1 : r[i] \in T /\ r[i] \in Int /\ r[i] < m
  <2>1. \A x \in U : x \in Int /\ x <= m /\ x # m /\ m \in Int
    BY <1>2, <1>4
  <2>2. \A x \in U : x \in Int /\ x < m
    BY <2>1
  <2> QED BY <1>7, <2>2
<1>10. s \in [1 .. n -> T]
  BY <1>4, <1>8, <1>9
<1>11. InOrder(s)
  <2> SUFFICES ASSUME NEW i \in 1 .. n, NEW j \in 1 .. n, i < j PROVE s[i] < s[j]
    BY DEF InOrder
  <2>1. i \in 1 .. n - 1 /\ s[i] = r[i]
    BY <1>5
  <2>2. CASE j = n
    BY <1>9, <2>1, <2>2
  <2>3. CASE j # n
    <3>1. j \in 1 .. n - 1 /\ s[j] = r[j]
      BY <1>8, <2>3
    <3> QED BY <1>7, <2>1, <3>1 DEF InOrder
  <2> QED BY <2>2, <2>3
<1> QED BY <1>2, <1>10, <1>11

-----------------------------------------------------------------------------
(* Sequences.                                                                *)

LEMMA SeqIs ==
    ASSUME NEW X, NEW s \in Seq(X)
    PROVE  /\ IsSeq(s) /\ ToSet(s) \subseteq X /\ Len(s) \in Nat /\ DOMAIN s = 1 .. Len(s)
           /\ \A i \in DOMAIN s : s[i] \in X
<1>1. Len(s) \in Nat /\ DOMAIN s = 1 .. Len(s) /\ s \in [1 .. Len(s) -> X]
  BY LenProperties
<1>2. s \in [1 .. Len(s) -> ToSet(s)]
  BY <1>1 DEF ToSet
<1>3. s \in Seq(ToSet(s))
  BY <1>1, <1>2, SeqDef
<1>4. IsSeq(s)
  BY <1>3 DEF IsSeq
<1>5. ToSet(s) \subseteq X /\ \A i \in DOMAIN s : s[i] \in X
  BY <1>1 DEF ToSet
<1> QED BY <1>1, <1>4, <1>5

LEMMA SeqFacts ==
    ASSUME NEW s, IsSeq(s)
    PROVE  /\ Len(s) \in Nat /\ DOMAIN s = 1 .. Len(s)
           /\ \A i \in DOMAIN s : s[i] \in ToSet(s)
           /\ IsFiniteSet(ToSet(s))
           /\ s = << >> <=> Len(s) = 0
<1>1. s \in Seq(ToSet(s))
  BY DEF IsSeq
<1>2. Len(s) \in Nat /\ DOMAIN s = 1 .. Len(s) /\ s \in [1 .. Len(s) -> ToSet(s)]
  BY <1>1, LenProperties
<1>3. s \in Surjection(1 .. Len(s), ToSet(s))
  BY <1>2 DEF Surjection, ToSet
<1>4. IsFiniteSet(1 .. Len(s))
  BY <1>2, FS_Interval
<1>5. IsFiniteSet(ToSet(s))
  BY <1>3, <1>4, FS_Surjection
<1>6. s = << >> <=> Len(s) = 0
  BY <1>1, EmptySeq
<1> QED BY <1>2, <1>5, <1>6

LEMMA Emptiness ==
    /\ IsSeq(<< >>) /\ Len(<< >>) = 0 /\ DOMAIN << >> = {} /\ ToSet(<< >>) = {}
<1>1. << >> \in Seq({})
  BY EmptySeq
<1>2. IsSeq(<< >>)
  BY <1>1, SeqIs
<1>3. Len(<< >>) = 0 /\ DOMAIN << >> = {}
  OBVIOUS
<1>4. ToSet(<< >>) = {}
  BY <1>3 DEF ToSet
<1> QED BY <1>2, <1>3, <1>4

LEMMA Appended ==
    ASSUME NEW s, NEW e, IsSeq(s)
    PROVE  /\ IsSeq(Append(s, e)) /\ Len(Append(s, e)) = Len(s) + 1
           /\ DOMAIN Append(s, e) = DOMAIN s \cup {Len(s) + 1} /\ Len(s) + 1 \notin DOMAIN s
           /\ \A i \in DOMAIN s : Append(s, e)[i] = s[i]
           /\ Append(s, e)[Len(s) + 1] = e
           /\ ToSet(Append(s, e)) = ToSet(s) \cup {e}
<1> DEFINE X == ToSet(s) \cup {e}
           t == Append(s, e)
<1>1. s \in Seq(ToSet(s)) /\ ToSet(s) \subseteq X /\ e \in X
  BY DEF IsSeq
<1>2. s \in Seq(X)
  BY <1>1, SeqMonotonic
<1>3. Len(s) \in Nat /\ DOMAIN s = 1 .. Len(s)
  BY SeqFacts
<1>4. /\ t \in Seq(X) /\ Len(t) = Len(s) + 1 /\ t[Len(s) + 1] = e
      /\ \A i \in 1 .. Len(s) : t[i] = s[i]
  BY <1>1, <1>2, AppendProperties
<1> HIDE DEF t, X
<1>5. IsSeq(t) /\ DOMAIN t = 1 .. Len(s) + 1
  <2>1. t \in Seq(X)
    BY <1>4
  <2>2. IsSeq(t) /\ DOMAIN t = 1 .. Len(t)
    BY <2>1, SeqIs
  <2> QED BY <1>4, <2>2
<1>6. DOMAIN t = DOMAIN s \cup {Len(s) + 1} /\ Len(s) + 1 \notin DOMAIN s
  BY <1>3, <1>5
<1>7. ToSet(t) = X
  BY <1>3, <1>4, <1>6 DEF ToSet, X
<1> QED BY <1>3, <1>4, <1>5, <1>6, <1>7 DEF t, X

LEMMA FrontIs ==
    ASSUME NEW X, NEW s \in Seq(X), s # << >>
    PROVE  /\ Front(s) \in Seq(X) /\ Len(Front(s)) = Len(s) - 1 /\ Len(s) \in Nat \ {0}
           /\ DOMAIN Front(s) = 1 .. Len(s) - 1
           /\ \A i \in DOMAIN Front(s) : Front(s)[i] = s[i] /\ i \in DOMAIN s
           /\ Last(s) = s[Len(s)] /\ Last(s) \in X /\ Len(s) \in DOMAIN s
<1>1. Len(s) \in Nat \ {0} /\ DOMAIN s = 1 .. Len(s) /\ s \in [1 .. Len(s) -> X]
  BY EmptySeq, LenProperties
<1>2. \A i \in 1 .. Len(s) - 1 : s[i] \in X
  BY <1>1
<1> DEFINE n == Len(s) - 1
<1>3. n \in Nat /\ 1 \in Int /\ \A i \in 1 .. n : s[i] \in X
  BY <1>1, <1>2
<1> HIDE DEF n
<1>4. /\ SubSeq(s, 1, n) \in Seq(X)
      /\ Len(SubSeq(s, 1, n)) = IF 1 <= n THEN n - 1 + 1 ELSE 0
      /\ \A i \in 1 .. n - 1 + 1 : SubSeq(s, 1, n)[i] = s[1 + i - 1]
  BY <1>3, SubSeqProperties
<1>5. Len(SubSeq(s, 1, n)) = n /\ \A i \in 1 .. n : SubSeq(s, 1, n)[i] = s[i]
  BY <1>3, <1>4
<1>6. Front(s) = SubSeq(s, 1, n)
  BY DEF Front, n
<1>7. DOMAIN Front(s) = 1 .. n
  BY <1>4, <1>5, <1>6, LenProperties
<1> QED BY <1>1, <1>4, <1>5, <1>6, <1>7 DEF n, Last

-----------------------------------------------------------------------------
(* Normal forms.                                                             *)

AreForms(T) == IsFiniteSet(T) /\ \A s \in T : IsShape(s) /\ s.kids \subseteq T

LEMMA FormsOf ==
    ASSUME NEW shapes, IsForm(shapes)
    PROVE  AreForms(ToSet(shapes))
<1>1. IsSeq(shapes) /\ IsFiniteSet(ToSet(shapes))
  BY SeqFacts DEF IsForm
<1>2. ASSUME NEW s \in ToSet(shapes) PROVE IsShape(s) /\ s.kids \subseteq ToSet(shapes)
  <2>1. PICK i \in DOMAIN shapes : s = shapes[i]
    BY DEF ToSet
  <2>2. IsShape(s) /\ \A k \in s.kids : \E j \in DOMAIN shapes : shapes[j] = k
    BY <2>1 DEF IsForm
  <2> QED BY <2>2 DEF ToSet
<1> QED BY <1>1, <1>2 DEF AreForms

LEMMA ConstIs ==
    /\ IsShape(True) /\ True.kids = {} /\ True.op = "const" /\ True.token = 1
    /\ IsShape(False) /\ False.kids = {} /\ False.op = "const" /\ False.token = 0
    /\ True = Const(1) /\ False = Const(0)
  BY DEF IsShape, True, False, Const, Shape

LEMMA NotIs ==
    ASSUME NEW T, AreForms(T), NEW s \in T
    PROVE  IsShape(MakeNot(s)) /\ MakeNot(s).kids \subseteq T
<1>1. IsShape(s) /\ s.kids \subseteq T
  BY DEF AreForms
<1>2. CASE s.op = "const"
  <2>1. s = True \/ s = False
    BY <1>1, <1>2 DEF IsShape
  <2>2. MakeNot(s) = Const(1 - s.token)
    BY <1>2 DEF MakeNot
  <2>3. MakeNot(s) = True \/ MakeNot(s) = False
    BY <2>1, <2>2, ConstIs
  <2> QED BY <2>3, ConstIs
<1>3. CASE s.op = "not"
  <2>1. PICK k : s.kids = {k}
    BY <1>1, <1>3 DEF IsShape
  <2>2. MakeNot(s) = k
    BY <1>3, <2>1 DEF MakeNot
  <2> QED BY <1>1, <2>1, <2>2 DEF AreForms
<1>4. CASE s.op \notin {"const", "not"}
  <2>1. MakeNot(s) = Shape("not", 0, {s})
    BY <1>4 DEF MakeNot
  <2> QED BY <1>4, <2>1 DEF IsShape, Shape
<1> QED BY <1>2, <1>3, <1>4

LEMMA NaryIs ==
    ASSUME NEW T, AreForms(T), NEW op \in {"and", "or"}, NEW kids \in SUBSET T
    PROVE  IsShape(MakeNary(op, kids)) /\ MakeNary(op, kids).kids \subseteq T
<1> DEFINE identity == IF op = "and" THEN True ELSE False
           annihilator == IF op = "and" THEN False ELSE True
           flat == UNION {IF k.op = op THEN k.kids ELSE {k} : k \in kids}
           kept == flat \ {identity}
           made == MakeNary(op, kids)
<1>1. made = IF annihilator \in flat THEN annihilator
             ELSE IF kept = {} THEN identity
             ELSE IF Cardinality(kept) = 1 THEN CHOOSE k \in kept : TRUE
             ELSE Shape(op, 0, kept)
  BY DEF MakeNary
<1>2. ASSUME NEW l \in flat PROVE l \in T /\ l.op # op
  <2>1. PICK k \in kids : l \in IF k.op = op THEN k.kids ELSE {k}
    OBVIOUS
  <2>2. IsShape(k) /\ k.kids \subseteq T /\ k \in T
    BY DEF AreForms
  <2> QED BY <2>1, <2>2 DEF IsShape
<1>3. /\ {identity, annihilator} = {True, False}
      /\ IsShape(identity) /\ identity.kids = {} /\ IsShape(annihilator) /\ annihilator.kids = {}
  BY ConstIs
<1> HIDE DEF identity, annihilator, flat, made
<1>4. IsFiniteSet(kept) /\ kept \subseteq T /\ \A k \in kept : IsShape(k) /\ k.kids \subseteq T
  BY <1>2, FS_Subset DEF AreForms
<1>5. CASE annihilator \in flat \/ kept = {}
  BY <1>1, <1>3, <1>5 DEF made
<1>6. CASE annihilator \notin flat /\ kept # {} /\ Cardinality(kept) = 1
  <2>1. PICK k : kept = {k}
    BY <1>4, <1>6, FS_Singleton
  <2>2. made = k
    BY <1>1, <1>6, <2>1
  <2> QED BY <1>4, <2>1, <2>2 DEF made
<1>7. CASE annihilator \notin flat /\ kept # {} /\ Cardinality(kept) # 1
  <2>1. PICK k \in kept : TRUE
    BY <1>7
  <2>2. kept # {k}
    BY <1>7, FS_Singleton
  <2>3. PICK l \in kept : k # l
    BY <2>1, <2>2
  <2>4. \A j \in kept : j.op # "const"
    <3> SUFFICES ASSUME NEW j \in kept, j.op = "const" PROVE FALSE
      OBVIOUS
    <3>1. IsShape(j)
      BY <1>4
    <3>2. j \in {True, False}
      BY <3>1 DEF IsShape
    <3> QED BY <1>3, <1>7, <3>2
  <2>5. made = Shape(op, 0, kept)
    BY <1>1, <1>7
  <2>6. \A j \in kept : j.op \notin {op, "const"}
    BY <1>2, <2>4
  <2>7. made.op = op /\ made.kids = kept /\ made = Shape(made.op, made.token, made.kids)
    BY <2>5 DEF Shape
  <2>8. IsShape(made)
    BY <2>3, <2>6, <2>7 DEF IsShape
  <2> QED BY <1>4, <2>7, <2>8 DEF made
<1> QED BY <1>5, <1>6, <1>7

LEMMA FormGrows ==
    ASSUME NEW shapes, NEW s, IsForm(shapes), IsShape(s), s.kids \subseteq ToSet(shapes)
    PROVE  IsForm(Append(shapes, s))
<1> DEFINE t == Append(shapes, s)
           n == Len(shapes)
<1>1. /\ IsSeq(t) /\ DOMAIN t = DOMAIN shapes \cup {n + 1}
      /\ \A i \in DOMAIN shapes : t[i] = shapes[i]
      /\ t[n + 1] = s /\ n \in Nat /\ DOMAIN shapes = 1 .. n
  BY Appended, SeqFacts DEF IsForm
<1> HIDE DEF t, n
<1>2. ASSUME NEW i \in DOMAIN t
      PROVE  IsShape(t[i]) /\ \A k \in t[i].kids : \E j \in DOMAIN t : j < i /\ t[j] = k
  <2>1. CASE i \in DOMAIN shapes
    BY <1>1, <2>1 DEF IsForm
  <2>2. CASE i = n + 1
    <3>1. ASSUME NEW k \in s.kids PROVE \E j \in DOMAIN t : j < i /\ t[j] = k
      <4>1. PICK j \in DOMAIN shapes : shapes[j] = k
        BY <3>1 DEF ToSet
      <4> QED BY <1>1, <2>2, <4>1
    <3> QED BY <1>1, <2>2, <3>1
  <2> QED BY <1>1, <2>1, <2>2
<1> QED BY <1>1, <1>2 DEF IsForm, t

LEMMA TwoAppended ==
    ASSUME NEW s, NEW a, NEW b, IsSeq(s)
    PROVE  s \o <<a>> = Append(s, a) /\ s \o <<a, b>> = Append(Append(s, a), b)
<1> DEFINE X == ToSet(s) \cup {a, b}
<1>1. s \in Seq(ToSet(s)) /\ ToSet(s) \subseteq X /\ a \in X /\ b \in X
  BY DEF IsSeq
<1> HIDE DEF X
<1>2. s \in Seq(X)
  BY <1>1, SeqMonotonic
<1>3. Append(s, a) = s \o <<a>> /\ Append(s, a) \in Seq(X) /\ <<a>> \in Seq(X) /\ <<b>> \in Seq(X)
  BY <1>1, <1>2, AppendIsConcat, AppendProperties
<1>4. Append(Append(s, a), b) = (s \o <<a>>) \o <<b>>
  BY <1>1, <1>3, AppendIsConcat
<1>5. (s \o <<a>>) \o <<b>> = s \o (<<a>> \o <<b>>)
  BY <1>2, <1>3, ConcatAssociative
<1>6. <<a>> \o <<b>> = <<a, b>>
  <2>1. Append(<<a>>, b) = <<a>> \o <<b>>
    BY <1>1, <1>3, AppendIsConcat
  <2>2. Append(<<a>>, b) = <<a, b>>
    <3> DEFINE t == Append(<<a>>, b)
               u == <<a, b>>
    <3>1. /\ t \in Seq(X) /\ Len(t) = Len(<<a>>) + 1 /\ t[Len(<<a>>) + 1] = b
          /\ \A i \in 1 .. Len(<<a>>) : t[i] = <<a>>[i]
      BY <1>1, <1>3, AppendProperties
    <3>2. Len(<<a>>) = 1 /\ <<a>>[1] = a
      OBVIOUS
    <3>3. u \in Seq(X) /\ Len(u) = 2 /\ u[1] = a /\ u[2] = b
      BY <1>1
    <3> HIDE DEF t, u
    <3>4. t \in Seq(X) /\ Len(t) = 2 /\ t[1] = a /\ t[2] = b
      BY <3>1, <3>2
    <3>5. \A i \in 1 .. 2 : t[i] = u[i]
      BY <3>3, <3>4
    <3>6. t = u
      BY <3>3, <3>4, <3>5, SeqEqual
    <3> QED BY <3>6 DEF t, u
  <2> QED BY <2>1, <2>2
<1> QED BY <1>3, <1>4, <1>5, <1>6

-----------------------------------------------------------------------------
(* The parser.                                                               *)

LEMMA FramesEmpty == \A n : FramesAre(<< >>, n)
  BY Emptiness DEF FramesAre

LEMMA FramesPush ==
    ASSUME NEW stack, NEW n, NEW f, FramesAre(stack, n), IsFrame(f, n)
    PROVE  FramesAre(Append(stack, f), n)
<1>1. /\ IsSeq(Append(stack, f)) /\ DOMAIN Append(stack, f) = DOMAIN stack \cup {Len(stack) + 1}
      /\ \A i \in DOMAIN stack : Append(stack, f)[i] = stack[i]
      /\ Append(stack, f)[Len(stack) + 1] = f
  BY Appended DEF FramesAre
<1> QED BY <1>1 DEF FramesAre

LEMMA FramesPop ==
    ASSUME NEW stack, NEW n, FramesAre(stack, n), stack # << >>
    PROVE  FramesAre(Front(stack), n) /\ IsFrame(Last(stack), n)
<1> DEFINE X == ToSet(stack)
<1>1. stack \in Seq(X)
  BY DEF FramesAre, IsSeq
<1> HIDE DEF X
<1>2. /\ Front(stack) \in Seq(X) /\ Len(stack) \in DOMAIN stack /\ Last(stack) = stack[Len(stack)]
      /\ \A i \in DOMAIN Front(stack) : Front(stack)[i] = stack[i] /\ i \in DOMAIN stack
  BY <1>1, FrontIs
<1>3. IsSeq(Front(stack))
  BY <1>2, SeqIs
<1> QED BY <1>2, <1>3 DEF FramesAre

LEMMA IdsGrow ==
    ASSUME NEW n \in Nat, NEW m \in Nat, n <= m
    PROVE  /\ Seq(1 .. n) \subseteq Seq(1 .. m) /\ Seq(Seq(1 .. n)) \subseteq Seq(Seq(1 .. m))
<1>1. 1 .. n \subseteq 1 .. m
  OBVIOUS
<1>2. ASSUME NEW s \in Seq(1 .. n) PROVE s \in Seq(1 .. m)
  BY <1>1, SeqMonotonic
<1>3. Seq(1 .. n) \subseteq Seq(1 .. m)
  BY <1>2
<1>4. ASSUME NEW s \in Seq(Seq(1 .. n)) PROVE s \in Seq(Seq(1 .. m))
  BY <1>3, SeqMonotonic
<1> QED BY <1>3, <1>4

LEMMA FramesGrow ==
    ASSUME NEW stack, NEW n \in Nat, NEW m \in Nat, n <= m, FramesAre(stack, n)
    PROVE  FramesAre(stack, m)
  BY IdsGrow DEF FramesAre, IsFrame

LEMMA ArenaPush ==
    ASSUME NEW raw, NEW node, ArenaIs(raw), IsRaw(node, Len(raw))
    PROVE  ArenaIs(Append(raw, node)) /\ Len(Append(raw, node)) = Len(raw) + 1 /\ Len(raw) \in Nat
<1>1. /\ IsSeq(Append(raw, node)) /\ DOMAIN Append(raw, node) = DOMAIN raw \cup {Len(raw) + 1}
      /\ \A i \in DOMAIN raw : Append(raw, node)[i] = raw[i]
      /\ Append(raw, node)[Len(raw) + 1] = node /\ Len(Append(raw, node)) = Len(raw) + 1
      /\ Len(raw) \in Nat
  BY Appended, SeqFacts DEF ArenaIs
<1>2. Len(raw) = (Len(raw) + 1) - 1
  BY <1>1
<1> QED BY <1>1, <1>2 DEF ArenaIs

\* A frame that takes an operand, and one that opens a group.
LEMMA FrameTakes ==
    ASSUME NEW n \in Nat, NEW m \in Nat, NEW id \in 1 .. m, n <= m, NEW f, IsFrame(f, n)
    PROVE  IsFrame([f EXCEPT !.groups = Append(Front(@), Append(Last(f.groups), id))], m)
<1> DEFINE X == Seq(1 .. m)
           s == f.groups
           group == Append(Last(s), id)
           t == Append(Front(s), group)
<1>1. s \in Seq(X) /\ s # << >> /\ f = [op |-> f.op, groups |-> s]
  BY IdsGrow DEF IsFrame
<1>2. Front(s) \in Seq(X) /\ Last(s) \in Seq(1 .. m)
  <2> HIDE DEF X, s
  <2>1. Front(s) \in Seq(X) /\ Last(s) \in X
    BY <1>1, FrontIs
  <2> QED BY <2>1 DEF X
<1>3. group \in X
  BY <1>2, AppendProperties
<1> HIDE DEF X, group
<1>4. t \in Seq(X) /\ t # << >>
  <2> HIDE DEF s
  <2> QED BY <1>2, <1>3, AppendProperties
<1>5. [f EXCEPT !.groups = t] = [op |-> f.op, groups |-> t]
  <2> HIDE DEF t
  <2> QED BY <1>1
<1> HIDE DEF t
<1>6. IsFrame([f EXCEPT !.groups = t], m)
  BY <1>4, <1>5 DEF IsFrame, X
<1> QED BY <1>6 DEF t, group

LEMMA FrameOpens ==
    ASSUME NEW n, NEW f, IsFrame(f, n)
    PROVE  IsFrame([f EXCEPT !.groups = Append(@, << >>)], n)
<1> DEFINE X == Seq(1 .. n)
           t == Append(f.groups, << >>)
<1>1. << >> \in X
  BY EmptySeq
<1>2. f.groups \in Seq(X) /\ f = [op |-> f.op, groups |-> f.groups]
  BY DEF IsFrame
<1> HIDE DEF X
<1>3. t \in Seq(X) /\ t # << >>
  BY <1>1, <1>2, AppendProperties
<1> HIDE DEF t
<1>4. [f EXCEPT !.groups = t] = [op |-> f.op, groups |-> t]
  BY <1>2
<1> QED BY <1>3, <1>4 DEF IsFrame, X, t

LEMMA AttachedIs ==
    ASSUME NEW n \in Nat, NEW m \in Nat, NEW id \in 1 .. m, n <= m, NEW stack,
           FramesAre(stack, n), stack # << >>
    PROVE  FramesAre(Attached(stack, id), m)
<1> DEFINE top == Last(stack)
           f == [top EXCEPT !.groups = Append(Front(@), Append(Last(top.groups), id))]
<1>1. FramesAre(Front(stack), n) /\ IsFrame(top, n)
  BY FramesPop
<1>2. FramesAre(Front(stack), m)
  BY <1>1, FramesGrow
<1>3. Attached(stack, id) = Append(Front(stack), f)
  BY DEF Attached
<1> HIDE DEF top
<1>4. IsFrame(f, m)
  BY <1>1, FrameTakes
<1> HIDE DEF f
<1> QED BY <1>2, <1>3, <1>4, FramesPush

LEMMA AttachKeeps ==
    ASSUME ParserInv, NEW stack, FramesAre(stack, Len(arena)), NEW node, IsRaw(node, Len(arena)),
           Attach(stack, node)
    PROVE  ParserInv'
<1> DEFINE n == Len(arena)
           m == Len(arena')
<1>1. arena' = Append(arena, node)
  BY DEF Attach
<1>2. ArenaIs(arena') /\ m = n + 1 /\ n \in Nat
  BY <1>1, ArenaPush DEF ParserInv
<1> HIDE DEF n, m
<1>3. m \in Nat /\ m \in 1 .. m /\ n <= m /\ m # 0
  BY <1>2
<1>4. root \in 0 .. n
  BY DEF ParserInv, n
<1>5. FramesAre(stack, n)
  BY DEF n
<1>6. CASE stack # << >>
  <2>1. frames' = Attached(stack, m) /\ root' = root
    BY <1>6 DEF Attach, m
  <2>2. FramesAre(frames', m)
    BY <1>2, <1>3, <1>5, <1>6, <2>1, AttachedIs
  <2> QED BY <1>2, <1>3, <1>4, <2>1, <2>2 DEF ParserInv, m
<1>7. CASE stack = << >>
  <2>1. frames' = << >> /\ root' = m
    BY <1>7 DEF Attach, m
  <2> QED BY <1>2, <1>3, <2>1, FramesEmpty DEF ParserInv, m
<1> QED BY <1>6, <1>7

LEMMA ListedIs ==
    ASSUME NEW n \in Nat, NEW groups \in Seq(Seq(1 .. n)), NEW op, WellFormed(op, groups),
           op = "minus" => Len(groups[2]) = 1
    PROVE  /\ Listed(groups) \in Seq(1 .. n) /\ (op = "minus" => Len(Listed(groups)) = 2)
           /\ op \in {"plus", "times", "minus"}
<1> DEFINE X == Seq(1 .. n)
           s == [i \in DOMAIN groups |-> groups[i][1]]
<1>1. Len(groups) \in Nat /\ DOMAIN groups = 1 .. Len(groups) /\ groups \in [1 .. Len(groups) -> X]
  BY LenProperties
<1>2. CASE Len(groups) = 1
  <2>1. groups[1] \in X
    BY <1>1, <1>2
  <2> QED BY <1>2, <2>1 DEF Listed, WellFormed
<1>3. CASE Len(groups) # 1
  <2>1. op \in {"times", "minus"} /\ \A i \in DOMAIN groups : Len(groups[i]) = 1
    <3>1. CASE op = "minus"
      <4>1. Len(groups) = 2 /\ Len(groups[1]) = 1 /\ Len(groups[2]) = 1
        BY <3>1 DEF WellFormed
      <4> QED BY <1>1, <3>1, <4>1
    <3>2. CASE op # "minus"
      <4>1. op = "times" /\ (groups = << << >> >> \/ \A i \in DOMAIN groups : Len(groups[i]) = 1)
        BY <1>3, <3>2 DEF WellFormed
      <4>2. Len(<< << >> >>) = 1
        OBVIOUS
      <4> QED BY <1>3, <4>1, <4>2
    <3> QED BY <3>1, <3>2
  <2>2. ASSUME NEW i \in DOMAIN groups PROVE groups[i][1] \in 1 .. n
    <3>1. groups[i] \in X /\ Len(groups[i]) = 1
      BY <1>1, <2>1
    <3>2. 1 \in 1 .. Len(groups[i])
      BY <3>1
    <3> QED BY <3>1, <3>2, ElementOfSeq
  <2>3. s \in [1 .. Len(groups) -> 1 .. n]
    BY <1>1, <2>2
  <2>4. s \in Seq(1 .. n) /\ Len(s) = Len(groups)
    BY <1>1, <2>3
  <2>5. Listed(groups) = s
    BY <1>3 DEF Listed
  <2> QED BY <2>1, <2>4, <2>5 DEF WellFormed
<1> QED BY <1>2, <1>3

\* What a step leaves alone keeps its part of the invariant.
LEMMA DagUnchanged ==
    ASSUME UNCHANGED <<mode, nodes, answerRoots, graphs>>
    PROVE  /\ Expressions' = Expressions /\ (DagIsCanonical' <=> DagIsCanonical)
           /\ GraphInv' <=> GraphInv
<1>1. Expressions' = Expressions
  BY DEF Expressions
<1>2. DagIsCanonical' <=> DagIsCanonical
  BY <1>1 DEF DagIsCanonical
<1> QED BY <1>1, <1>2 DEF GraphInv

LEMMA ParseKeeps ==
    ASSUME DagInv, phase = "parse", phase' = phase, ParserInv',
           UNCHANGED <<response, answers, at, normal, dag, graphs>>
    PROVE  DagInv'
<1>1. UNCHANGED <<mode, arrived, answers, at, local, mapped, nodes, answerRoots, graphs>>
  BY DEF response, normal, dag
<1>2. mapped' = << >> /\ Len(mapped') = 0
  BY <1>1, Emptiness DEF DagInv, NormalInv
<1>3. Len(arena') \in Nat
  BY SeqFacts DEF ParserInv, ArenaIs
<1>4. NormalInv'
  BY <1>1, <1>2, <1>3 DEF NormalInv, DagInv
<1>5. ReachInv' /\ InternInv'
  BY DEF ReachInv, InternInv
<1>6. AnswersInv'
  BY <1>1 DEF AnswersInv, DagInv, InProgress
<1>7. GraphInv'
  BY <1>1, DagUnchanged DEF DagInv
<1> QED BY <1>4, <1>5, <1>6, <1>7 DEF DagInv

LEMMA QuietKeeps ==
    ASSUME DagInv, phase' \notin {"extract", "parse", "normalize", "reach", "intern"},
           UNCHANGED <<response, answers, at, parser, normal, dag, graphs>>
    PROVE  DagInv'
<1>1. UNCHANGED <<mode, arrived, answers, at, arena, frames, root, local, mapped, nodes, answerRoots, graphs>>
  BY DEF response, parser, normal, dag
<1>2. ParserInv'
  BY <1>1 DEF ParserInv, DagInv
<1>3. NormalInv'
  BY <1>1 DEF NormalInv, DagInv
<1>4. ReachInv' /\ InternInv'
  BY DEF ReachInv, InternInv
<1>5. AnswersInv'
  BY <1>1 DEF AnswersInv, DagInv, InProgress
<1>6. GraphInv'
  BY <1>1, DagUnchanged DEF DagInv
<1> QED BY <1>2, <1>3, <1>4, <1>5, <1>6 DEF DagInv

LEMMA RejectKeeps == ASSUME DagInv, Reject PROVE DagInv'
  BY QuietKeeps DEF Reject

LEMMA OpenKeeps == ASSUME DagInv, ParseOpen PROVE DagInv'
<1> DEFINE f == [op |-> Head(input).value, groups |-> << << >> >>]
           n == Len(arena)
<1>1. phase = "parse" /\ frames' = Append(frames, f) /\ UNCHANGED <<phase, arena, root>>
  BY DEF ParseOpen, Lexed, Consume
<1>2. f.groups \in Seq(Seq(1 .. n)) /\ f.groups # << >>
  <2>1. << >> \in Seq(1 .. n)
    BY EmptySeq
  <2> QED BY <2>1
<1>3. IsFrame(f, n)
  BY <1>2 DEF IsFrame
<1> HIDE DEF f
<1>4. ParserInv'
  BY <1>1, <1>3, FramesPush DEF DagInv, ParserInv
<1> QED BY <1>1, <1>4, ParseKeeps DEF ParseOpen, Consume

LEMMA AtomKeeps == ASSUME DagInv, ParseAtom PROVE DagInv'
<1>1. CASE Misplaced
  BY <1>1, RejectKeeps DEF ParseAtom
<1>2. CASE ~Misplaced
  <2> DEFINE node == RawNode("leaf", Head(input).value, << >>)
  <2>1. phase = "parse" /\ Attach(frames, node) /\ Consume
    BY <1>2 DEF ParseAtom, Lexed
  <2>2. IsRaw(node, Len(arena))
    BY EmptySeq DEF IsRaw, RawNode
  <2> HIDE DEF node
  <2>3. ParserInv'
    BY <2>1, <2>2, AttachKeeps DEF DagInv, ParserInv
  <2> QED BY <2>1, <2>3, ParseKeeps DEF Consume
<1> QED BY <1>1, <1>2

LEMMA CommaKeeps == ASSUME DagInv, ParseComma PROVE DagInv'
<1>1. CASE frames = << >>
  BY <1>1, RejectKeeps DEF ParseComma
<1>2. CASE frames # << >>
  <2> DEFINE f == [Last(frames) EXCEPT !.groups = Append(@, << >>)]
             n == Len(arena)
  <2>1. phase = "parse" /\ frames' = Append(Front(frames), f) /\ Consume /\ UNCHANGED <<arena, root>>
    BY <1>2 DEF ParseComma, Lexed
  <2>2. FramesAre(Front(frames), n) /\ IsFrame(Last(frames), n)
    BY <1>2, FramesPop DEF DagInv, ParserInv
  <2>3. IsFrame(f, n)
    BY <2>2, FrameOpens
  <2> HIDE DEF f
  <2>4. FramesAre(frames', n)
    BY <2>1, <2>2, <2>3, FramesPush
  <2>5. ParserInv'
    BY <2>1, <2>4 DEF DagInv, ParserInv
  <2> QED BY <2>1, <2>5, ParseKeeps DEF Consume
<1> QED BY <1>1, <1>2

LEMMA OperandsAre ==
    ASSUME NEW n, NEW groups \in Seq(Seq(1 .. n)), groups # << >>, NEW op
    PROVE  Operands(op, groups) \in Seq(Seq(1 .. n))
<1> DEFINE X == Seq(1 .. n)
<1> HIDE DEF X
<1>1. groups \in Seq(X)
  BY DEF X
<1>2. Front(groups) \in Seq(X)
  BY <1>1, FrontIs
<1> QED BY <1>1, <1>2 DEF Operands, X

LEMMA CloseKeeps == ASSUME DagInv, ParseClose PROVE DagInv'
<1> DEFINE n == Len(arena)
           op == Last(frames).op
           groups == Operands(op, Last(frames).groups)
           outer == Front(frames)
           id == n + 1
           sum == RawNode("plus", 0, groups[2])
           node == RawNode("minus", 0, <<groups[1][1], id>>)
<1>1. CASE frames = << >>
  BY <1>1, RejectKeeps DEF ParseClose
<1>2. CASE frames # << >> /\ (~WellFormed(op, groups) \/ (outer = << >> /\ root # 0))
  BY <1>2, RejectKeeps DEF ParseClose
<1>3. ASSUME frames # << >>, WellFormed(op, groups), ~(outer = << >> /\ root # 0)
      PROVE  DagInv'
  <2>1. FramesAre(outer, n) /\ IsFrame(Last(frames), n) /\ ArenaIs(arena) /\ n \in Nat /\ root \in 0 .. n
    BY <1>3, FramesPop, SeqFacts DEF DagInv, ParserInv, ArenaIs
  <2>2. groups \in Seq(Seq(1 .. n))
    BY <2>1, OperandsAre DEF IsFrame
  <2>3. phase = "parse" /\ Consume
    BY <1>3 DEF ParseClose, Lexed
  <2>4. CASE op = "minus" /\ Len(groups[2]) # 1
    <3>1. /\ arena' = arena \o <<sum, node>>
          /\ IF outer # << >> THEN frames' = Attached(outer, id + 1) /\ root' = root
             ELSE frames' = << >> /\ root' = id + 1
      BY <1>3, <2>4 DEF ParseClose
    <3>2. groups[2] \in Seq(1 .. n) /\ groups[1][1] \in 1 .. n
      <4>1. Len(groups) = 2 /\ Len(groups[1]) = 1
        BY <1>3, <2>4 DEF WellFormed
      <4> HIDE DEF groups
      <4>2. groups[1] \in Seq(1 .. n) /\ groups[2] \in Seq(1 .. n)
        BY <2>2, <4>1, ElementOfSeq
      <4>3. 1 \in 1 .. Len(groups[1])
        BY <4>1
      <4> QED BY <4>2, <4>3, ElementOfSeq
    <3> HIDE DEF groups
    <3>3. IsRaw(sum, n)
      BY <3>2 DEF IsRaw, RawNode
    <3>4. IsRaw(node, id)
      BY <2>1, <3>2 DEF IsRaw, RawNode
    <3> HIDE DEF sum, node, op, outer
    <3>5. arena' = Append(Append(arena, sum), node)
      BY <2>1, <3>1, TwoAppended DEF ArenaIs
    <3>6. ArenaIs(Append(arena, sum)) /\ Len(Append(arena, sum)) = n + 1
      BY <2>1, <3>3, ArenaPush
    <3>7. ArenaIs(arena') /\ Len(arena') = id + 1
      BY <3>4, <3>5, <3>6, ArenaPush
    <3>8. id + 1 \in 1 .. id + 1 /\ id + 1 \in Nat /\ n <= id + 1
      BY <2>1
    <3>9. ParserInv'
      <4>1. CASE outer # << >>
        <5>1. FramesAre(Attached(outer, id + 1), id + 1)
          BY <2>1, <3>8, <4>1, AttachedIs
        <5>2. root' \in 0 .. id + 1
          BY <2>1, <3>1, <4>1
        <5> QED BY <3>1, <3>7, <4>1, <5>1, <5>2 DEF ParserInv
      <4>2. CASE outer = << >>
        <5>1. FramesAre(frames', id + 1) /\ root' \in 0 .. id + 1
          BY <3>1, <3>8, <4>2, FramesEmpty
        <5> QED BY <3>7, <5>1 DEF ParserInv
      <4> QED BY <4>1, <4>2
    <3> QED BY <2>3, <3>9, ParseKeeps DEF Consume
  <2>5. CASE ~(op = "minus" /\ Len(groups[2]) # 1)
    <3> DEFINE raw == RawNode(op, 0, Listed(groups))
    <3>1. Attach(outer, raw)
      BY <1>3, <2>5 DEF ParseClose
    <3> HIDE DEF groups, op, outer
    <3>2. /\ Listed(groups) \in Seq(1 .. n) /\ (op = "minus" => Len(Listed(groups)) = 2)
          /\ op \in {"plus", "times", "minus"}
      BY <1>3, <2>1, <2>2, <2>5, ListedIs
    <3>3. IsRaw(raw, n)
      BY <3>2 DEF IsRaw, RawNode
    <3> HIDE DEF raw
    <3>4. ParserInv'
      BY <2>1, <3>1, <3>3, AttachKeeps DEF DagInv
    <3> QED BY <2>3, <3>4, ParseKeeps DEF Consume
  <2> QED BY <2>4, <2>5
<1> QED BY <1>1, <1>2, <1>3

LEMMA EndKeeps == ASSUME DagInv, ParseEnd PROVE DagInv'
<1>1. CASE frames # << >> \/ root = 0
  BY <1>1, RejectKeeps DEF ParseEnd
<1>2. CASE ~(frames # << >> \/ root = 0)
  <2>1. /\ phase = "parse" /\ phase' = "normalize" /\ root # 0
        /\ UNCHANGED <<response, answers, at, parser, normal, dag, graphs>>
    BY <1>2 DEF ParseEnd
  <2>2. UNCHANGED <<mode, arrived, answers, at, arena, frames, root, local, mapped, nodes, answerRoots, graphs>>
    BY <2>1 DEF response, parser, normal, dag
  <2>3. ParserInv' /\ NormalInv'
    BY <2>1, <2>2 DEF ParserInv, NormalInv, DagInv
  <2>4. ReachInv' /\ InternInv'
    BY <2>1 DEF ReachInv, InternInv
  <2>5. AnswersInv'
    BY <2>1, <2>2 DEF AnswersInv, DagInv, InProgress
  <2>6. GraphInv'
    BY <2>2, DagUnchanged DEF DagInv
  <2> QED BY <2>3, <2>4, <2>5, <2>6 DEF DagInv
<1> QED BY <1>1, <1>2

-----------------------------------------------------------------------------
(* Normalisation and the search for what is reachable.                       *)

LEMMA OneMore ==
    ASSUME NEW shapes, NEW s, IsForm(shapes), IsShape(s), s.kids \subseteq ToSet(shapes)
    PROVE  /\ IsForm(Append(shapes, s)) /\ shapes \o <<s>> = Append(shapes, s)
           /\ ToSet(Append(shapes, s)) = ToSet(shapes) \cup {s}
<1>1. IsSeq(shapes)
  BY DEF IsForm
<1> QED BY <1>1, FormGrows, TwoAppended, Appended

LEMMA LastOf == \A a, b : Last(<<a>>) = a /\ Last(<<a, b>>) = b
  BY DEF Last

\* The new shapes are normal forms of known parts, the last of them the node's.
LEMMA MadeIs ==
    ASSUME DagInv, NormalizeNode
    PROVE  \E s : /\ IsForm(local') /\ ToSet(local) \subseteq ToSet(local')
                  /\ mapped' = Append(mapped, s) /\ s \in ToSet(local')
<1> DEFINE n == Len(mapped)
           raw == arena[n + 1]
           operand(i) == mapped[raw.kids[i]]
           operands == {operand(i) : i \in DOMAIN raw.kids}
           negated == MakeNot(operand(2))
           conj == MakeNary("and", {operand(1), negated})
           made == CASE raw.op = "leaf"  -> <<Shape("leaf", raw.token, {})>>
                     [] raw.op = "plus"  -> <<MakeNary("or", operands)>>
                     [] raw.op = "times" -> <<MakeNary("and", operands)>>
                     [] raw.op = "minus" -> <<negated, conj>>
           T == ToSet(local)
<1>1. n < Len(arena) /\ local' = local \o made /\ mapped' = Append(mapped, Last(made))
  BY DEF NormalizeNode
<1>2. /\ IsForm(local) /\ AreForms(T) /\ IsSeq(mapped) /\ ToSet(mapped) \subseteq T /\ ArenaIs(arena)
  BY FormsOf DEF DagInv, NormalInv, ParserInv
<1>3. n \in Nat /\ DOMAIN mapped = 1 .. n /\ Len(arena) \in Nat /\ DOMAIN arena = 1 .. Len(arena)
  BY <1>2, SeqFacts DEF ArenaIs
<1>4. IsRaw(raw, n)
  <2>1. n < Len(arena)
    BY <1>1
  <2> HIDE DEF n
  <2>2. n + 1 \in DOMAIN arena /\ (n + 1) - 1 = n
    BY <1>3, <2>1
  <2> QED BY <1>2, <2>2 DEF ArenaIs
<1>5. ASSUME NEW i \in DOMAIN raw.kids PROVE operand(i) \in T
  <2>1. raw.kids \in Seq(1 .. n)
    BY <1>4 DEF IsRaw
  <2> HIDE DEF raw, n
  <2>2. raw.kids[i] \in 1 .. n
    BY <2>1, SeqIs
  <2>3. operand(i) \in ToSet(mapped)
    BY <1>2, <1>3, <2>2, SeqFacts
  <2> QED BY <1>2, <2>3
<1>6. operands \subseteq T
  BY <1>5
<1>7. CASE raw.op = "leaf"
  <2> DEFINE s == Shape("leaf", raw.token, {})
  <2>1. made = <<s>>
    BY <1>7
  <2>2. IsShape(s) /\ s.kids \subseteq T
    BY DEF IsShape, Shape
  <2> HIDE DEF s, made
  <2>3. Last(made) = s
    BY <2>1, LastOf
  <2>5. /\ IsForm(Append(local, s)) /\ ToSet(Append(local, s)) = ToSet(local) \cup {s}
        /\ local \o <<s>> = Append(local, s)
    BY <1>2, <2>2, OneMore
  <2>4. local' = Append(local, s) /\ IsForm(local') /\ ToSet(local') = T \cup {s}
    BY <1>1, <2>1, <2>5
  <2> QED BY <1>1, <2>3, <2>4
<1>8. CASE raw.op \in {"plus", "times"}
  <2> DEFINE op == IF raw.op = "plus" THEN "or" ELSE "and"
             s == MakeNary(op, operands)
  <2>1. made = <<s>>
    BY <1>8
  <2>2. IsShape(s) /\ s.kids \subseteq T
    <3>1. op \in {"and", "or"}
      OBVIOUS
    <3> HIDE DEF op, operands, T
    <3> QED BY <1>2, <1>6, <3>1, NaryIs
  <2> HIDE DEF s, made
  <2>3. Last(made) = s
    BY <2>1, LastOf
  <2>5. /\ IsForm(Append(local, s)) /\ ToSet(Append(local, s)) = ToSet(local) \cup {s}
        /\ local \o <<s>> = Append(local, s)
    BY <1>2, <2>2, OneMore
  <2>4. local' = Append(local, s) /\ IsForm(local') /\ ToSet(local') = T \cup {s}
    BY <1>1, <2>1, <2>5
  <2> QED BY <1>1, <2>3, <2>4
<1>9. CASE raw.op = "minus"
  <2>1. operand(1) \in T /\ operand(2) \in T
    <3>1. raw.kids \in Seq(1 .. n) /\ Len(raw.kids) = 2
      BY <1>4, <1>9 DEF IsRaw
    <3>2. 1 \in DOMAIN raw.kids /\ 2 \in DOMAIN raw.kids
      BY <3>1
    <3> QED BY <1>5, <3>2
  <2>2. made = <<negated, conj>>
    BY <1>9
  <2>3. IsShape(negated) /\ negated.kids \subseteq T
    BY <1>2, <2>1, NotIs
  <2>4. Last(made) = conj
    <3> HIDE DEF made, conj, negated
    <3> QED BY <2>2, LastOf
  <2> DEFINE one == Append(local, negated)
             U == T \cup {negated}
             a == operand(1)
  <2>5. a \in U /\ negated \in U
    BY <2>1
  <2> HIDE DEF a, negated
  <2>6. IsForm(one) /\ ToSet(one) = U
    BY <1>2, <2>3, OneMore
  <2>7. AreForms(U)
    BY <2>6, FormsOf
  <2> HIDE DEF U, one
  <2>8. IsShape(conj) /\ conj.kids \subseteq U
    <3>1. {a, negated} \in SUBSET U
      BY <2>5
    <3>2. conj = MakeNary("and", {a, negated})
      BY DEF a
    <3> HIDE DEF conj
    <3> QED BY <2>7, <3>1, <3>2, NaryIs
  <2> HIDE DEF conj, made
  <2>9. local' = Append(one, conj)
    BY <1>1, <1>2, <2>2, TwoAppended DEF one, IsForm
  <2>10. IsForm(local') /\ ToSet(local') = U \cup {conj}
    BY <2>6, <2>8, <2>9, OneMore
  <2> QED BY <1>1, <2>4, <2>10 DEF U
<1> QED BY <1>4, <1>7, <1>8, <1>9 DEF IsRaw

LEMMA NormalizeKeeps == ASSUME DagInv, NormalizeNode PROVE DagInv'
<1>1. /\ phase = "normalize" /\ phase' = phase /\ Len(mapped) < Len(arena)
      /\ UNCHANGED <<mode, arrived, answers, at, arena, frames, root, nodes, answerRoots, graphs>>
  BY DEF NormalizeNode, response, parser, dag
<1>2. PICK s : /\ IsForm(local') /\ ToSet(local) \subseteq ToSet(local')
               /\ mapped' = Append(mapped, s) /\ s \in ToSet(local')
  BY MadeIs
<1>3. /\ IsSeq(mapped) /\ ToSet(mapped) \subseteq ToSet(local) /\ root # 0 /\ IsSeq(arena)
  BY <1>1 DEF DagInv, NormalInv, ParserInv, ArenaIs
<1>4. Len(arena) \in Nat /\ Len(mapped) \in Nat
  BY <1>3, SeqFacts
<1>5. IsSeq(mapped') /\ Len(mapped') = Len(mapped) + 1 /\ ToSet(mapped') = ToSet(mapped) \cup {s}
  BY <1>2, <1>3, Appended
<1>6. Len(mapped') <= Len(arena') /\ ToSet(mapped') \subseteq ToSet(local')
  BY <1>1, <1>2, <1>3, <1>4, <1>5
<1>7. NormalInv'
  BY <1>1, <1>2, <1>3, <1>5, <1>6 DEF NormalInv
<1>8. ParserInv'
  BY <1>1 DEF ParserInv, DagInv
<1>9. ReachInv' /\ InternInv'
  BY <1>1 DEF ReachInv, InternInv
<1>10. AnswersInv'
  BY <1>1 DEF AnswersInv, DagInv, InProgress
<1>11. GraphInv'
  BY <1>1, DagUnchanged DEF DagInv
<1> QED BY <1>7, <1>8, <1>9, <1>10, <1>11 DEF DagInv

\* The steps from there to the interning change nothing else.
LEMMA SearchKeeps ==
    ASSUME DagInv, phase \in {"normalize", "reach"}, phase' \in {"reach", "intern"},
           Len(mapped) = Len(arena),
           UNCHANGED <<response, answers, at, parser, normal, dag, graphs>>,
           ReachInv', InternInv'
    PROVE  DagInv'
<1>1. UNCHANGED <<mode, arrived, answers, at, arena, frames, root, local, mapped, nodes, answerRoots, graphs>>
  BY DEF response, parser, normal, dag
<1>2. ParserInv' /\ NormalInv'
  BY <1>1 DEF ParserInv, NormalInv, DagInv
<1>3. AnswersInv'
  BY <1>1 DEF AnswersInv, DagInv, InProgress
<1>4. GraphInv'
  BY <1>1, DagUnchanged DEF DagInv
<1> QED BY <1>2, <1>3, <1>4 DEF DagInv

LEMMA NormalizedKeeps == ASSUME DagInv, Normalized PROVE DagInv'
<1>1. /\ phase = "normalize" /\ phase' = "reach" /\ Len(mapped) = Len(arena)
      /\ reached' = {} /\ frontier' = {Expression} /\ toGlobal' = << >>
      /\ UNCHANGED <<response, answers, at, parser, normal, dag, graphs>>
  BY DEF Normalized
<1>2. local' = local /\ mapped' = mapped /\ root' = root
  BY <1>1 DEF parser, normal
<1>3. Expression' = Expression
  BY <1>2 DEF Expression
<1>4. Expression \in ToSet(local)
  <2>1. IsSeq(mapped) /\ ToSet(mapped) \subseteq ToSet(local) /\ root # 0 /\ root \in 0 .. Len(mapped)
    BY <1>1 DEF DagInv, NormalInv, ParserInv
  <2>2. root \in DOMAIN mapped
    BY <2>1, SeqFacts
  <2> QED BY <2>1, <2>2, SeqFacts DEF Expression
<1>5. ReachInv'
  BY <1>1, <1>2, <1>3, <1>4 DEF ReachInv
<1>6. DOMAIN toGlobal' = {}
  BY <1>1
<1>7. InternInv'
  BY <1>6 DEF InternInv
<1> QED BY <1>1, <1>5, <1>7, SearchKeeps

LEMMA ReachKeeps == ASSUME DagInv, Reach PROVE DagInv'
<1> DEFINE parts == UNION {s.kids : s \in frontier}
<1>1. /\ phase = "reach" /\ phase' = "reach" /\ reached' = reached \cup frontier
      /\ frontier' = parts \ reached' /\ toGlobal' = toGlobal
      /\ UNCHANGED <<response, answers, at, parser, normal, dag, graphs>>
  BY DEF Reach
<1>2. local' = local /\ mapped' = mapped /\ root' = root /\ nodes' = nodes /\ answerRoots' = answerRoots
  BY <1>1 DEF parser, normal, dag
<1>3. Expression' = Expression /\ Expressions' = Expressions
  BY <1>2 DEF Expression, Expressions
<1>4. /\ reached \cup frontier \subseteq ToSet(local) /\ Expression \in reached \cup frontier
      /\ \A s \in reached : s.kids \subseteq reached \cup frontier
  BY <1>1 DEF DagInv, ReachInv
<1>5. \A s \in frontier : s.kids \subseteq ToSet(local)
  BY <1>4, FormsOf DEF AreForms, DagInv, NormalInv
<1>6. parts \subseteq ToSet(local) /\ \A s \in frontier : s.kids \subseteq parts
  BY <1>5
<1> HIDE DEF parts
<1>7. ASSUME NEW s \in reached' PROVE s.kids \subseteq reached' \cup frontier'
  <2>1. CASE s \in reached
    BY <1>1, <1>4, <2>1
  <2>2. CASE s \in frontier
    BY <1>1, <1>6, <2>2
  <2> QED BY <1>1, <2>1, <2>2
<1>8. ReachInv'
  BY <1>1, <1>2, <1>3, <1>4, <1>6, <1>7 DEF ReachInv
<1>9. InternInv'
  BY <1>1, <1>2, <1>3 DEF InternInv, DagInv
<1>10. Len(mapped) = Len(arena)
  BY <1>1 DEF DagInv, NormalInv
<1> QED BY <1>1, <1>8, <1>9, <1>10, SearchKeeps

LEMMA ReachedKeeps == ASSUME DagInv, Reached PROVE DagInv'
<1>1. /\ phase = "reach" /\ phase' = "intern" /\ frontier = {}
      /\ UNCHANGED <<response, answers, at, parser, normal, search, dag, graphs>>
  BY DEF Reached
<1>2. /\ local' = local /\ mapped' = mapped /\ root' = root /\ nodes' = nodes /\ answerRoots' = answerRoots
      /\ reached' = reached /\ frontier' = frontier /\ toGlobal' = toGlobal
  BY <1>1 DEF parser, normal, dag, search
<1>3. Expression' = Expression /\ Expressions' = Expressions
  BY <1>2 DEF Expression, Expressions
<1>4. ReachInv'
  BY <1>1, <1>2, <1>3 DEF ReachInv, DagInv
<1>6. InternInv'
  <2>1. InternInv /\ phase = "reach"
    BY <1>1 DEF DagInv
  <2> QED BY <1>2, <1>3, <2>1 DEF InternInv
<1>5. Len(mapped) = Len(arena)
  BY <1>1 DEF DagInv, NormalInv
<1> QED BY <1>1, <1>4, <1>5, <1>6, SearchKeeps

-----------------------------------------------------------------------------
(* Interning.                                                                *)

LEMMA AtLeastTwo ==
    ASSUME NEW S, IsFiniteSet(S), NEW a \in S, NEW b \in S, a # b
    PROVE  Cardinality(S) > 1
<1>1. Cardinality(S) \in Nat /\ Cardinality(S) # 0
  BY FS_CardinalityType, FS_EmptySet
<1>2. Cardinality(S) # 1
  BY FS_Singleton
<1> QED BY <1>1, <1>2

\* The least shape that waits: its parts have their nodes.
LEMMA PartsAreInterned ==
    ASSUME DagInv, phase = "intern", NEW n \in Waiting, \A i \in Waiting : n <= i
    PROVE  /\ IsShape(local[n]) /\ local[n] \in reached /\ local[n] \notin DOMAIN toGlobal
           /\ local[n].kids \subseteq DOMAIN toGlobal
<1> DEFINE s == local[n]
<1>1. n \in DOMAIN local /\ s \in reached /\ s \notin DOMAIN toGlobal
  BY DEF Waiting
<1>2. IsForm(local) /\ (\A t \in reached : t.kids \subseteq reached)
  BY DEF DagInv, NormalInv, ReachInv
<1>3. DOMAIN local = 1 .. Len(local) /\ Len(local) \in Nat
  BY <1>2, SeqFacts DEF IsForm
<1>4. IsShape(s) /\ \A k \in s.kids : \E j \in DOMAIN local : j < n /\ local[j] = k
  BY <1>1, <1>2 DEF IsForm
<1>5. ASSUME NEW k \in s.kids PROVE k \in DOMAIN toGlobal
  <2> SUFFICES ASSUME k \notin DOMAIN toGlobal PROVE FALSE
    OBVIOUS
  <2>1. PICK j \in DOMAIN local : j < n /\ local[j] = k
    BY <1>4
  <2>2. k \in reached
    BY <1>1, <1>2
  <2>3. j \in Waiting
    BY <2>1, <2>2 DEF Waiting
  <2>4. j \in Nat /\ n \in Nat /\ n <= j
    BY <1>1, <1>3, <2>3
  <2> QED BY <2>1, <2>4
<1> QED BY <1>1, <1>4, <1>5

LEMMA ShapeParts ==
    \A op, token, kids : /\ Shape(op, token, kids).op = op /\ Shape(op, token, kids).token = token
                         /\ Shape(op, token, kids).kids = kids
  BY DEF Shape

\* A node that may join the expressions of the graph.
MayJoin(node) ==
    /\ \A i \in Expressions : nodes[i] # node
    /\ node.kids \subseteq Expressions
    /\ node.op \in {"and", "or"} =>
           /\ \E a, b \in node.kids : a # b
           /\ \A k \in node.kids : nodes[k].op \notin {node.op, "const"}
    /\ node.op = "not" => \A k \in node.kids : nodes[k].op \notin {"not", "const"}

\* A new expression node keeps the graph canonical.
LEMMA CanonicalGrows ==
    ASSUME GraphInv, mode \in {"shared", "per-answer"},
           mode = "per-answer" => answerRoots = {},
           \E node : nodes' = Append(nodes, node) /\ MayJoin(node),
           UNCHANGED <<mode, answerRoots, graphs>>
    PROVE  /\ GraphInv'
           /\ Expressions' = Expressions \cup {Len(nodes) + 1}
           /\ \A i \in Expressions : nodes'[i] = nodes[i]
<1> DEFINE new == Len(nodes) + 1
<1> PICK node : nodes' = Append(nodes, node) /\ MayJoin(node)
  OBVIOUS
<1>0. /\ \A i \in Expressions : nodes[i] # node
      /\ node.kids \subseteq Expressions
      /\ node.op \in {"and", "or"} =>
             /\ \E a, b \in node.kids : a # b
             /\ \A k \in node.kids : nodes[k].op \notin {node.op, "const"}
      /\ node.op = "not" => \A k \in node.kids : nodes[k].op \notin {"not", "const"}
  BY DEF MayJoin
<1>1. /\ IsSeq(nodes') /\ DOMAIN nodes' = DOMAIN nodes \cup {new} /\ new \notin DOMAIN nodes
      /\ \A i \in DOMAIN nodes : nodes'[i] = nodes[i]
      /\ nodes'[new] = node
  BY Appended DEF GraphInv
<1>2. DOMAIN nodes = 1 .. Len(nodes) /\ Len(nodes) \in Nat /\ IsFiniteSet(1 .. Len(nodes))
  BY SeqFacts, FS_Interval DEF GraphInv
<1>3. Expressions' = Expressions \cup {new} /\ Expressions \subseteq DOMAIN nodes /\ new \notin Expressions
  BY <1>1 DEF Expressions, GraphInv
<1>4. \A i \in Expressions : nodes'[i] = nodes[i] /\ i < new
  BY <1>1, <1>2, <1>3
<1> HIDE DEF new
<1>5. DagIsCanonical
  BY DEF GraphInv
<1>6. ASSUME NEW i \in Expressions', NEW j \in Expressions', nodes'[i] = nodes'[j] PROVE i = j
  BY <1>0, <1>1, <1>3, <1>4, <1>5, <1>6 DEF DagIsCanonical
<1>7. ASSUME NEW i \in Expressions'
      PROVE  /\ nodes'[i].kids \subseteq {j \in Expressions' : j < i}
             /\ nodes'[i].op \in {"and", "or"} =>
                    /\ Cardinality(nodes'[i].kids) > 1
                    /\ \A k \in nodes'[i].kids : nodes'[k].op \notin {nodes'[i].op, "const"}
             /\ nodes'[i].op = "not" => \A k \in nodes'[i].kids : nodes'[k].op \notin {"not", "const"}
  <2>1. CASE i \in Expressions
    <3>1. nodes'[i] = nodes[i]
      BY <1>4, <2>1
    <3>2. /\ nodes[i].kids \subseteq {j \in Expressions : j < i}
          /\ nodes[i].op \in {"and", "or"} =>
                 /\ Cardinality(nodes[i].kids) > 1
                 /\ \A k \in nodes[i].kids : nodes[k].op \notin {nodes[i].op, "const"}
          /\ nodes[i].op = "not" => \A k \in nodes[i].kids : nodes[k].op \notin {"not", "const"}
      BY <1>5, <2>1 DEF DagIsCanonical
    <3>3. \A k \in nodes[i].kids : k \in Expressions /\ k < i /\ nodes'[k] = nodes[k]
      BY <1>4, <3>2
    <3> QED BY <1>3, <3>1, <3>2, <3>3
  <2>2. CASE i = new
    <3>1. nodes'[i] = node /\ \A k \in node.kids : k \in Expressions /\ k < i /\ nodes'[k] = nodes[k]
      BY <1>0, <1>1, <1>4, <2>2
    <3>2. IsFiniteSet(node.kids)
      <4>1. node.kids \in SUBSET (1 .. Len(nodes))
        BY <1>2, <1>3, <3>1
      <4> QED BY <1>2, <4>1, FS_Subset
    <3>3. node.op \in {"and", "or"} => Cardinality(node.kids) > 1
      BY <1>0, <3>2, AtLeastTwo
    <3> QED BY <1>0, <1>3, <3>1, <3>3
  <2> QED BY <1>3, <2>1, <2>2
<1>8. /\ mode' = "shared" =>
             /\ answerRoots' = {graphs'[k].root : k \in DOMAIN graphs'}
             /\ Cardinality(answerRoots') = Cardinality(DOMAIN graphs')
      /\ mode' = "per-answer" => answerRoots' \subseteq {Len(nodes')}
  BY <1>5 DEF DagIsCanonical
<1>9. DagIsCanonical'
  BY <1>6, <1>7, <1>8 DEF DagIsCanonical
<1>10. GraphInv'
  BY <1>1, <1>9 DEF GraphInv
<1> QED BY <1>1, <1>3, <1>4, <1>10 DEF new

\* Interned shapes whose nodes are of equal contents are equal.
LEMMA InternedOnce ==
    ASSUME DagInv, phase = "intern", NEW s, IsShape(s), s \notin DOMAIN toGlobal,
           s.kids \subseteq DOMAIN toGlobal, NEW t \in DOMAIN toGlobal
    PROVE  nodes[toGlobal[t]] # Shape(s.op, s.token, {toGlobal[k] : k \in s.kids})
<1> SUFFICES ASSUME nodes[toGlobal[t]] = Shape(s.op, s.token, {toGlobal[k] : k \in s.kids}) PROVE FALSE
  OBVIOUS
<1> DEFINE of(u) == {toGlobal[k] : k \in u.kids}
<1>1. /\ t.kids \subseteq DOMAIN toGlobal /\ nodes[toGlobal[t]] = Shape(t.op, t.token, of(t))
      /\ \A k, l \in DOMAIN toGlobal : toGlobal[k] = toGlobal[l] => k = l
      /\ t \in reached
  BY DEF DagInv, InternInv
<1>2. s.op = t.op /\ s.token = t.token /\ of(s) = of(t)
  BY <1>1 DEF Shape
<1>3. s.kids \subseteq t.kids
  <2> SUFFICES ASSUME NEW k \in s.kids PROVE k \in t.kids
    OBVIOUS
  <2>1. toGlobal[k] \in of(t)
    BY <1>2
  <2>2. PICK l \in t.kids : toGlobal[k] = toGlobal[l]
    BY <2>1
  <2> QED BY <1>1, <2>2
<1>4. t.kids \subseteq s.kids
  <2> SUFFICES ASSUME NEW k \in t.kids PROVE k \in s.kids
    OBVIOUS
  <2>1. toGlobal[k] \in of(s)
    BY <1>2
  <2>2. PICK l \in s.kids : toGlobal[k] = toGlobal[l]
    BY <2>1
  <2> QED BY <1>1, <2>2
<1>5. IsShape(t)
  <2>1. t \in ToSet(local) /\ IsForm(local)
    BY <1>1 DEF DagInv, ReachInv, NormalInv
  <2> QED BY <2>1, FormsOf DEF AreForms
<1>6. s = t
  BY <1>2, <1>3, <1>4, <1>5 DEF IsShape
<1> QED BY <1>6

\* The nodes that s's node is of.
LEMMA InternsOnto ==
    ASSUME DagInv, phase = "intern", NEW s, IsShape(s), s \notin DOMAIN toGlobal, s \in reached,
           s.kids \subseteq DOMAIN toGlobal, NEW i, i \in Expressions',
           nodes'[i] = Shape(s.op, s.token, {toGlobal[k] : k \in s.kids}),
           Expressions \subseteq Expressions', \A j \in Expressions : nodes'[j] = nodes[j],
           toGlobal' = [t \in DOMAIN toGlobal \cup {s} |-> IF t = s THEN i ELSE toGlobal[t]],
           UNCHANGED <<phase, reached>>
    PROVE  InternInv'
<1> DEFINE D == DOMAIN toGlobal
           of(u) == {toGlobal[k] : k \in u.kids}
           now(u) == {toGlobal'[k] : k \in u.kids}
<1>1. /\ D \subseteq reached
      /\ \A t \in D : t.kids \subseteq D /\ toGlobal[t] \in Expressions
                      /\ nodes[toGlobal[t]] = Shape(t.op, t.token, of(t))
      /\ \A t, u \in D : toGlobal[t] = toGlobal[u] => t = u
  BY DEF DagInv, InternInv
<1>2. DOMAIN toGlobal' = D \cup {s} /\ toGlobal'[s] = i /\ \A t \in D : toGlobal'[t] = toGlobal[t]
  OBVIOUS
<1>3. ASSUME NEW u, u.kids \subseteq D PROVE now(u) = of(u)
  BY <1>2, <1>3
<1>4. ASSUME NEW t \in D PROVE toGlobal[t] # i
  <2>1. nodes[toGlobal[t]] # Shape(s.op, s.token, of(s))
    BY InternedOnce
  <2>2. nodes'[toGlobal[t]] = nodes[toGlobal[t]]
    BY <1>1
  <2> QED BY <2>1, <2>2
<1>5. ASSUME NEW t \in DOMAIN toGlobal'
      PROVE  /\ t.kids \subseteq DOMAIN toGlobal' /\ toGlobal'[t] \in Expressions'
             /\ nodes'[toGlobal'[t]] = Shape(t.op, t.token, now(t))
  <2>1. CASE t \in D
    <3>1. now(t) = of(t) /\ toGlobal'[t] = toGlobal[t] /\ toGlobal[t] \in Expressions
      BY <1>1, <1>2, <1>3, <2>1
    <3>2. nodes'[toGlobal'[t]] = Shape(t.op, t.token, of(t))
      BY <1>1, <2>1, <3>1
    <3> QED BY <1>1, <1>2, <2>1, <3>1, <3>2
  <2>2. CASE t = s
    <3>1. now(s) = of(s) /\ toGlobal'[s] = i
      BY <1>2, <1>3
    <3> HIDE DEF now, of
    <3>2. nodes'[i] = Shape(s.op, s.token, of(s))
      BY DEF of
    <3> QED BY <1>2, <2>2, <3>1, <3>2
  <2> QED BY <1>2, <2>1, <2>2
<1>6. ASSUME NEW t \in DOMAIN toGlobal', NEW u \in DOMAIN toGlobal', toGlobal'[t] = toGlobal'[u]
      PROVE  t = u
  BY <1>1, <1>2, <1>4, <1>6
<1>7. DOMAIN toGlobal' \subseteq reached'
  BY <1>1, <1>2
<1> QED BY <1>5, <1>6, <1>7 DEF InternInv

LEMMA InternKeeps == ASSUME DagInv, InternNode PROVE DagInv'
<1>1. /\ phase = "intern" /\ phase' = phase
      /\ UNCHANGED <<mode, arrived, answers, at, arena, frames, root, local, mapped, reached, frontier>>
      /\ UNCHANGED <<answerRoots, graphs>>
  BY DEF InternNode, response, parser, normal
<1>2. PICK n \in Waiting :
          /\ \A j \in Waiting : n <= j
          /\ LET s == local[n]
                 node == Shape(s.op, s.token, {toGlobal[k] : k \in s.kids})
                 i == Interned(node)
             IN  /\ nodes' = IF i > Len(nodes) THEN Append(nodes, node) ELSE nodes
                 /\ toGlobal' = [t \in DOMAIN toGlobal \cup {s} |-> IF t = s THEN i ELSE toGlobal[t]]
  BY DEF InternNode
<1> DEFINE s == local[n]
           ids == {toGlobal[k] : k \in s.kids}
           node == Shape(s.op, s.token, ids)
           i == Interned(node)
<1>3. IsShape(s) /\ s \in reached /\ s \notin DOMAIN toGlobal /\ s.kids \subseteq DOMAIN toGlobal
  BY <1>1, <1>2, PartsAreInterned
<1>4. /\ nodes' = IF i > Len(nodes) THEN Append(nodes, node) ELSE nodes
      /\ toGlobal' = [t \in DOMAIN toGlobal \cup {s} |-> IF t = s THEN i ELSE toGlobal[t]]
  BY <1>2
<1>5. /\ GraphInv /\ mode \in {"shared", "per-answer"} /\ (mode = "per-answer" => answerRoots = {})
      /\ IsSeq(nodes)
  BY <1>1 DEF DagInv, AnswersInv, InProgress, GraphInv
<1>6. Len(nodes) \in Nat /\ DOMAIN nodes = 1 .. Len(nodes)
  BY <1>5, SeqFacts
<1>7. /\ \A k \in s.kids : toGlobal[k] \in Expressions /\ nodes[toGlobal[k]].op = k.op
      /\ \A k, l \in s.kids : k # l => toGlobal[k] # toGlobal[l]
  <2>1. /\ \A t \in DOMAIN toGlobal :
               /\ toGlobal[t] \in Expressions
               /\ nodes[toGlobal[t]] = Shape(t.op, t.token, {toGlobal[k] : k \in t.kids})
        /\ \A t, u \in DOMAIN toGlobal : toGlobal[t] = toGlobal[u] => t = u
    BY <1>1 DEF DagInv, InternInv
  <2>2. ASSUME NEW t \in DOMAIN toGlobal PROVE nodes[toGlobal[t]].op = t.op
    <3> DEFINE S == {toGlobal[k] : k \in t.kids}
               m == nodes[toGlobal[t]]
    <3>1. m = Shape(t.op, t.token, S)
      BY <2>1
    <3> HIDE DEF S, m
    <3>2. m.op = t.op
      BY <3>1, ShapeParts
    <3> QED BY <3>2 DEF m
  <2> HIDE DEF s
  <2> QED BY <1>3, <2>1, <2>2
<1>8. /\ i \in Expressions' /\ nodes'[i] = node /\ Expressions \subseteq Expressions'
      /\ (\A j \in Expressions : nodes'[j] = nodes[j]) /\ GraphInv'
  <2>1. CASE \E j \in Expressions : nodes[j] = node
    <3> HIDE DEF s, node
    <3>1. i \in Expressions /\ nodes[i] = node
      BY <2>1 DEF Interned
    <3>2. nodes' = nodes
      <4>1. i \in DOMAIN nodes
        BY <3>1 DEF Expressions
      <4>2. nodes' = IF i > Len(nodes) THEN Append(nodes, node) ELSE nodes
        BY <1>4
      <4> HIDE DEF i
      <4>3. ~(i > Len(nodes))
        BY <1>6, <4>1
      <4> QED BY <4>2, <4>3
    <3>3. Expressions' = Expressions /\ GraphInv'
      BY <1>1, <1>5, <3>2, DagUnchanged
    <3> QED BY <3>1, <3>2, <3>3
  <2>2. CASE ~\E j \in Expressions : nodes[j] = node
    <3>1. i = Len(nodes) + 1 /\ nodes' = Append(nodes, node)
      <4> HIDE DEF s, node
      <4>1. i = Len(nodes) + 1
        BY <2>2 DEF Interned
      <4>2. nodes' = IF i > Len(nodes) THEN Append(nodes, node) ELSE nodes
        BY <1>4
      <4> HIDE DEF i
      <4>3. i > Len(nodes)
        BY <1>6, <4>1
      <4> QED BY <4>1, <4>2, <4>3
    <3>2. node.op = s.op /\ node.kids = ids
      BY DEF Shape
    <3>3. ids \subseteq Expressions
      BY <1>7
    <3>4. s.op \in {"and", "or"} =>
              /\ \E a, b \in ids : a # b
              /\ \A k \in ids : nodes[k].op \notin {s.op, "const"}
      <4> SUFFICES ASSUME s.op \in {"and", "or"}
                   PROVE  /\ \E a, b \in ids : a # b
                          /\ \A k \in ids : nodes[k].op \notin {s.op, "const"}
        OBVIOUS
      <4> HIDE DEF s
      <4>1. PICK k, l \in s.kids : k # l
        BY <1>3 DEF IsShape
      <4>2. \A m \in s.kids : m.op \notin {s.op, "const"}
        BY <1>3 DEF IsShape
      <4>3. toGlobal[k] \in ids /\ toGlobal[l] \in ids /\ toGlobal[k] # toGlobal[l]
        BY <1>7, <4>1
      <4>4. \A m \in ids : nodes[m].op \notin {s.op, "const"}
        BY <1>7, <4>2
      <4> QED BY <4>3, <4>4
    <3>5. s.op = "not" => \A k \in ids : nodes[k].op \notin {"not", "const"}
      <4> SUFFICES ASSUME s.op = "not" PROVE \A k \in ids : nodes[k].op \notin {"not", "const"}
        OBVIOUS
      <4> HIDE DEF s
      <4>1. \A m \in s.kids : m.op \notin {"not", "const"}
        BY <1>3 DEF IsShape
      <4> QED BY <1>7, <4>1
    <3>6. \A j \in Expressions : nodes[j] # node
      BY <2>2
    <3> HIDE DEF s, ids, node, i
    <3>7. /\ GraphInv' /\ Expressions' = Expressions \cup {Len(nodes) + 1}
          /\ (\A j \in Expressions : nodes'[j] = nodes[j]) /\ nodes'[Len(nodes) + 1] = node
      <4>1. PICK new : new = node
        OBVIOUS
      <4>2. nodes' = Append(nodes, new) /\ UNCHANGED <<mode, answerRoots, graphs>>
        BY <1>1, <3>1, <4>1
      <4>3. MayJoin(new)
        BY <3>2, <3>3, <3>4, <3>5, <3>6, <4>1 DEF MayJoin
      <4>4. \E x : nodes' = Append(nodes, x) /\ MayJoin(x)
        BY <4>2, <4>3
      <4>5. /\ GraphInv' /\ Expressions' = Expressions \cup {Len(nodes) + 1}
            /\ \A j \in Expressions : nodes'[j] = nodes[j]
        BY <1>5, <4>2, <4>4, CanonicalGrows
      <4>6. nodes'[Len(nodes) + 1] = new
        BY <1>5, <4>2, Appended
      <4> QED BY <4>1, <4>5, <4>6
    <3> QED BY <3>1, <3>7
  <2> QED BY <2>1, <2>2
<1>9. InternInv'
  <2> HIDE DEF s, i
  <2> QED BY <1>1, <1>3, <1>4, <1>8, InternsOnto
<1>10. Expression' = Expression
  BY <1>1 DEF Expression
<1>11. ReachInv'
  <2>1. ReachInv
    BY DEF DagInv
  <2> QED BY <1>1, <1>10, <2>1 DEF ReachInv
<1>12. ParserInv' /\ NormalInv'
  BY <1>1 DEF ParserInv, NormalInv, DagInv
<1>13. AnswersInv'
  BY <1>1 DEF AnswersInv, DagInv, InProgress
<1> QED BY <1>8, <1>9, <1>11, <1>12, <1>13 DEF DagInv

LEMMA AddKeeps == ASSUME DagInv, AddAnswer PROVE DagInv'
<1> DEFINE new == Len(nodes) + 1
           key == answers[at].key
           node == Shape("or", 0, {toGlobal[Expression]})
<1>1. /\ phase = "intern" /\ phase' \in {"validate", "next"}
      /\ UNCHANGED <<mode, arrived, answers, at, arena, frames, root, local, mapped>>
      /\ nodes' = Append(nodes, node) /\ answerRoots' = answerRoots \cup {new}
      /\ graphs' = [k \in DOMAIN graphs \cup {key} |->
                       IF k = key THEN [nodes |-> nodes', root |-> new]
                       ELSE IF mode = "shared" THEN [graphs[k] EXCEPT !.nodes = nodes']
                       ELSE graphs[k]]
  BY DEF AddAnswer, response, parser, normal
<1> HIDE DEF node
<1>2. /\ GraphInv /\ mode \in {"shared", "per-answer"} /\ (mode = "per-answer" => answerRoots = {})
      /\ IsSeq(nodes) /\ answerRoots \subseteq DOMAIN nodes
      /\ IsFiniteSet(answerRoots) /\ IsFiniteSet(DOMAIN graphs) /\ DagIsCanonical
      /\ \A k \in DOMAIN graphs : graphs[k] = [nodes |-> graphs[k].nodes, root |-> graphs[k].root]
  BY <1>1 DEF DagInv, AnswersInv, InProgress, GraphInv
<1>3. /\ IsSeq(answers) /\ at \in 1 .. Len(answers) /\ at \in DOMAIN answers /\ Len(answers) \in Nat
      /\ \A k \in DOMAIN graphs : \E i \in DOMAIN answers : answers[i].key = k /\ i < at
      /\ \A i, j \in DOMAIN answers : answers[i].key = answers[j].key => i = j
  <2>1. /\ IsSeq(answers) /\ at \in 0 .. Len(answers) /\ at # 0
        /\ \A k \in DOMAIN graphs : \E i \in DOMAIN answers : answers[i].key = k /\ i < at
        /\ \A i, j \in DOMAIN answers : answers[i].key = answers[j].key => i = j
    BY <1>1 DEF DagInv, AnswersInv, InProgress
  <2>2. Len(answers) \in Nat /\ DOMAIN answers = 1 .. Len(answers)
    BY <2>1, SeqFacts
  <2> QED BY <2>1, <2>2
<1>4. key \notin DOMAIN graphs
  <2> SUFFICES ASSUME key \in DOMAIN graphs PROVE FALSE
    OBVIOUS
  <2>1. PICK i \in DOMAIN answers : answers[i].key = key /\ i < at
    BY <1>3
  <2>2. i = at
    BY <1>3, <2>1
  <2> QED BY <1>3, <2>1, <2>2
<1>5. /\ IsSeq(nodes') /\ DOMAIN nodes' = DOMAIN nodes \cup {new} /\ new \notin DOMAIN nodes
      /\ Len(nodes') = new /\ \A i \in DOMAIN nodes : nodes'[i] = nodes[i]
  BY <1>1, <1>2, Appended
<1> HIDE DEF new, key
<1>6. Expressions' = Expressions /\ \A i \in Expressions : nodes'[i] = nodes[i]
  BY <1>1, <1>2, <1>5 DEF Expressions
<1>7. /\ DOMAIN graphs' = DOMAIN graphs \cup {key} /\ graphs'[key].root = new
      /\ \A k \in DOMAIN graphs : graphs'[k].root = graphs[k].root
      /\ \A k \in DOMAIN graphs' : graphs'[k] = [nodes |-> graphs'[k].nodes, root |-> graphs'[k].root]
  <2>1. DOMAIN graphs' = DOMAIN graphs \cup {key} /\ graphs'[key] = [nodes |-> nodes', root |-> new]
    BY <1>1
  <2>2. ASSUME NEW k \in DOMAIN graphs
        PROVE  /\ graphs'[k].root = graphs[k].root
               /\ graphs'[k] = [nodes |-> graphs'[k].nodes, root |-> graphs'[k].root]
    <3>1. k # key /\ k \in DOMAIN graphs \cup {key}
      BY <1>4
    <3>2. graphs'[k] = IF mode = "shared" THEN [graphs[k] EXCEPT !.nodes = nodes'] ELSE graphs[k]
      BY <1>1, <3>1
    <3>3. graphs[k] = [nodes |-> graphs[k].nodes, root |-> graphs[k].root]
      BY <1>2
    <3>4. CASE mode = "shared"
      <4> DEFINE g == graphs[k]
                 h == graphs'[k]
      <4>1. h = [g EXCEPT !.nodes = nodes'] /\ g = [nodes |-> g.nodes, root |-> g.root]
        BY <3>2, <3>3, <3>4
      <4> HIDE DEF g, h
      <4>2. h = [nodes |-> nodes', root |-> g.root]
        BY <4>1
      <4>3. h.root = g.root /\ h = [nodes |-> h.nodes, root |-> h.root]
        BY <4>2
      <4> QED BY <4>3 DEF g, h
    <3>5. CASE mode # "shared"
      BY <3>2, <3>3, <3>5
    <3> QED BY <3>4, <3>5
  <2> QED BY <2>1, <2>2
<1>8. /\ IsFiniteSet(answerRoots') /\ Cardinality(answerRoots') = Cardinality(answerRoots) + 1
      /\ IsFiniteSet(DOMAIN graphs') /\ Cardinality(DOMAIN graphs') = Cardinality(DOMAIN graphs) + 1
  <2>1. new \notin answerRoots
    BY <1>2, <1>5
  <2> QED BY <1>1, <1>2, <1>4, <1>7, <2>1, FS_AddElement
<1>9. mode' = "shared" =>
          /\ answerRoots' = {graphs'[k].root : k \in DOMAIN graphs'}
          /\ Cardinality(answerRoots') = Cardinality(DOMAIN graphs')
  <2> SUFFICES ASSUME mode = "shared"
               PROVE  /\ answerRoots' = {graphs'[k].root : k \in DOMAIN graphs'}
                      /\ Cardinality(answerRoots') = Cardinality(DOMAIN graphs')
    BY <1>1
  <2>1. /\ answerRoots = {graphs[k].root : k \in DOMAIN graphs}
        /\ Cardinality(answerRoots) = Cardinality(DOMAIN graphs)
    BY <1>2 DEF DagIsCanonical
  <2>2. {graphs'[k].root : k \in DOMAIN graphs'} = {graphs[k].root : k \in DOMAIN graphs} \cup {new}
    BY <1>7
  <2> QED BY <1>1, <1>8, <2>1, <2>2
<1>10. mode' = "per-answer" => answerRoots' \subseteq {Len(nodes')}
  BY <1>1, <1>2, <1>5
<1>11. DagIsCanonical'
  <2>1. \A i, j \in Expressions' : nodes'[i] = nodes'[j] => i = j
    BY <1>2, <1>6 DEF DagIsCanonical
  <2>2. ASSUME NEW i \in Expressions'
        PROVE  /\ nodes'[i].kids \subseteq {j \in Expressions' : j < i}
               /\ nodes'[i].op \in {"and", "or"} =>
                      /\ Cardinality(nodes'[i].kids) > 1
                      /\ \A k \in nodes'[i].kids : nodes'[k].op \notin {nodes'[i].op, "const"}
               /\ nodes'[i].op = "not" => \A k \in nodes'[i].kids : nodes'[k].op \notin {"not", "const"}
    <3>1. /\ nodes[i].kids \subseteq {j \in Expressions : j < i}
          /\ nodes[i].op \in {"and", "or"} =>
                 /\ Cardinality(nodes[i].kids) > 1
                 /\ \A k \in nodes[i].kids : nodes[k].op \notin {nodes[i].op, "const"}
          /\ nodes[i].op = "not" => \A k \in nodes[i].kids : nodes[k].op \notin {"not", "const"}
      BY <1>2, <1>6 DEF DagIsCanonical
    <3>2. nodes'[i] = nodes[i] /\ \A k \in nodes[i].kids : nodes'[k] = nodes[k]
      BY <1>6, <3>1
    <3> QED BY <1>6, <3>1, <3>2
  <2> QED BY <1>9, <1>10, <2>1, <2>2 DEF DagIsCanonical
<1>12. GraphInv'
  BY <1>1, <1>2, <1>5, <1>7, <1>8, <1>11 DEF GraphInv
<1>13. ParserInv' /\ NormalInv'
  BY <1>1 DEF ParserInv, NormalInv, DagInv
<1>14. ReachInv' /\ InternInv'
  BY <1>1 DEF ReachInv, InternInv
<1>15. AnswersInv'
  <2>1. ASSUME NEW k \in DOMAIN graphs' PROVE \E i \in DOMAIN answers : answers[i].key = k /\ i <= at
    <3>1. CASE k = key
      BY <1>3, <3>1 DEF key
    <3>2. CASE k \in DOMAIN graphs
      BY <3>2 DEF DagInv, AnswersInv
    <3> QED BY <1>7, <3>1, <3>2
  <2>2. ~InProgress' /\ phase' # "extract"
    BY <1>1 DEF InProgress
  <2>3. AnswersInv
    BY DEF DagInv
  <2> QED BY <1>1, <2>1, <2>2, <2>3 DEF AnswersInv
<1> QED BY <1>12, <1>13, <1>14, <1>15 DEF DagInv

LEMMA KeysAreOrdered ==
    ASSUME IsSeq(arrived), \A i \in DOMAIN arrived : arrived[i].key \in Int
    PROVE  /\ Cardinality(Answered) \in Nat
           /\ InKeyOrder \in [1 .. Cardinality(Answered) -> Answered]
           /\ \A i, j \in 1 .. Cardinality(Answered) : InKeyOrder[i] = InKeyOrder[j] => i = j
<1> DEFINE n == Cardinality(Answered)
<1>1. IsFiniteSet(Answered) /\ Answered \subseteq Int /\ n \in Nat
  <2> DEFINE f == [i \in DOMAIN arrived |-> arrived[i].key]
  <2>1. IsFiniteSet(DOMAIN arrived)
    <3>1. DOMAIN arrived = 1 .. Len(arrived) /\ Len(arrived) \in Nat
      BY SeqFacts
    <3> QED BY <3>1, FS_Interval
  <2>2. f \in Surjection(DOMAIN arrived, Answered)
    BY DEF Surjection, Answered
  <2>3. IsFiniteSet(Answered)
    BY <2>1, <2>2, FS_Surjection
  <2>4. Answered \subseteq Int
    BY DEF Answered
  <2> QED BY <2>3, <2>4, FS_CardinalityType
<1>2. \E s \in [1 .. n -> Answered] : \A i, j \in DOMAIN s : i < j => s[i] < s[j]
  BY <1>1, NumbersHaveAnOrder DEF InOrder
<1>3. /\ InKeyOrder \in [1 .. n -> Answered]
      /\ \A i, j \in DOMAIN InKeyOrder : i < j => InKeyOrder[i] < InKeyOrder[j]
  BY <1>2 DEF InKeyOrder
<1> HIDE DEF n
<1>4. ASSUME NEW i \in 1 .. n, NEW j \in 1 .. n, InKeyOrder[i] = InKeyOrder[j] PROVE i = j
  <2> PICK s : s = InKeyOrder
    OBVIOUS
  <2>0. s \in [1 .. n -> Answered] /\ s[i] = s[j]
    BY <1>3, <1>4
  <2>1. s[i] \in Int /\ s[j] \in Int /\ s[i] = s[j] /\ i \in DOMAIN s /\ j \in DOMAIN s /\ i \in Int /\ j \in Int
    <3>1. s[i] \in Answered /\ s[j] \in Answered /\ i \in DOMAIN s /\ j \in DOMAIN s
      BY <2>0
    <3>2. i \in Int /\ j \in Int
      OBVIOUS
    <3> QED BY <1>1, <2>0, <3>1, <3>2
  <2>2. \A k, l \in DOMAIN s : k < l => s[k] < s[l]
    BY <1>3
  <2>3. ~(i < j) /\ ~(j < i)
    BY <2>1, <2>2
  <2> QED BY <2>1, <2>3
<1> QED BY <1>1, <1>3, <1>4 DEF n

LEMMA ExtractKeeps == ASSUME DagInv, Extract PROVE DagInv'
<1>1. CASE ~AllArrived
  BY <1>1, RejectKeeps DEF Extract
<1>2. CASE AllArrived
  <2> DEFINE n == Cardinality(Answered)
             made(i) == [key |-> InKeyOrder[i], text |-> MergedText(InKeyOrder[i])]
  <2>1. /\ phase = "extract" /\ phase' = "next" /\ answers' = [i \in 1 .. n |-> made(i)]
        /\ UNCHANGED <<mode, at, arena, frames, root, local, mapped, nodes, answerRoots, graphs>>
    BY <1>2 DEF Extract, response, parser, normal, dag
  <2>2. /\ mode \in {"shared", "per-answer"} /\ at = 0 /\ graphs = << >>
        /\ IsSeq(arrived) /\ \A i \in DOMAIN arrived : arrived[i].key \in Int
    BY <2>1 DEF DagInv, AnswersInv
  <2>3. n \in Nat /\ \A i, j \in 1 .. n : InKeyOrder[i] = InKeyOrder[j] => i = j
    BY <2>2, KeysAreOrdered
  <2> HIDE DEF n
  <2>4. DOMAIN answers' = 1 .. n /\ \A i \in 1 .. n : answers'[i].key = InKeyOrder[i]
    BY <2>1
  <2>5. IsSeq(answers') /\ Len(answers') \in Nat
    <3> DEFINE X == {made(i) : i \in 1 .. n}
    <3>1. answers' \in [1 .. n -> X]
      BY <2>1
    <3> HIDE DEF X
    <3>2. answers' \in Seq(X)
      BY <2>3, <3>1, SeqDef
    <3> QED BY <3>2, SeqIs
  <2>6. \A i, j \in DOMAIN answers' : answers'[i].key = answers'[j].key => i = j
    BY <2>3, <2>4
  <2>7. DOMAIN graphs' = {}
    BY <2>1, <2>2, Emptiness
  <2>8. AnswersInv'
    <3>1. at' \in 0 .. Len(answers') /\ mode' \in {"shared", "per-answer"}
      <4>1. at' = 0 /\ mode' = mode
        BY <2>1, <2>2
      <4> QED BY <2>2, <2>5, <4>1
    <3>2. ~InProgress' /\ phase' # "extract"
      BY <2>1 DEF InProgress
    <3>3. \A k \in DOMAIN graphs' : FALSE
      BY <2>7
    <3> QED BY <2>5, <2>6, <3>1, <3>2, <3>3 DEF AnswersInv
  <2>9. ParserInv' /\ NormalInv'
    BY <2>1 DEF ParserInv, NormalInv, DagInv
  <2>10. ReachInv' /\ InternInv'
    BY <2>1 DEF ReachInv, InternInv
  <2>11. GraphInv'
    BY <2>1, DagUnchanged DEF DagInv
  <2> QED BY <2>8, <2>9, <2>10, <2>11 DEF DagInv
<1> QED BY <1>1, <1>2

\* Nothing is read, and nothing is made, yet.
LEMMA NothingYet ==
    ASSUME NEW n
    PROVE  ArenaIs(<< >>) /\ FramesAre(<< >>, n) /\ IsForm(<< >>)
  BY Emptiness, FramesEmpty DEF ArenaIs, IsForm

LEMMA NextAnswerKeeps == ASSUME DagInv, NextAnswer PROVE DagInv'
<1>1. CASE answers[at + 1].text = << >>
  BY <1>1, RejectKeeps DEF NextAnswer
<1>2. CASE answers[at + 1].text # << >>
  <2>1. /\ phase = "next" /\ phase' = "parse" /\ at < Len(answers) /\ at' = at + 1
        /\ arena' = << >> /\ frames' = << >> /\ root' = 0 /\ local' = << >> /\ mapped' = << >>
        /\ IF mode = "per-answer" THEN nodes' = << >> /\ answerRoots' = {} ELSE UNCHANGED <<nodes, answerRoots>>
        /\ UNCHANGED <<mode, arrived, answers, graphs>>
    BY <1>2 DEF NextAnswer, response, dag
  <2>2. ParserInv'
    <3>1. Len(arena') = 0 /\ 0 \in 0 .. 0
      BY <2>1, Emptiness
    <3> QED BY <2>1, <3>1, NothingYet DEF ParserInv
  <2>3. NormalInv'
    BY <2>1, Emptiness, NothingYet DEF NormalInv
  <2>4. ReachInv' /\ InternInv'
    BY <2>1 DEF ReachInv, InternInv
  <2>5. /\ mode \in {"shared", "per-answer"} /\ IsSeq(answers) /\ at \in 0 .. Len(answers)
        /\ \A i, j \in DOMAIN answers : answers[i].key = answers[j].key => i = j
        /\ \A k \in DOMAIN graphs : \E i \in DOMAIN answers : answers[i].key = k /\ i <= at
    BY DEF DagInv, AnswersInv
  <2>6. /\ Len(answers) \in Nat /\ DOMAIN answers = 1 .. Len(answers)
        /\ at + 1 \in 0 .. Len(answers) /\ at + 1 # 0 /\ \A i \in Nat : i <= at => i < at + 1 /\ i <= at + 1
    BY <2>1, <2>5, SeqFacts
  <2>7. AnswersInv'
    <3>1. \A k \in DOMAIN graphs : \E i \in DOMAIN answers : answers[i].key = k /\ i <= at + 1 /\ i < at + 1
      BY <2>5, <2>6
    <3> QED BY <2>1, <2>5, <2>6, <3>1 DEF AnswersInv, InProgress
  <2>8. GraphInv'
    <3>1. CASE mode = "per-answer"
      <4>1. nodes' = << >> /\ answerRoots' = {} /\ graphs' = graphs /\ mode' = "per-answer"
        BY <2>1, <3>1
      <4>2. Expressions' = {}
        BY <4>1, Emptiness DEF Expressions
      <4>3. DagIsCanonical'
        BY <4>1, <4>2 DEF DagIsCanonical
      <4>4. IsFiniteSet({}) /\ IsFiniteSet(DOMAIN graphs)
        BY FS_EmptySet DEF DagInv, GraphInv
      <4>5. \A k \in DOMAIN graphs' : graphs'[k] = [nodes |-> graphs'[k].nodes, root |-> graphs'[k].root]
        BY <4>1 DEF DagInv, GraphInv
      <4> QED BY <4>1, <4>3, <4>4, <4>5, Emptiness DEF GraphInv
    <3>2. CASE mode # "per-answer"
      BY <2>1, <3>2, DagUnchanged DEF DagInv
    <3> QED BY <3>1, <3>2
  <2> QED BY <2>2, <2>3, <2>4, <2>7, <2>8 DEF DagInv
<1> QED BY <1>1, <1>2

LEMMA DagStutters == ASSUME DagInv, UNCHANGED dagVars PROVE DagInv'
<1>1. /\ UNCHANGED <<mode, arrived, phase, answers, at, arena, frames, root, local, mapped>>
      /\ UNCHANGED <<reached, frontier, toGlobal, nodes, answerRoots, graphs>>
  BY DEF dagVars, response, parser, normal, search, dag
<1>2. ParserInv' /\ NormalInv'
  BY <1>1 DEF ParserInv, NormalInv, DagInv
<1>3. Expression' = Expression /\ Expressions' = Expressions /\ GraphInv'
  BY <1>1, DagUnchanged DEF Expression, DagInv
<1>4. ReachInv'
  <2>1. ReachInv
    BY DEF DagInv
  <2> QED BY <1>1, <1>3, <2>1 DEF ReachInv
<1>5. InternInv'
  <2>1. InternInv
    BY DEF DagInv
  <2>2. toGlobal' = toGlobal /\ nodes' = nodes /\ reached' = reached /\ phase' = phase /\ Expressions' = Expressions
    BY <1>1, <1>3
  <2> SUFFICES ASSUME phase \in {"reach", "intern"} PROVE InternInv'
    BY <2>2 DEF InternInv
  <2>3. ASSUME NEW t \in DOMAIN toGlobal'
        PROVE  /\ t.kids \subseteq DOMAIN toGlobal' /\ toGlobal'[t] \in Expressions'
               /\ nodes'[toGlobal'[t]] = Shape(t.op, t.token, {toGlobal'[k] : k \in t.kids})
    <3>1. /\ t.kids \subseteq DOMAIN toGlobal /\ toGlobal[t] \in Expressions
          /\ nodes[toGlobal[t]] = Shape(t.op, t.token, {toGlobal[k] : k \in t.kids})
      BY <2>1, <2>2 DEF InternInv
    <3>2. {toGlobal'[k] : k \in t.kids} = {toGlobal[k] : k \in t.kids}
      BY <2>2
    <3> QED BY <2>2, <3>1, <3>2
  <2>4. /\ DOMAIN toGlobal' \subseteq reached'
        /\ \A s, t \in DOMAIN toGlobal' : toGlobal'[s] = toGlobal'[t] => s = t
    BY <2>1, <2>2 DEF InternInv
  <2> QED BY <2>3, <2>4 DEF InternInv
<1>6. AnswersInv'
  BY <1>1 DEF AnswersInv, DagInv, InProgress
<1> QED BY <1>2, <1>3, <1>4, <1>5, <1>6 DEF DagInv

LEMMA DagStarts == ASSUME DagInit PROVE DagInv
<1>1. IsSeq(arrived) /\ \A i \in DOMAIN arrived : arrived[i].key \in Int
  <2>1. rows \in Seq(ToSet(rows)) /\ \A i \in DOMAIN rows : rows[i].key \in Int
    BY ProvenanceAssumption DEF DagInit
  <2>2. CASE arrived = rows
    BY <2>1, <2>2 DEF IsSeq
  <2>3. CASE arrived = Front(rows) /\ rows # << >>
    <3> DEFINE X == ToSet(rows)
    <3> HIDE DEF X
    <3>1. rows \in Seq(X)
      BY <2>1 DEF X
    <3>2. arrived \in Seq(X) /\ \A i \in DOMAIN arrived : arrived[i] = rows[i] /\ i \in DOMAIN rows
      BY <2>3, <3>1, FrontIs
    <3> QED BY <2>1, <3>2, SeqIs
  <2>4. arrived = rows \/ (arrived = Front(rows) /\ rows # << >>)
    BY DEF DagInit, Arrivals
  <2> QED BY <2>2, <2>3, <2>4
<1>2. ParserInv /\ NormalInv
  <2>1. Len(arena) = 0 /\ 0 \in 0 .. 0
    BY Emptiness DEF DagInit
  <2>2. ParserInv
    BY <2>1, NothingYet DEF ParserInv, DagInit
  <2> QED BY <2>1, <2>2, Emptiness, NothingYet DEF NormalInv, DagInit
<1>3. ReachInv /\ InternInv
  BY DEF ReachInv, InternInv, DagInit
<1>4. AnswersInv
  <2>1. Len(answers) = 0 /\ DOMAIN answers = {} /\ IsSeq(answers) /\ DOMAIN graphs = {} /\ 0 \in 0 .. 0
    BY Emptiness DEF DagInit
  <2> QED BY <1>1, <2>1 DEF AnswersInv, InProgress, DagInit
<1>5. GraphInv
  <2>1. nodes = << >> /\ answerRoots = {} /\ graphs = << >> /\ DOMAIN graphs = {} /\ DOMAIN nodes = {}
    BY Emptiness DEF DagInit
  <2>2. Expressions = {}
    BY <2>1 DEF Expressions
  <2>3. {graphs[k].root : k \in DOMAIN graphs} = {}
    BY <2>1
  <2>4. DagIsCanonical
    BY <2>1, <2>2, <2>3 DEF DagIsCanonical
  <2> QED BY <2>1, <2>4, Emptiness, FS_EmptySet DEF GraphInv
<1> QED BY <1>2, <1>3, <1>4, <1>5 DEF DagInv

LEMMA DagSteps == ASSUME DagInv, [DagNext]_dagVars PROVE DagInv'
<1>1. CASE Extract
  BY <1>1, ExtractKeeps
<1>2. CASE NextAnswer
  BY <1>2, NextAnswerKeeps
<1>3. CASE ParseOpen \/ ParseAtom \/ ParseComma \/ ParseClose \/ ParseEnd
  BY <1>3, OpenKeeps, AtomKeeps, CommaKeeps, CloseKeeps, EndKeeps
<1>4. CASE NormalizeNode \/ Normalized
  BY <1>4, NormalizeKeeps, NormalizedKeeps
<1>5. CASE Reach \/ Reached
  BY <1>5, ReachKeeps, ReachedKeeps
<1>6. CASE InternNode \/ AddAnswer
  BY <1>6, InternKeeps, AddKeeps
<1>7. CASE Validate
  BY <1>7, RejectKeeps, QuietKeeps DEF Validate
<1>8. CASE CompileAnswer
  BY <1>8, RejectKeeps, QuietKeeps DEF CompileAnswer
<1>9. CASE CompileShared
  <2>1. phase = "next"
    BY <1>9 DEF CompileShared, AllAnswered
  <2> QED BY <1>9, <2>1, RejectKeeps, QuietKeeps DEF CompileShared
<1>10. CASE Publish
  <2>1. phase = "next" /\ phase' \in {"next", "done"}
    BY <1>10 DEF Publish, AllAnswered
  <2> QED BY <1>10, <2>1, QuietKeeps DEF Publish
<1>11. CASE Crash
  BY <1>11, QuietKeeps DEF Crash
<1>12. CASE Ended \/ UNCHANGED dagVars
  BY <1>12, DagStutters DEF Ended
<1> QED BY <1>1, <1>2, <1>3, <1>4, <1>5, <1>6, <1>7, <1>8, <1>9, <1>10, <1>11, <1>12 DEF DagNext

\* The graph of an NPCS response is canonical at all times (normalize_boolean and
\* MultiRootDag): an expression occurs once in it, whichever answer it came from; no operand
\* repeats its operator, is a constant or is alone, and no negation is negated; every node
\* comes after its operands; and there are as many answer roots as there are answers.
THEOREM DagCanonical == DagSpec => []DagIsCanonical
<1>1. DagInit => DagInv
  BY DagStarts
<1>2. DagInv /\ [DagNext]_dagVars => DagInv'
  BY DagSteps
<1>3. DagInv => DagIsCanonical
  BY DEF DagInv, GraphInv
<1> QED BY <1>1, <1>2, <1>3, PTL DEF DagSpec
=============================================================================
