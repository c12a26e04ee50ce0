-------------------------- MODULE CellRunnerProofs --------------------------
(***************************************************************************)
(* Proofs about CellRunner, for any number of cells, runs and processes.   *)
(* A runner works only in a cell that is not terminal and whose            *)
(* predecessors all are (ClaimInv), so that two of them share the cell,    *)
(* whose directory only one could make; so does a worker that outlived its *)
(* runner, until the directory is moved.  What is recorded in a terminal   *)
(* cell never changes (Frozen); what a resumption adds to it is only ever  *)
(* another result in an attempt of its own (ResumeInv).                    *)
(* The second half is about CircuitCompiler, the compiler the offline work *)
(* of a cell runs: it refuses a circuit with a cycle and no other          *)
(* (CompilerInv).                                                          *)
(***************************************************************************)
EXTENDS CellRunner, CircuitCompiler, FiniteSetTheorems, SequenceTheorems, WellFoundedInduction, TLAPS

Status == {"none", "ok", "incomplete"}
Verdicts == Status \cup {"answer-mismatch", "circuit-mismatch"}
RunStatuses == {"none", "ok", "answer-mismatch", "circuit-mismatch"} \cup EndpointFailures \cup OfflineFailures

Drivers == [pc : {"off", "scan", "wait"}, at : Nat, child : Procs \cup {0},
            invoked : SUBSET Cells, persist : BOOLEAN]
Runners == [pc : {"off", "begin", "open", "endpoint", "offline", "record", "finish", "left", "moved"},
            cell : Cells \cup {Order[1]}, run : Runs]
Resumptions == [pc : {"off", "reserve", "run", "consolidate", "publish", "done"},
                cell : Cells \cup {Order[1]}, pending : SUBSET Runs, attempt : Nat,
                verdict : Verdicts]
Results == [Runs -> OfflineFailures \cup {"ok", "none"}]
Attempts == [results : Results, manifest : Verdicts]

\* A resumption with runs to repeat, or a manifest to write, has made its directory.
Owns(q) ==
    /\ resume[q].pc = "publish" \/ (resume[q].pc = "run" /\ resume[q].pending # {}) =>
           resume[q].attempt # 0
    /\ resume[q].pc \in {"run", "publish"} /\ resume[q].attempt # 0 =>
           resume[q].attempt \in DOMAIN attempts[resume[q].cell]

TypeOK ==
    /\ driver \in Drivers /\ driver.at >= 1
    /\ driver.pc = "wait" => driver.at \in DOMAIN Order
    /\ proc \in [Procs -> Runners]
    /\ \A p \in Procs : proc[p].pc # "off" => proc[p].cell \in Cells
    /\ resume \in [Resumers -> Resumptions]
    /\ \A q \in Resumers : resume[q].pc # "off" => resume[q].cell \in Cells
    /\ \A q \in Resumers : Owns(q)
    /\ dir \subseteq Cells
    /\ endpoint \in [Cells -> [Runs -> Artifacts \cup EndpointFailures \cup {"none"}]]
    /\ offline \in [Cells -> Results]
    /\ record \in [Cells -> [Runs -> RunStatuses]]
    /\ cell \in [Cells -> Status]
    /\ attempts \in [Cells -> Seq(Attempts)]

\* Cells and runs that the initial state mentions exist.
LEMMA Domains ==
    /\ 1 \in Runs /\ Warmups + 1 \in MeasuredRuns /\ MeasuredRuns \subseteq Runs
    /\ Runs \subseteq Nat \ {0}
    /\ NoResult \in [Runs -> {"none"}]
    /\ DOMAIN Order = 1 .. Len(Order) /\ Len(Order) \in Nat
    /\ \A i \in DOMAIN Order : Order[i] \in Cells
BY RunnerAssumption DEF Runs, MeasuredRuns, NoResult, Cells

LEMMA TypeInit == Init => TypeOK
<1> SUFFICES ASSUME Init PROVE TypeOK
  OBVIOUS
<1>1. driver \in Drivers /\ driver.pc = "off" /\ driver.at >= 1
  BY DEF Init, Stopped, Drivers
<1>2. proc \in [Procs -> Runners] /\ \A p \in Procs : proc[p].pc = "off"
  BY Domains DEF Init, Idle, Runners
<1>3. resume \in [Resumers -> Resumptions] /\ \A q \in Resumers : resume[q].pc = "off" /\ Owns(q)
  BY DEF Init, Resting, Resumptions, Verdicts, Status, Owns
<1>4. /\ endpoint \in [Cells -> [Runs -> Artifacts \cup EndpointFailures \cup {"none"}]]
      /\ offline \in [Cells -> Results]
      /\ record \in [Cells -> [Runs -> RunStatuses]]
  BY DEF Init, NoResult, RunStatuses, Results
<1>5. dir \subseteq Cells /\ cell \in [Cells -> Status]
      /\ attempts \in [Cells -> Seq(Attempts)]
  BY DEF Init, Status
<1> QED BY <1>1, <1>2, <1>3, <1>4, <1>5 DEF TypeOK

\* The status of a run is the failure of one of its two halves, a mismatch, or ok.
LEMMA RunStatusType ==
    ASSUME TypeOK, NEW c \in Cells, NEW r \in Runs
    PROVE  RunStatus(c, r) \in RunStatuses
BY DEF TypeOK, RunStatus, RunStatuses, EndpointOk, Results

LEMMA StartType ==
    ASSUME NEW persist \in BOOLEAN
    PROVE  LET e == [Stopped EXCEPT !.pc = "scan", !.persist = persist]
           IN  e \in Drivers /\ e.pc = "scan" /\ e.at >= 1 /\ e.at = 1 /\ e.invoked = {}
<1>1. Stopped \in Drivers /\ Stopped.at >= 1 /\ Stopped.at = 1 /\ Stopped.invoked = {}
  BY DEF Stopped, Drivers
<1>2. \A d \in Drivers : LET e == [d EXCEPT !.pc = "scan", !.persist = persist]
                        IN  e \in Drivers /\ e.pc = "scan" /\ e.at = d.at /\ e.invoked = d.invoked
  BY DEF Drivers
<1> QED BY <1>1, <1>2

LEMMA AdvanceType ==
    ASSUME NEW d \in Drivers, d.at >= 1
    PROVE  Advance(d) \in Drivers /\ Advance(d).pc = "scan" /\ Advance(d).at = d.at + 1
<1>1. \A n \in Nat : [d EXCEPT !.pc = "scan", !.at = n, !.child = 0] \in Drivers
  BY DEF Drivers
<1>2. d.at + 1 \in Nat
  BY DEF Drivers
<1>3. Advance(d) = [d EXCEPT !.pc = "scan", !.at = d.at + 1, !.child = 0]
  BY DEF Advance
<1>4. Advance(d) \in Drivers
  BY <1>1, <1>2, <1>3
<1> QED BY <1>3, <1>4 DEF Drivers

LEMMA InvokeType ==
    ASSUME NEW d \in Drivers, NEW p \in Procs, NEW c \in Cells
    PROVE  LET e == [d EXCEPT !.pc = "wait", !.child = p, !.invoked = @ \cup {c}]
           IN  e \in Drivers /\ e.pc = "wait" /\ e.at = d.at
<1>1. \A s \in SUBSET Cells : [d EXCEPT !.pc = "wait", !.child = p, !.invoked = s] \in Drivers
  BY DEF Drivers
<1>2. d.invoked \cup {c} \in SUBSET Cells
  BY DEF Drivers
<1> QED BY <1>1, <1>2 DEF Drivers

LEMMA TypeDriver == TypeOK /\ (DriverStart \/ DriverStep) => TypeOK'
<1> SUFFICES ASSUME TypeOK, DriverStart \/ DriverStep PROVE TypeOK'
  OBVIOUS
<1>1. Stopped \in Drivers /\ Stopped.pc = "off" /\ Stopped.at = 1
  BY DEF Stopped, Drivers
<1>2. driver \in Drivers /\ driver.at >= 1
  BY DEF TypeOK
<1>3. driver' \in Drivers /\ driver'.at >= 1 /\ (driver'.pc = "wait" => driver'.at \in DOMAIN Order)
  <2>1. CASE DriverStart
    <3>1. PICK persist \in BOOLEAN : driver' = [Stopped EXCEPT !.pc = "scan", !.persist = persist]
      BY <2>1 DEF DriverStart
    <3>2. driver' = [Stopped EXCEPT !.pc = "scan", !.persist = persist]
      BY <3>1
    <3> QED BY <3>2, <1>1, StartType
  <2>2. CASE DriverReuses
    <3>1. driver' = Advance(driver)
      BY <2>2 DEF DriverReuses
    <3>2. driver' \in Drivers /\ driver'.pc = "scan" /\ driver'.at = driver.at + 1 /\ driver.at \in Nat
      BY <1>2, <3>1, AdvanceType DEF Drivers
    <3> QED BY <1>2, <3>2
  <2>3. CASE DriverRefuses \/ DriverFinishes
    BY <2>3, <1>1 DEF DriverRefuses, DriverFinishes
  <2>4. CASE DriverInvokes
    <3>1. driver.at \in DOMAIN Order /\ Current \in Cells
      BY <2>4, <1>2, Domains DEF DriverInvokes, Current, Drivers
    <3>2. PICK p \in Procs :
              driver' = [driver EXCEPT !.pc = "wait", !.child = p, !.invoked = @ \cup {Current}]
      BY <2>4 DEF DriverInvokes
    <3> QED BY <3>1, <3>2, <1>2, InvokeType, ZenonT(60)
  <2>5. CASE DriverCollects
    BY <2>5, <1>1, <1>2, AdvanceType DEF DriverCollects, Drivers
  <2> QED BY <2>1, <2>2, <2>3, <2>4, <2>5 DEF DriverStep
<1>4. CASE DriverInvokes
  <2>1. Current \in Cells
    BY <1>4, <1>2, Domains DEF DriverInvokes, Current, Drivers
  <2>2. PICK p \in Procs : proc' = [proc EXCEPT ![p] = [pc |-> "begin", cell |-> Current, run |-> 1]]
    BY <1>4 DEF DriverInvokes
  <2>3. [pc |-> "begin", cell |-> Current, run |-> 1] \in Runners
    BY <2>1, Domains DEF Runners
  <2>4. /\ proc' \in [Procs -> Runners]
        /\ \A o \in Procs : proc'[o].pc # "off" => proc'[o].cell \in Cells
    BY <2>1, <2>2, <2>3 DEF TypeOK
  <2> QED BY <1>3, <1>4, <2>4 DEF TypeOK, DriverInvokes, files, Owns
<1>5. CASE ~DriverInvokes
  <2>1. UNCHANGED <<proc, resume, dir, endpoint, offline, record, cell, attempts>>
    BY <1>5 DEF DriverStart, DriverStep, DriverReuses, DriverRefuses, DriverCollects,
       DriverFinishes, files
  <2> QED BY <1>3, <2>1 DEF TypeOK, Owns
<1> QED BY <1>4, <1>5

LEMMA GotoType ==
    ASSUME TypeOK, NEW p \in Procs, NEW pc \in {"open", "endpoint", "offline", "record", "finish", "left"},
           proc[p].pc # "off", Goto(p, pc)
    PROVE  /\ proc' \in [Procs -> Runners]
           /\ \A o \in Procs : proc'[o].pc # "off" => proc'[o].cell \in Cells
           /\ \A o \in Procs : o # p => proc'[o] = proc[o]
           /\ proc'[p].pc = pc /\ proc'[p].cell = proc[p].cell /\ proc'[p].run = proc[p].run
<1>1. proc \in [Procs -> Runners] /\ proc[p] \in Runners /\ proc[p].cell \in Cells
  BY DEF TypeOK
<1> DEFINE e == [proc[p] EXCEPT !.pc = pc]
<1>2. e \in Runners /\ e.pc = pc /\ e.cell = proc[p].cell /\ e.run = proc[p].run
  BY <1>1 DEF Runners
<1>3. proc' = [proc EXCEPT ![p] = e]
  BY <1>1 DEF Goto
<1> HIDE DEF e
<1> QED BY <1>1, <1>2, <1>3 DEF TypeOK

LEMMA EndsType ==
    ASSUME TypeOK, NEW p \in Procs, Ends(p)
    PROVE  /\ proc' \in [Procs -> Runners]
           /\ \A o \in Procs : proc'[o].pc # "off" => proc'[o].cell \in Cells
           /\ \A o \in Procs : o # p => proc'[o] = proc[o]
           /\ proc'[p].pc = "off"
<1>1. Idle \in Runners /\ Idle.pc = "off"
  BY Domains DEF Idle, Runners
<1> QED BY <1>1 DEF TypeOK, Ends

\* A runner that dies leaves its worker, or nothing.
LEMMA DiesType ==
    ASSUME TypeOK, NEW p \in Procs, proc[p].pc # "off", Dies(p)
    PROVE  /\ proc' \in [Procs -> Runners]
           /\ \A o \in Procs : proc'[o].pc # "off" => proc'[o].cell \in Cells
           /\ \A o \in Procs : o # p => proc'[o] = proc[o]
           /\ \/ proc'[p].pc = "off"
              \/ /\ proc[p].pc \in {"endpoint", "offline"} /\ proc'[p].pc = "left"
                 /\ proc'[p].cell = proc[p].cell /\ proc'[p].run = proc[p].run
<1>1. CASE proc[p].pc \in {"endpoint", "offline"} /\ Goto(p, "left")
  BY <1>1, GotoType
<1>2. CASE Ends(p)
  BY <1>2, EndsType
<1> QED BY <1>1, <1>2 DEF Dies

\* Moving a directory away does nothing to the runners but tell their workers apart.
LEMMA MovedType ==
    ASSUME TypeOK, NEW c \in Cells,
           proc' = [p \in Procs |-> IF LeftOver(p) /\ proc[p].cell = c
                                   THEN [proc[p] EXCEPT !.pc = "moved"] ELSE proc[p]]
    PROVE  /\ proc' \in [Procs -> Runners]
           /\ \A o \in Procs : proc'[o].pc # "off" => proc'[o].cell \in Cells
           /\ \A o \in Procs : /\ proc'[o].cell = proc[o].cell /\ proc'[o].run = proc[o].run
                              /\ proc'[o].pc = (IF LeftOver(o) /\ proc[o].cell = c THEN "moved"
                                                ELSE proc[o].pc)
                              /\ ~(LeftOver(o) /\ proc[o].cell = c) => proc'[o] = proc[o]
<1>1. \A r \in Runners : LET e == [r EXCEPT !.pc = "moved"] IN
          e \in Runners /\ e.pc = "moved" /\ e.cell = r.cell /\ e.run = r.run
  BY DEF Runners
<1> QED BY <1>1 DEF TypeOK, LeftOver

LEMMA NextRunType ==
    ASSUME TypeOK, NEW p \in Procs, NEW r \in Runs, proc[p].pc # "off",
           proc' = [proc EXCEPT ![p].pc = "open", ![p].run = r]
    PROVE  /\ proc' \in [Procs -> Runners]
           /\ \A o \in Procs : proc'[o].pc # "off" => proc'[o].cell \in Cells
           /\ \A o \in Procs : o # p => proc'[o] = proc[o]
           /\ proc'[p].pc = "open" /\ proc'[p].cell = proc[p].cell /\ proc'[p].run = r
<1> DEFINE e == [proc[p] EXCEPT !.pc = "open", !.run = r]
<1>1. proc \in [Procs -> Runners] /\ proc[p] \in Runners /\ proc[p].cell \in Cells
  BY DEF TypeOK
<1>2. e \in Runners /\ e.pc = "open" /\ e.cell = proc[p].cell /\ e.run = r
  BY <1>1 DEF Runners
<1>3. proc' = [proc EXCEPT ![p] = e]
  BY <1>1
<1> HIDE DEF e
<1> QED BY <1>1, <1>2, <1>3, ZenonT(40) DEF TypeOK

LEMMA TypeRunner == ASSUME TypeOK, NEW p \in Procs, RunnerStep(p) PROVE TypeOK'
<1>1. proc[p].pc # "off" /\ proc[p].cell \in Cells /\ proc[p].run \in Runs
  BY DEF TypeOK, Runners, RunnerStep, RunnerBegins, RunOpens, EndpointRuns, OfflineRuns,
     RunRecorded, CellFinished
<1>2. CASE RunnerBegins(p)
  <2>1. dir' \subseteq Cells
    BY <1>1, <1>2 DEF RunnerBegins, TypeOK
  <2> QED BY <1>1, <1>2, <2>1, GotoType, EndsType DEF TypeOK, Owns, RunnerBegins
<1>7. CASE RunOpens(p)
  BY <1>1, <1>7, GotoType, EndsType DEF TypeOK, Owns, RunOpens, files
<1>3. CASE EndpointRuns(p)
  <2>1. PICK result \in Yields[proc[p].cell][proc[p].run] \cup EndpointFailures :
            endpoint' = [endpoint EXCEPT ![proc[p].cell][proc[p].run] = result]
            /\ Goto(p, IF result \in Artifacts THEN "offline" ELSE "record")
    BY <1>3 DEF EndpointRuns
  <2>2. result \in Artifacts \cup EndpointFailures
    BY <1>1, RunnerAssumption
  <2>3. endpoint' \in [Cells -> [Runs -> Artifacts \cup EndpointFailures \cup {"none"}]]
    BY <1>1, <2>1, <2>2 DEF TypeOK
  <2>4. proc' \in [Procs -> Runners] /\ \A o \in Procs : proc'[o].pc # "off" => proc'[o].cell \in Cells
    BY <1>1, <2>1, GotoType
  <2> QED BY <1>3, <2>3, <2>4 DEF TypeOK, Owns, EndpointRuns
<1>4. CASE OfflineRuns(p)
  <2>1. offline' \in [Cells -> Results]
    BY <1>1, <1>4 DEF TypeOK, OfflineRuns, Results
  <2> QED BY <1>1, <1>4, <2>1, GotoType DEF TypeOK, Owns, OfflineRuns
<1>5. CASE RunRecorded(p)
  <2>1. record' \in [Cells -> [Runs -> RunStatuses]]
    BY <1>1, <1>5, RunStatusType DEF TypeOK, RunRecorded
  <2>2. proc' \in [Procs -> Runners] /\ \A o \in Procs : proc'[o].pc # "off" => proc'[o].cell \in Cells
    <3>1. CASE Goto(p, "finish")
      BY <1>1, <3>1, GotoType
    <3>2. CASE ~IsLast(proc[p].run) /\ proc' = [proc EXCEPT ![p].pc = "open", ![p].run = proc[p].run + 1]
      BY <1>1, <3>2, NextRunType DEF IsLast
    <3> QED BY <3>1, <3>2, <1>5 DEF RunRecorded
  <2> QED BY <1>5, <2>1, <2>2 DEF TypeOK, Owns, RunRecorded
<1>6. CASE CellFinished(p)
  <2>1. cell' \in [Cells -> Status]
    BY <1>1, <1>6 DEF TypeOK, CellFinished, CellStatus, Status
  <2> QED BY <1>1, <1>6, <2>1, EndsType DEF TypeOK, Owns, CellFinished
<1> QED BY <1>2, <1>3, <1>4, <1>5, <1>6, <1>7 DEF RunnerStep

\* What a resumption does to the attempts of its cell.
LEMMA ReserveType ==
    ASSUME TypeOK, NEW q \in Resumers, resume[q].pc # "off", NEW pc \in {"run", "publish"},
           Reserves(q, pc)
    PROVE  LET c == resume[q].cell  n == Len(attempts[c]) + 1 IN
           /\ attempts' \in [Cells -> Seq(Attempts)]
           /\ resume' \in [Resumers -> Resumptions]
           /\ resume' = [resume EXCEPT ![q] = [resume[q] EXCEPT !.pc = pc, !.attempt = n]]
           /\ \A d \in Cells : d # c => attempts'[d] = attempts[d]
           /\ DOMAIN attempts'[c] = DOMAIN attempts[c] \cup {n} /\ n \notin DOMAIN attempts[c]
           /\ attempts'[c][n] = Attempt /\ \A i \in DOMAIN attempts[c] : attempts'[c][i] = attempts[c][i]
<1> DEFINE c == resume[q].cell  n == Len(attempts[c]) + 1
<1>1. c \in Cells /\ resume[q] \in Resumptions /\ attempts[c] \in Seq(Attempts)
  BY DEF TypeOK
<1>2. Attempt \in Attempts
  BY Domains DEF Attempt, Attempts, Results, Verdicts, Status
<1>3. n \in Nat
  BY <1>1
<1>4. attempts' = [attempts EXCEPT ![c] = Append(attempts[c], Attempt)]
  BY DEF Reserves
<1>5. /\ Append(attempts[c], Attempt) \in Seq(Attempts)
      /\ DOMAIN Append(attempts[c], Attempt) = DOMAIN attempts[c] \cup {n} /\ n \notin DOMAIN attempts[c]
      /\ Append(attempts[c], Attempt)[n] = Attempt
      /\ \A i \in DOMAIN attempts[c] : Append(attempts[c], Attempt)[i] = attempts[c][i]
  BY <1>1, <1>2, SMTT(30)
<1>6. resume' = [resume EXCEPT ![q] = [resume[q] EXCEPT !.pc = pc, !.attempt = n]]
  BY DEF Reserves, TypeOK
<1>7. [resume[q] EXCEPT !.pc = pc, !.attempt = n] \in Resumptions
  BY <1>1, <1>3 DEF Resumptions
<1> QED BY <1>1, <1>4, <1>5, <1>6, <1>7 DEF TypeOK

SetsResult(c, k, r, result) == attempts' = [attempts EXCEPT ![c][k].results[r] = result]
SetsManifest(c, k, verdict) == attempts' = [attempts EXCEPT ![c][k].manifest = verdict]

LEMMA ResultType ==
    ASSUME TypeOK, NEW c \in Cells, NEW k \in DOMAIN attempts[c], NEW r \in Runs,
           NEW result \in {"ok"} \cup OfflineFailures,
           SetsResult(c, k, r, result)
    PROVE  /\ attempts' \in [Cells -> Seq(Attempts)]
           /\ \A d \in Cells : DOMAIN attempts'[d] = DOMAIN attempts[d]
           /\ \A d \in Cells : \A i \in DOMAIN attempts[d] :
                  /\ attempts'[d][i].manifest = attempts[d][i].manifest
                  /\ \A s \in Runs : attempts'[d][i].results[s] =
                         IF d = c /\ i = k /\ s = r THEN result ELSE attempts[d][i].results[s]
<1> DEFINE e == [attempts[c][k] EXCEPT !.results[r] = result]
           t == [attempts[c] EXCEPT ![k] = e]
<1>0. attempts \in [Cells -> Seq(Attempts)] /\ attempts[c] \in Seq(Attempts)
      /\ k \in 1 .. Len(attempts[c])
  BY DEF TypeOK
<1>1. attempts \in [Cells -> Seq(Attempts)] /\ attempts[c] \in Seq(Attempts)
      /\ attempts[c][k] \in Attempts
  BY <1>0, ElementOfSeq
<1>2. attempts' = [attempts EXCEPT ![c] = t]
  BY <1>1 DEF SetsResult
<1>3. /\ e \in Attempts /\ e.manifest = attempts[c][k].manifest
      /\ \A s \in Runs : e.results[s] = IF s = r THEN result ELSE attempts[c][k].results[s]
  BY <1>1 DEF Attempts, Results
<1> HIDE DEF e
<1>4. t \in Seq(Attempts) /\ DOMAIN t = DOMAIN attempts[c]
      /\ \A i \in DOMAIN attempts[c] : t[i] = IF i = k THEN e ELSE attempts[c][i]
  BY <1>0, <1>3, ExceptSeq
<1> HIDE DEF t
<1>5. attempts' \in [Cells -> Seq(Attempts)] /\ \A d \in Cells : attempts'[d] = IF d = c THEN t ELSE attempts[d]
  BY <1>1, <1>2, <1>4
<1>6. \A d \in Cells : DOMAIN attempts'[d] = DOMAIN attempts[d]
  BY <1>4, <1>5
<1>7. ASSUME NEW d \in Cells, NEW i \in DOMAIN attempts[d]
      PROVE  /\ attempts'[d][i].manifest = attempts[d][i].manifest
             /\ \A s \in Runs : attempts'[d][i].results[s] =
                    IF d = c /\ i = k /\ s = r THEN result ELSE attempts[d][i].results[s]
  <2>1. CASE d = c /\ i = k
    <3>1. attempts'[d][i] = e
      BY <1>4, <1>5, <2>1
    <3> QED BY <1>3, <2>1, <3>1
  <2>2. CASE ~(d = c /\ i = k)
    BY <1>4, <1>5, <2>2
  <2> QED BY <2>1, <2>2
<1> QED BY <1>5, <1>6, <1>7

LEMMA ManifestType ==
    ASSUME TypeOK, NEW c \in Cells, NEW k \in DOMAIN attempts[c], NEW verdict \in Verdicts,
           SetsManifest(c, k, verdict)
    PROVE  /\ attempts' \in [Cells -> Seq(Attempts)]
           /\ \A d \in Cells : DOMAIN attempts'[d] = DOMAIN attempts[d]
           /\ \A d \in Cells : \A i \in DOMAIN attempts[d] :
                  /\ attempts'[d][i].results = attempts[d][i].results
                  /\ attempts'[d][i].manifest =
                         IF d = c /\ i = k THEN verdict ELSE attempts[d][i].manifest
<1> DEFINE e == [attempts[c][k] EXCEPT !.manifest = verdict]
           t == [attempts[c] EXCEPT ![k] = e]
<1>0. attempts \in [Cells -> Seq(Attempts)] /\ attempts[c] \in Seq(Attempts)
      /\ k \in 1 .. Len(attempts[c])
  BY DEF TypeOK
<1>1. attempts \in [Cells -> Seq(Attempts)] /\ attempts[c] \in Seq(Attempts)
      /\ attempts[c][k] \in Attempts
  BY <1>0, ElementOfSeq
<1>2. attempts' = [attempts EXCEPT ![c] = t]
  BY <1>1 DEF SetsManifest
<1>3. e \in Attempts /\ e.manifest = verdict /\ e.results = attempts[c][k].results
  BY <1>1 DEF Attempts
<1> HIDE DEF e
<1>4. t \in Seq(Attempts) /\ DOMAIN t = DOMAIN attempts[c]
      /\ \A i \in DOMAIN attempts[c] : t[i] = IF i = k THEN e ELSE attempts[c][i]
  BY <1>0, <1>3, ExceptSeq
<1> HIDE DEF t
<1>5. attempts' \in [Cells -> Seq(Attempts)] /\ \A d \in Cells : attempts'[d] = IF d = c THEN t ELSE attempts[d]
  BY <1>1, <1>2, <1>4
<1> QED BY <1>3, <1>4, <1>5

LEMMA TypeResume == ASSUME TypeOK, NEW q \in Resumers, ResumeStarts(q) \/ ResumeStep(q) PROVE TypeOK'
<1>1. CASE ResumeStarts(q)
  <2>1. PICK c \in Resumable : resume' = [resume EXCEPT ![q] =
            [pc |-> IF Pending(c) = {} THEN "run" ELSE "reserve", cell |-> c,
             pending |-> Pending(c), attempt |-> 0, verdict |-> "none"]]
    BY <1>1 DEF ResumeStarts
  <2> DEFINE e == [pc |-> IF Pending(c) = {} THEN "run" ELSE "reserve", cell |-> c,
                   pending |-> Pending(c), attempt |-> 0, verdict |-> "none"]
  <2>2. c \in Cells /\ Pending(c) \in SUBSET Runs
    BY RunnerAssumption DEF Pending
  <2>3. /\ e \in Resumptions /\ e.cell = c /\ e.attempt = 0 /\ e.pc # "publish"
        /\ e.pc = "run" => e.pending = {}
    BY <2>2 DEF Resumptions, Verdicts, Status
  <2>4. resume' = [resume EXCEPT ![q] = e]
    BY <2>1
  <2> HIDE DEF e
  <2>5. resume' \in [Resumers -> Resumptions] /\ \A o \in Resumers : resume'[o] = IF o = q THEN e ELSE resume[o]
    BY <2>3, <2>4 DEF TypeOK
  <2>6. \A o \in Resumers : (resume'[o].pc # "off" => resume'[o].cell \in Cells) /\ Owns(o)'
    BY <1>1, <2>2, <2>3, <2>5 DEF TypeOK, Owns, ResumeStarts, files
  <2> QED BY <1>1, <2>5, <2>6 DEF TypeOK, ResumeStarts, files
<1>2. ASSUME NEW pc \in {"run", "publish"}, resume[q].pc # "off", Reserves(q, pc), ResumeReserves(q)
      PROVE  TypeOK'
  <2> DEFINE n == Len(attempts[resume[q].cell]) + 1
             e == [resume[q] EXCEPT !.pc = pc, !.attempt = n]
  <2>1. /\ attempts' \in [Cells -> Seq(Attempts)] /\ resume' \in [Resumers -> Resumptions]
        /\ resume' = [resume EXCEPT ![q] = e]
        /\ \A d \in Cells : d # resume[q].cell => attempts'[d] = attempts[d]
        /\ DOMAIN attempts'[resume[q].cell] = DOMAIN attempts[resume[q].cell] \cup {n}
    BY <1>2, ReserveType, ZenonT(60)
  <2>2. /\ resume[q].cell \in Cells /\ n # 0
        /\ e.pc = pc /\ e.cell = resume[q].cell /\ e.attempt = n
    BY <1>2 DEF TypeOK, Resumptions
  <2> HIDE DEF e, n
  <2>3. \A o \in Resumers : resume'[o] = IF o = q THEN e ELSE resume[o]
    BY <2>1 DEF TypeOK
  <2>4. ASSUME NEW o \in Resumers PROVE (resume'[o].pc # "off" => resume'[o].cell \in Cells) /\ Owns(o)'
    <3>1. CASE o = q
      BY <2>1, <2>2, <2>3, <3>1 DEF TypeOK, Owns
    <3>2. CASE o # q
      BY <2>1, <2>3, <3>2 DEF TypeOK, Owns
    <3> QED BY <3>1, <3>2
  <2> QED BY <1>2, <2>1, <2>4 DEF TypeOK, ResumeReserves
<1>3. CASE ResumeReserves(q)
  BY <1>2, <1>3 DEF ResumeReserves
<1>4. CASE ResumeRuns(q)
  <2>1. PICK r \in resume[q].pending, result \in {"ok"} \cup OfflineFailures :
            /\ attempts' = [attempts EXCEPT ![resume[q].cell][resume[q].attempt].results[r] = result]
            /\ resume' = [resume EXCEPT ![q].pending = @ \ {r}]
    BY <1>4 DEF ResumeRuns
  <2> DEFINE e == [resume[q] EXCEPT !.pending = @ \ {r}]
  <2>2. resume[q].cell \in Cells /\ resume[q].attempt \in DOMAIN attempts[resume[q].cell]
    BY <1>4 DEF TypeOK, Owns, ResumeRuns
  <2>3. resume[q] \in Resumptions /\ r \in Runs
    BY <2>1 DEF TypeOK, Resumptions
  <2>4. e \in Resumptions /\ e.pc = resume[q].pc /\ e.cell = resume[q].cell /\ e.attempt = resume[q].attempt
    BY <2>3 DEF Resumptions
  <2>5. attempts' \in [Cells -> Seq(Attempts)] /\ \A d \in Cells : DOMAIN attempts'[d] = DOMAIN attempts[d]
    <3>1. SetsResult(resume[q].cell, resume[q].attempt, r, result)
      BY <2>1 DEF SetsResult
    <3> QED BY <2>1, <2>2, <2>3, <3>1, ResultType
  <2>6. resume' = [resume EXCEPT ![q] = e]
    BY <2>1 DEF TypeOK
  <2> HIDE DEF e
  <2>7. resume' \in [Resumers -> Resumptions] /\ \A o \in Resumers : resume'[o] = IF o = q THEN e ELSE resume[o]
    BY <2>4, <2>6 DEF TypeOK
  <2>8. ASSUME NEW o \in Resumers PROVE (resume'[o].pc # "off" => resume'[o].cell \in Cells) /\ Owns(o)'
    <3>1. CASE o = q
      BY <1>4, <2>2, <2>4, <2>5, <2>7, <3>1, ZenonT(60) DEF ResumeRuns, Owns, TypeOK
    <3>2. CASE o # q
      BY <2>5, <2>7, <3>2 DEF TypeOK, Owns
    <3> QED BY <3>1, <3>2
  <2> QED BY <1>4, <2>5, <2>7, <2>8 DEF TypeOK, ResumeRuns
<1>5. CASE ResumeEvaluates(q)
  <2> DEFINE next == IF resume[q].attempt # 0 THEN "publish"
                     ELSE IF Consolidates(resume[q].cell) THEN "consolidate" ELSE "done"
             e == [resume[q] EXCEPT !.verdict = Verdict(resume[q].cell), !.pc = next]
  <2>1. resume[q] \in Resumptions /\ resume[q].cell \in Cells
    BY <1>5 DEF TypeOK, ResumeEvaluates
  <2>2. Verdict(resume[q].cell) \in Verdicts /\ next \in {"publish", "consolidate", "done"}
    BY DEF Verdict, Verdicts, Status
  <2>3. e \in Resumptions /\ e.pc = next /\ e.cell = resume[q].cell /\ e.attempt = resume[q].attempt
    BY <2>1, <2>2 DEF Resumptions
  <2>4. resume' = [resume EXCEPT ![q] = e]
    BY <1>5 DEF ResumeEvaluates, TypeOK
  <2> HIDE DEF e
  <2>5. resume' \in [Resumers -> Resumptions] /\ \A o \in Resumers : resume'[o] = IF o = q THEN e ELSE resume[o]
    BY <2>3, <2>4 DEF TypeOK
  <2>6. ASSUME NEW o \in Resumers PROVE (resume'[o].pc # "off" => resume'[o].cell \in Cells) /\ Owns(o)'
    <3>1. CASE o = q
      BY <1>5, <2>1, <2>3, <2>5, <3>1 DEF TypeOK, Owns, ResumeEvaluates, files
    <3>2. CASE o # q
      BY <1>5, <2>5, <3>2 DEF TypeOK, Owns, ResumeEvaluates, files
    <3> QED BY <3>1, <3>2
  <2> QED BY <1>5, <2>5, <2>6 DEF TypeOK, ResumeEvaluates, files
<1>6. CASE ResumePublishes(q)
  <2> DEFINE e == [resume[q] EXCEPT !.pc = "done"]
  <2>1. /\ resume[q] \in Resumptions /\ resume[q].cell \in Cells
        /\ resume[q].attempt \in DOMAIN attempts[resume[q].cell]
    BY <1>6 DEF TypeOK, ResumePublishes, Owns
  <2>2. attempts' \in [Cells -> Seq(Attempts)] /\ \A d \in Cells : DOMAIN attempts'[d] = DOMAIN attempts[d]
    <3>1. resume[q].verdict \in Verdicts
      BY <2>1 DEF Resumptions
    <3>2. SetsManifest(resume[q].cell, resume[q].attempt, resume[q].verdict)
      BY <1>6 DEF SetsManifest, ResumePublishes
    <3> QED BY <2>1, <3>1, <3>2, ManifestType
  <2>3. e \in Resumptions /\ e.pc = "done" /\ e.cell = resume[q].cell
    BY <2>1 DEF Resumptions
  <2>4. resume' = [resume EXCEPT ![q] = e]
    BY <1>6 DEF ResumePublishes, TypeOK
  <2> HIDE DEF e
  <2>5. resume' \in [Resumers -> Resumptions] /\ \A o \in Resumers : resume'[o] = IF o = q THEN e ELSE resume[o]
    BY <2>3, <2>4 DEF TypeOK
  <2>6. \A o \in Resumers : (resume'[o].pc # "off" => resume'[o].cell \in Cells) /\ Owns(o)'
    BY <2>1, <2>2, <2>3, <2>5, ZenonT(60) DEF TypeOK, Owns
  <2> QED BY <1>6, <2>2, <2>5, <2>6 DEF TypeOK, ResumePublishes
<1> QED BY <1>1, <1>3, <1>4, <1>5, <1>6 DEF ResumeStep

LEMMA TypeLeftOver == ASSUME TypeOK, NEW p \in Procs, LeftOverWrites(p) \/ LeftOverEnds(p) PROVE TypeOK'
<1>1. CASE LeftOverWrites(p)
  <2>1. proc[p].cell \in Cells
    BY <1>1 DEF TypeOK, LeftOverWrites
  <2>2. dir' \subseteq Cells
    BY <1>1, <2>1 DEF TypeOK, LeftOverWrites
  <2> QED BY <1>1, <2>2 DEF TypeOK, Owns, LeftOverWrites
<1>2. CASE LeftOverEnds(p)
  BY <1>2, EndsType DEF TypeOK, Owns, LeftOverEnds, files
<1> QED BY <1>1, <1>2

LEMMA TypeFault == TypeOK /\ (Kill \/ MovePartial) => TypeOK'
<1> SUFFICES ASSUME TypeOK, Kill \/ MovePartial PROVE TypeOK'
  OBVIOUS
<1>1. CASE Kill
  <2>1. CASE driver' = Stopped /\ UNCHANGED <<proc, resume>>
    <3>1. driver' \in Drivers /\ driver'.at >= 1 /\ driver'.pc = "off"
      BY <2>1 DEF Stopped, Drivers
    <3> QED BY <1>1, <2>1, <3>1 DEF TypeOK, Kill, files, Owns
  <2>2. ASSUME NEW p \in Procs, ~RunnerGone(p), Dies(p), UNCHANGED <<driver, resume>>
        PROVE  TypeOK'
    BY <1>1, <2>2, DiesType DEF TypeOK, Kill, files, Owns, RunnerGone
  <2>3. ASSUME NEW q \in Resumers, resume' = [resume EXCEPT ![q] = Resting], UNCHANGED <<driver, proc>>
        PROVE  TypeOK'
    <3>1. Resting \in Resumptions /\ Resting.pc = "off"
      BY DEF Resting, Resumptions, Verdicts, Status
    <3>2. resume' \in [Resumers -> Resumptions] /\ \A o \in Resumers : resume'[o] = IF o = q THEN Resting ELSE resume[o]
      BY <2>3, <3>1 DEF TypeOK
    <3>3. \A o \in Resumers : (resume'[o].pc # "off" => resume'[o].cell \in Cells) /\ Owns(o)'
      BY <1>1, <3>1, <3>2 DEF TypeOK, Owns, Kill, files
    <3> QED BY <1>1, <2>3, <3>2, <3>3 DEF TypeOK, Kill, files
  <2> QED BY <1>1, <2>1, <2>2, <2>3 DEF Kill
<1>2. CASE MovePartial
  <2>1. PICK c \in dir : /\ dir' = dir \ {c}
                         /\ endpoint' = [endpoint EXCEPT ![c] = NoResult]
                         /\ offline' = [offline EXCEPT ![c] = NoResult]
                         /\ record' = [record EXCEPT ![c] = NoResult]
                         /\ proc' = [p \in Procs |-> IF LeftOver(p) /\ proc[p].cell = c
                                                     THEN [proc[p] EXCEPT !.pc = "moved"] ELSE proc[p]]
    BY <1>2 DEF MovePartial
  <2>3. proc' \in [Procs -> Runners] /\ \A o \in Procs : proc'[o].pc # "off" => proc'[o].cell \in Cells
    BY <2>1, MovedType DEF TypeOK
  <2>2. /\ NoResult \in [Runs -> Artifacts \cup EndpointFailures \cup {"none"}]
        /\ NoResult \in Results /\ NoResult \in [Runs -> RunStatuses]
    BY DEF NoResult, Results, RunStatuses
  <2> QED BY <1>2, <2>1, <2>2, <2>3 DEF TypeOK, MovePartial, Owns
<1> QED BY <1>1, <1>2

LEMMA TypeStep == TypeOK /\ [Next]_vars => TypeOK'
<1> SUFFICES ASSUME TypeOK, [Next]_vars PROVE TypeOK'
  OBVIOUS
<1>1. CASE UNCHANGED vars
  BY <1>1 DEF TypeOK, vars, files, Owns
<1> QED BY <1>1, TypeDriver, TypeRunner, TypeResume, TypeLeftOver, TypeFault DEF Next

\* Every variable keeps its type, and a resumption at work has its directory.
THEOREM CellTypeCorrect == Spec => []TypeOK
BY TypeInit, TypeStep, PTL DEF Spec

-----------------------------------------------------------------------------
(* Cells and their runners                                                  *)

Terminal(c) == cell[c] # "none"
Working(p) == proc[p].pc \notin {"off", "begin", "moved"}
Moved == {p \in Procs : proc[p].pc = "moved"}

\* The driver comes to a cell when every cell before it is terminal.
Reached(c) == \E k \in DOMAIN Order : Order[k] = c /\ \A i \in 1 .. k - 1 : Terminal(Order[i])

ClaimInv ==
    /\ \A c \in Cells : Terminal(c) => c \in dir
    /\ driver.pc # "off" => \A i \in 1 .. driver.at - 1 : i \in DOMAIN Order => Terminal(Order[i])
    /\ \A p \in Procs : proc[p].pc # "off" => Reached(proc[p].cell)
    /\ \A p \in Procs : Working(p) => proc[p].cell \in dir /\ ~Terminal(proc[p].cell)
    /\ \A p, q \in Procs : Working(p) /\ Working(q) => p = q

\* Two cells the driver has come to, neither of which is terminal, are one.
LEMMA ReachedOnce ==
    ASSUME NEW c \in Cells, NEW d \in Cells, Reached(c), Reached(d), ~Terminal(c), ~Terminal(d)
    PROVE  c = d
<1>1. PICK k \in DOMAIN Order : Order[k] = c /\ \A i \in 1 .. k - 1 : Terminal(Order[i])
  BY DEF Reached
<1>2. PICK m \in DOMAIN Order : Order[m] = d /\ \A i \in 1 .. m - 1 : Terminal(Order[i])
  BY DEF Reached
<1>3. k \in Nat /\ m \in Nat /\ k >= 1 /\ m >= 1
  BY Domains
<1>4. ~(k < m) /\ ~(m < k)
  BY <1>1, <1>2, <1>3
<1> QED BY <1>1, <1>2, <1>3, <1>4

\* What a terminal cell holds never changes.
Frozen(c) == /\ cell'[c] = cell[c] /\ endpoint'[c] = endpoint[c]
             /\ offline'[c] = offline[c] /\ record'[c] = record[c]

LEMMA TerminalCellsAreFrozen ==
    ASSUME TypeOK, ClaimInv, [Next]_vars, NEW c \in Cells, Terminal(c)
    PROVE  Frozen(c)
<1>1. ASSUME UNCHANGED <<cell, endpoint, offline, record>> PROVE Frozen(c)
  BY <1>1 DEF Frozen
<1>2. CASE DriverStart \/ DriverStep \/ Kill \/ UNCHANGED vars
  BY <1>1, <1>2 DEF DriverStart, DriverStep, DriverReuses, DriverRefuses, DriverInvokes,
     DriverCollects, DriverFinishes, Kill, files, vars
<1>3. ASSUME NEW q \in Resumers, ResumeStarts(q) \/ ResumeStep(q) PROVE Frozen(c)
  BY <1>1, <1>3 DEF ResumeStarts, ResumeStep, ResumeReserves, ResumeRuns, ResumeEvaluates,
     ResumePublishes, files
<1>6. ASSUME NEW p \in Procs, LeftOverWrites(p) \/ LeftOverEnds(p) PROVE Frozen(c)
  BY <1>1, <1>6 DEF LeftOverWrites, LeftOverEnds, files
<1>4. ASSUME NEW p \in Procs, RunnerStep(p) PROVE Frozen(c)
  <2>1. CASE RunnerBegins(p) \/ RunOpens(p)
    BY <1>1, <2>1 DEF RunnerBegins, RunOpens, files
  <2>2. CASE EndpointRuns(p) \/ OfflineRuns(p) \/ RunRecorded(p) \/ CellFinished(p)
    <3>1. proc[p].cell # c
      BY <2>2 DEF ClaimInv, Working, EndpointRuns, OfflineRuns, RunRecorded, CellFinished
    <3> QED BY <2>2, <3>1 DEF TypeOK, Frozen, EndpointRuns, OfflineRuns, RunRecorded, CellFinished
  <2> QED BY <1>4, <2>1, <2>2 DEF RunnerStep
<1>5. CASE MovePartial
  BY <1>5 DEF TypeOK, MovePartial, Frozen, Terminal
<1> QED BY <1>2, <1>3, <1>4, <1>5, <1>6 DEF Next

LEMMA ReachedStays ==
    ASSUME TypeOK, ClaimInv, [Next]_vars, NEW c \in Cells, Reached(c)
    PROVE  Reached(c)'
<1>1. PICK k \in DOMAIN Order : Order[k] = c /\ \A i \in 1 .. k - 1 : Terminal(Order[i])
  BY DEF Reached
<1>2. \A i \in 1 .. k - 1 : Order[i] \in Cells /\ Terminal(Order[i])'
  BY <1>1, Domains, TerminalCellsAreFrozen DEF Frozen, Terminal
<1> QED BY <1>1, <1>2 DEF Reached

LEMMA ClaimInit == Init => ClaimInv
BY DEF Init, ClaimInv, Terminal, Working, Stopped, Idle

LEMMA ClaimStep == TypeOK /\ ClaimInv /\ [Next]_vars => ClaimInv'
<1> SUFFICES ASSUME TypeOK, ClaimInv, [Next]_vars PROVE ClaimInv'
  OBVIOUS
<1>0. TypeOK'
  BY TypeStep
<1>1. \A c \in Cells : /\ Terminal(c) => Terminal(c)'
                       /\ Reached(c) => Reached(c)'
  BY TerminalCellsAreFrozen, ReachedStays DEF Frozen, Terminal
\* When dir, the runners and the cells stay.
<1>2. ASSUME UNCHANGED <<dir, proc, cell>>,
             driver'.pc # "off" => \A i \in 1 .. driver'.at - 1 : i \in DOMAIN Order => Terminal(Order[i])
      PROVE  ClaimInv'
  BY <1>2 DEF ClaimInv, Terminal, Reached, Working
<1>3. CASE UNCHANGED vars
  BY <1>2, <1>3 DEF vars, files, ClaimInv
<1>4. ASSUME NEW q \in Resumers, ResumeStarts(q) \/ ResumeStep(q) PROVE ClaimInv'
  <2>1. UNCHANGED <<dir, proc, cell, driver>>
    BY <1>4 DEF ResumeStarts, ResumeStep, ResumeReserves, ResumeRuns, ResumeEvaluates,
       ResumePublishes, files
  <2> QED BY <1>2, <2>1 DEF ClaimInv
<1>5. CASE DriverStart
  <2>1. PICK persist \in BOOLEAN : driver' = [Stopped EXCEPT !.pc = "scan", !.persist = persist]
    BY <1>5 DEF DriverStart
  <2>2. driver'.at = 1
    BY <2>1, StartType
  <2> QED BY <1>2, <1>5, <2>2 DEF DriverStart, files
<1>6. CASE DriverStep
  <2>1. driver \in Drivers /\ driver.at \in Nat /\ driver.at >= 1
    BY DEF TypeOK, Drivers
  <2>2. CASE DriverRefuses \/ DriverFinishes
    BY <1>2, <2>2 DEF DriverRefuses, DriverFinishes, Stopped, files
  <2>3. ASSUME driver'.at = driver.at + 1, driver.pc # "off", Terminal(Current), UNCHANGED <<dir, proc, cell>>
        PROVE  ClaimInv'
    <3>1. \A i \in 1 .. driver'.at - 1 : i \in 1 .. driver.at - 1 \/ i = driver.at
      BY <2>1, <2>3
    <3> QED BY <1>2, <2>3, <3>1 DEF ClaimInv, Current
  <2>4. CASE DriverReuses
    <3>1. driver'.at = driver.at + 1
      BY <2>1, <2>4, AdvanceType DEF DriverReuses
    <3> QED BY <2>3, <2>4, <3>1 DEF DriverReuses, Terminal, files
  <2>5. CASE DriverCollects
    <3>1. CASE MayContinue(Current)
      BY <2>1, <2>3, <2>5, <3>1, AdvanceType DEF DriverCollects, MayContinue, Terminal, files
    <3>2. CASE ~MayContinue(Current)
      BY <1>2, <2>5, <3>2 DEF DriverCollects, Stopped, files
    <3> QED BY <3>1, <3>2
  <2>6. CASE DriverInvokes
    <3>1. PICK p \in Procs :
              /\ proc[p].pc = "off"
              /\ proc' = [proc EXCEPT ![p] = [pc |-> "begin", cell |-> Current, run |-> 1]]
              /\ driver' = [driver EXCEPT !.pc = "wait", !.child = p, !.invoked = @ \cup {Current}]
      BY <2>6 DEF DriverInvokes
    <3>2. UNCHANGED <<dir, cell>> /\ driver.pc = "scan"
      BY <2>6 DEF DriverInvokes, files
    <3>3. driver.at \in DOMAIN Order /\ Current \in Cells
      BY <2>1, <2>6, Domains DEF DriverInvokes, Current
    <3>4. driver'.at = driver.at
      BY <2>1, <3>1, <3>3, InvokeType, ZenonT(60)
    <3>5. \A d \in Cells : d = Current => Reached(d)'
      <4>1. \A i \in 1 .. driver.at - 1 : i \in DOMAIN Order
        BY <2>1, <3>3, Domains
      <4>2. Reached(Current)
        BY <3>2, <3>3, <4>1 DEF ClaimInv, Reached, Current
      <4> QED BY <1>1, <4>2
    <3>6. \A o \in Procs : /\ Working(o)' <=> Working(o)
                           /\ o # p => proc'[o] = proc[o]
                           /\ o = p => proc'[o].cell = Current /\ ~Working(o)
      BY <3>1 DEF TypeOK, Working
    <3>7. \A o \in Procs : proc'[o].pc # "off" => Reached(proc[o].cell)'
      BY <1>0, <1>1, <3>3, <3>5, <3>6 DEF ClaimInv, TypeOK
    <3>8. \A o \in Procs : Working(o)' => proc'[o].cell = proc[o].cell
      BY <3>6
    <3>9. driver'.pc # "off" => \A i \in 1 .. driver'.at - 1 : i \in DOMAIN Order => Terminal(Order[i])'
      BY <3>2, <3>4 DEF ClaimInv, Terminal
    <3>10. /\ \A o \in Procs : Working(o)' => proc'[o].cell \in dir' /\ ~Terminal(proc[o].cell)'
           /\ \A c \in Cells : Terminal(c)' => c \in dir'
           /\ \A o, q \in Procs : Working(o)' /\ Working(q)' => o = q
      BY <3>2, <3>6, <3>8 DEF ClaimInv, Terminal
    <3> QED BY <3>7, <3>9, <3>10 DEF ClaimInv
  <2> QED BY <1>6, <2>2, <2>4, <2>5, <2>6 DEF DriverStep
<1>7. CASE Kill
  <2>1. CASE driver' = Stopped /\ UNCHANGED proc
    BY <1>2, <1>7, <2>1 DEF Kill, Stopped, files
  <2>2. ASSUME NEW p \in Procs, ~RunnerGone(p), Dies(p), UNCHANGED driver PROVE ClaimInv'
    <3>1. /\ \A o \in Procs : o # p => proc'[o] = proc[o]
          /\ \/ proc'[p].pc = "off"
             \/ Working(p) /\ proc'[p].pc = "left" /\ proc'[p].cell = proc[p].cell
      BY <2>2, DiesType DEF RunnerGone, Working
    <3>2. UNCHANGED <<dir, cell, driver>>
      BY <1>7, <2>2 DEF Kill, files
    <3> QED BY <3>1, <3>2 DEF ClaimInv, Working, Terminal, Reached
  <2>3. CASE UNCHANGED <<driver, proc>>
    BY <1>2, <1>7, <2>3 DEF Kill, files, ClaimInv
  <2> QED BY <1>7, <2>1, <2>2, <2>3 DEF Kill
<1>8. CASE MovePartial
  <2>1. PICK c \in dir : /\ cell[c] = "none" /\ \A p \in Procs : RunnerGone(p) \/ proc[p].cell # c
                         /\ dir' = dir \ {c}
                         /\ proc' = [p \in Procs |-> IF LeftOver(p) /\ proc[p].cell = c
                                                     THEN [proc[p] EXCEPT !.pc = "moved"] ELSE proc[p]]
    BY <1>8 DEF MovePartial
  <2>2. UNCHANGED <<driver, cell>>
    BY <1>8 DEF MovePartial
  <2>3. ASSUME NEW o \in Procs
        PROVE  /\ proc'[o].cell = proc[o].cell
               /\ proc'[o].pc # "off" => proc[o].pc # "off"
               /\ Working(o)' => Working(o) /\ proc[o].cell # c
    BY <2>1, MovedType DEF TypeOK, LeftOver, RunnerGone, Working
  <2> QED BY <2>1, <2>2, <2>3 DEF ClaimInv, Terminal, Reached
<1>10. ASSUME NEW p \in Procs, LeftOverWrites(p) \/ LeftOverEnds(p) PROVE ClaimInv'
  <2>1. CASE LeftOverWrites(p)
    <3>1. dir \subseteq dir' /\ UNCHANGED <<driver, proc, cell>>
      BY <2>1 DEF LeftOverWrites
    <3> QED BY <3>1 DEF ClaimInv, Working, Terminal, Reached
  <2>2. CASE LeftOverEnds(p)
    <3>1. UNCHANGED <<driver, dir, cell>>
      BY <2>2 DEF LeftOverEnds, files
    <3>2. (\A o \in Procs : o # p => proc'[o] = proc[o]) /\ proc'[p].pc = "off"
      BY <2>2, EndsType DEF LeftOverEnds
    <3> QED BY <3>1, <3>2 DEF ClaimInv, Working, Terminal, Reached
  <2> QED BY <1>10, <2>1, <2>2
<1>9. ASSUME NEW p \in Procs, RunnerStep(p) PROVE ClaimInv'
  <2> DEFINE c == proc[p].cell
  <2>1. c \in Cells /\ proc[p].pc # "off" /\ UNCHANGED driver
    BY <1>9 DEF TypeOK, RunnerStep, RunnerBegins, RunOpens, EndpointRuns, OfflineRuns, RunRecorded,
       CellFinished
  <2>2. /\ \A o \in Procs : o # p => proc'[o] = proc[o]
        /\ proc'[p].pc = "off" \/ proc'[p].cell = c
    <3>1. ASSUME NEW pc \in {"open", "endpoint", "offline", "record", "finish"}, Goto(p, pc)
          PROVE  (\A o \in Procs : o # p => proc'[o] = proc[o]) /\ proc'[p].cell = c
      BY <2>1, <3>1, GotoType
    <3>2. CASE ~IsLast(proc[p].run) /\ proc' = [proc EXCEPT ![p].pc = "open", ![p].run = proc[p].run + 1]
      BY <2>1, <3>2, NextRunType DEF IsLast
    <3>3. CASE Ends(p)
      BY <3>3, EndsType
    <3> QED BY <1>9, <3>1, <3>2, <3>3 DEF RunnerStep, RunnerBegins, RunOpens, EndpointRuns,
            OfflineRuns, RunRecorded, CellFinished
  <2>3. CASE RunnerBegins(p)
    <3>1. UNCHANGED cell
      BY <2>3 DEF RunnerBegins
    <3>2. CASE Claims(p)
      <4>1. dir' = dir \cup {c} /\ proc'[p].pc = "open" /\ proc'[p].cell = c
        BY <2>1, <2>3, <3>2, GotoType DEF RunnerBegins
      <4>2. c \notin dir /\ ~Terminal(c)
        BY <2>1, <3>2 DEF Claims, ClaimInv
      <4>3. \A o \in Procs : o # p => ~Working(o)
        BY <2>1, <4>2, ReachedOnce DEF ClaimInv, TypeOK, Working
      <4> QED BY <1>1, <2>1, <2>2, <3>1, <4>1, <4>2, <4>3 DEF ClaimInv, Working, Terminal, Reached
    <3>3. CASE ~Claims(p)
      <4>1. UNCHANGED dir /\ proc'[p].pc = "off"
        BY <2>1, <2>3, <3>3, EndsType DEF RunnerBegins
      <4> QED BY <2>1, <2>2, <3>1, <4>1 DEF ClaimInv, Working, Terminal, Reached
    <3> QED BY <3>2, <3>3
  <2>4. CASE RunOpens(p) \/ EndpointRuns(p) \/ OfflineRuns(p) \/ RunRecorded(p)
    <3>1. UNCHANGED <<cell, dir>> /\ Working(p)
      BY <2>4 DEF RunOpens, EndpointRuns, OfflineRuns, RunRecorded, Working, files
    <3> QED BY <2>1, <2>2, <3>1 DEF ClaimInv, Working, Terminal, Reached
  <2>5. CASE CellFinished(p)
    <3>1. /\ UNCHANGED dir /\ proc'[p].pc = "off" /\ Working(p)
          /\ \A d \in Cells : d # c => cell'[d] = cell[d]
      BY <2>1, <2>5, EndsType DEF CellFinished, TypeOK, Working
    <3>2. c \in dir /\ \A o \in Procs : o # p => ~Working(o)
      BY <3>1 DEF ClaimInv
    <3>3. \A o \in Procs : proc'[o].pc # "off" => Reached(proc[o].cell)' /\ proc'[o].cell = proc[o].cell
      BY <1>1, <2>1, <2>2, <3>1 DEF ClaimInv, TypeOK
    <3>4. \A o \in Procs : ~Working(o)'
      BY <2>2, <3>1, <3>2 DEF Working
    <3>5. driver'.pc # "off" => \A i \in 1 .. driver'.at - 1 : i \in DOMAIN Order => Terminal(Order[i])'
      BY <1>1, <2>1, Domains DEF ClaimInv
    <3>6. \A d \in Cells : Terminal(d)' => d \in dir'
      BY <3>1, <3>2 DEF ClaimInv, Terminal
    <3>7. \A o \in Procs : proc'[o].pc # "off" => Reached(proc[o].cell)'
      BY <3>3
    <3> QED BY <3>4, <3>5, <3>6, <3>7 DEF ClaimInv
  <2> QED BY <1>9, <2>3, <2>4, <2>5 DEF RunnerStep
<1> QED BY <1>3, <1>4, <1>5, <1>6, <1>7, <1>8, <1>9, <1>10 DEF Next

\* No more workers are left without their directory than directories were moved.
MovedInv == moves \in Nat /\ IsFiniteSet(Moved) /\ Cardinality(Moved) <= moves

LEMMA MovedInit == Init => MovedInv
<1> SUFFICES ASSUME Init PROVE MovedInv
  OBVIOUS
<1>1. Moved = {} /\ moves = 0
  BY DEF Init, Moved, Idle
<1> QED BY <1>1, FS_EmptySet DEF MovedInv

LEMMA MovedShrinks ==
    ASSUME MovedInv, Moved' \subseteq Moved, moves' = moves
    PROVE  MovedInv'
<1>1. IsFiniteSet(Moved') /\ Cardinality(Moved') <= Cardinality(Moved)
  BY FS_Subset DEF MovedInv
<1>2. Cardinality(Moved') \in Nat /\ Cardinality(Moved) \in Nat
  BY <1>1, FS_CardinalityType DEF MovedInv
<1> QED BY <1>1, <1>2 DEF MovedInv

LEMMA MovedStep == TypeOK /\ ClaimInv /\ MovedInv /\ [Next]_vars => MovedInv'
<1> SUFFICES ASSUME TypeOK, ClaimInv, MovedInv, [Next]_vars PROVE MovedInv'
  OBVIOUS
<1>1. ASSUME UNCHANGED <<proc, moves>> PROVE MovedInv'
  BY <1>1, MovedShrinks DEF Moved
<1>2. ASSUME NEW p \in Procs, UNCHANGED moves,
             \A o \in Procs : o # p => proc'[o] = proc[o], proc'[p].pc # "moved"
      PROVE  MovedInv'
  BY <1>2, MovedShrinks DEF Moved
<1>3. CASE UNCHANGED vars
  BY <1>1, <1>3 DEF vars, faults
<1>4. CASE DriverStart \/ DriverStep
  <2>1. CASE DriverInvokes
    <3>1. PICK p \in Procs : proc' = [proc EXCEPT ![p] = [pc |-> "begin", cell |-> Current, run |-> 1]]
      BY <2>1 DEF DriverInvokes
    <3>2. (\A o \in Procs : o # p => proc'[o] = proc[o]) /\ proc'[p].pc # "moved"
      BY <3>1 DEF TypeOK
    <3> QED BY <1>2, <2>1, <3>2 DEF DriverInvokes, faults
  <2>2. CASE ~DriverInvokes
    BY <1>1, <1>4, <2>2 DEF DriverStart, DriverStep, DriverReuses, DriverRefuses, DriverCollects,
       DriverFinishes, faults
  <2> QED BY <2>1, <2>2
<1>5. ASSUME NEW p \in Procs, RunnerStep(p) PROVE MovedInv'
  <2>1. proc[p].pc # "off" /\ UNCHANGED moves /\ proc[p].run \in Runs
    BY <1>5 DEF TypeOK, Runners, RunnerStep, RunnerBegins, RunOpens, EndpointRuns, OfflineRuns,
       RunRecorded, CellFinished, faults
  <2>2. (\A o \in Procs : o # p => proc'[o] = proc[o]) /\ proc'[p].pc # "moved"
    <3>1. ASSUME NEW pc \in {"open", "endpoint", "offline", "record", "finish"}, Goto(p, pc)
          PROVE  (\A o \in Procs : o # p => proc'[o] = proc[o]) /\ proc'[p].pc # "moved"
      BY <2>1, <3>1, GotoType
    <3>2. CASE ~IsLast(proc[p].run) /\ proc' = [proc EXCEPT ![p].pc = "open", ![p].run = proc[p].run + 1]
      BY <2>1, <3>2, NextRunType DEF IsLast
    <3>3. CASE Ends(p)
      BY <3>3, EndsType
    <3> QED BY <1>5, <3>1, <3>2, <3>3 DEF RunnerStep, RunnerBegins, RunOpens, EndpointRuns,
            OfflineRuns, RunRecorded, CellFinished
  <2> QED BY <1>2, <2>1, <2>2
<1>6. ASSUME NEW q \in Resumers, ResumeStarts(q) \/ ResumeStep(q) PROVE MovedInv'
  BY <1>1, <1>6 DEF ResumeStarts, ResumeStep, ResumeReserves, ResumeRuns, ResumeEvaluates,
     ResumePublishes, faults
<1>7. ASSUME NEW p \in Procs, LeftOverWrites(p) \/ LeftOverEnds(p) PROVE MovedInv'
  BY <1>1, <1>2, <1>7, EndsType DEF LeftOverWrites, LeftOverEnds, faults
<1>8. CASE Kill
  <2>1. UNCHANGED moves
    BY <1>8 DEF Kill
  <2>2. ASSUME NEW p \in Procs, ~RunnerGone(p), Dies(p) PROVE MovedInv'
    BY <1>2, <2>1, <2>2, DiesType DEF RunnerGone
  <2>3. CASE UNCHANGED proc
    BY <1>1, <2>1, <2>3
  <2> QED BY <1>8, <2>2, <2>3 DEF Kill
<1>9. CASE MovePartial
  <2>1. PICK c \in dir : proc' = [p \in Procs |-> IF LeftOver(p) /\ proc[p].cell = c
                                                 THEN [proc[p] EXCEPT !.pc = "moved"] ELSE proc[p]]
    BY <1>9 DEF MovePartial
  <2>2. moves' = moves + 1
    BY <1>9 DEF MovePartial
  <2>3. \A o \in Procs : proc'[o].pc = "moved" => proc[o].pc \in {"left", "moved"}
    BY <2>1, MovedType DEF TypeOK, LeftOver
  <2>4. \A o, q \in Procs : proc[o].pc = "left" /\ proc[q].pc = "left" => o = q
    BY DEF ClaimInv, Working
  <2>5. CASE \A o \in Procs : proc[o].pc # "left"
    <3>1. Moved' \subseteq Moved
      BY <2>3, <2>5 DEF Moved
    <3>2. IsFiniteSet(Moved') /\ Cardinality(Moved') <= Cardinality(Moved)
          /\ Cardinality(Moved') \in Nat /\ Cardinality(Moved) \in Nat
      BY <3>1, FS_Subset, FS_CardinalityType DEF MovedInv
    <3> QED BY <2>2, <3>2 DEF MovedInv
  <2>6. ASSUME NEW p \in Procs, proc[p].pc = "left" PROVE MovedInv'
    <3>1. Moved' \subseteq Moved \cup {p}
      BY <2>3, <2>4, <2>6 DEF Moved
    <3>2. p \notin Moved
      BY <2>6 DEF Moved
    <3>3. /\ IsFiniteSet(Moved \cup {p}) /\ Cardinality(Moved \cup {p}) = Cardinality(Moved) + 1
          /\ Cardinality(Moved) \in Nat
      BY <3>2, FS_AddElement, FS_CardinalityType DEF MovedInv
    <3>4. /\ IsFiniteSet(Moved') /\ Cardinality(Moved') <= Cardinality(Moved \cup {p})
          /\ Cardinality(Moved') \in Nat
      BY <3>1, <3>3, FS_Subset, FS_CardinalityType
    <3> QED BY <2>2, <3>3, <3>4 DEF MovedInv
  <2> QED BY <2>5, <2>6
<1> QED BY <1>3, <1>4, <1>5, <1>6, <1>7, <1>8, <1>9 DEF Next

\* At most one runner or left-over worker is at work in any cell, however often drivers and
\* runners were killed and started again, but for one worker per partial directory that
\* was moved away.
THEOREM OneRunnerWorks == Spec => []OneCellAtATime
<1>1. ClaimInv /\ MovedInv => OneCellAtATime
  <2> SUFFICES ASSUME ClaimInv, MovedInv PROVE OneCellAtATime
    OBVIOUS
  <2>1. \A p, q \in AtWork : p = q
    BY DEF ClaimInv, Working, AtWork
  <2>2. Cardinality({p \in Procs : proc[p].pc = "moved"}) <= moves
    BY DEF MovedInv, Moved
  <2>3. CASE AtWork = {}
    BY <2>2, <2>3, FS_EmptySet DEF OneCellAtATime
  <2>4. ASSUME NEW p \in AtWork PROVE OneCellAtATime
    <3>1. AtWork = {p}
      BY <2>1
    <3>2. Cardinality(AtWork) = 1
      BY <3>1, FS_Singleton
    <3> QED BY <2>2, <3>2 DEF OneCellAtATime
  <2> QED BY <2>3, <2>4
<1> QED BY <1>1, TypeInit, TypeStep, ClaimInit, ClaimStep, MovedInit, MovedStep, PTL DEF Spec
-----------------------------------------------------------------------------
(* The driver                                                               *)

Sound(c) == Terminal(c) /\ ~Recovery(c)

DriverInv ==
    /\ driver.pc = "scan" => \A c \in driver.invoked : Sound(c)
    /\ driver.pc = "wait" => \A c \in driver.invoked \ {Current} : Sound(c)

LEMMA DriverInit == Init => DriverInv
BY DEF Init, DriverInv, Stopped

LEMMA DriverKeeps == TypeOK /\ ClaimInv /\ DriverInv /\ [Next]_vars => DriverInv'
<1> SUFFICES ASSUME TypeOK, ClaimInv, DriverInv, [Next]_vars PROVE DriverInv'
  OBVIOUS
<1>1. driver \in Drivers /\ driver.at >= 1 /\ driver.invoked \subseteq Cells
  BY DEF TypeOK, Drivers
<1>2. \A c \in Cells : Sound(c) => Sound(c)'
  BY TerminalCellsAreFrozen DEF Frozen, Sound, Terminal, Recovery
<1>3. CASE UNCHANGED driver
  BY <1>1, <1>2, <1>3 DEF DriverInv, Current
<1>4. CASE DriverStart
  <2>1. PICK persist \in BOOLEAN : driver' = [Stopped EXCEPT !.pc = "scan", !.persist = persist]
    BY <1>4 DEF DriverStart
  <2>2. driver'.pc = "scan" /\ driver'.invoked = {}
    BY <2>1, StartType
  <2> QED BY <2>2 DEF DriverInv
<1>5. CASE driver' = Stopped
  BY <1>5 DEF DriverInv, Stopped
<1>6. CASE DriverReuses
  <2>1. driver'.pc = "scan" /\ driver'.invoked = driver.invoked
    BY <1>1, <1>6 DEF DriverReuses, Advance, Drivers
  <2> QED BY <1>1, <1>2, <1>6, <2>1 DEF DriverInv, DriverReuses
<1>7. CASE DriverInvokes
  <2>1. driver.pc = "scan" /\ Current \in Cells
    BY <1>1, <1>7, Domains DEF DriverInvokes, Current, Drivers
  <2>2. PICK p \in Procs :
            driver' = [driver EXCEPT !.pc = "wait", !.child = p, !.invoked = @ \cup {Current}]
    BY <1>7 DEF DriverInvokes
  <2>3. driver'.pc = "wait" /\ driver'.at = driver.at /\ driver'.invoked = driver.invoked \cup {Current}
    BY <1>1, <2>2 DEF Drivers
  <2>4. Current' = Current
    BY <2>3 DEF Current
  <2> QED BY <1>1, <1>2, <2>1, <2>3, <2>4 DEF DriverInv
<1>8. CASE DriverCollects /\ MayContinue(Current)
  <2>1. driver'.pc = "scan" /\ driver'.invoked = driver.invoked
    BY <1>1, <1>8 DEF DriverCollects, Advance, Drivers
  <2>2. Sound(Current) /\ Current \in Cells
    BY <1>8, Domains DEF MayContinue, Sound, Terminal, DriverCollects, TypeOK, Current
  <2>3. \A c \in driver.invoked : Sound(c)
    BY <1>8, <2>2 DEF DriverInv, DriverCollects
  <2> QED BY <1>1, <1>2, <2>1, <2>3 DEF DriverInv
<1>9. driver' = Stopped \/ UNCHANGED driver \/ DriverStart \/ DriverReuses \/ DriverInvokes
      \/ (DriverCollects /\ MayContinue(Current))
  BY DEF Next, DriverStep, DriverRefuses, DriverCollects, DriverFinishes, Kill, MovePartial, vars,
     RunnerStep, RunnerBegins, RunOpens, EndpointRuns, OfflineRuns, RunRecorded, CellFinished,
     LeftOverWrites, LeftOverEnds, ResumeStarts, ResumeStep, ResumeReserves, ResumeRuns, ResumeEvaluates, ResumePublishes
<1> QED BY <1>3, <1>4, <1>5, <1>6, <1>7, <1>8, <1>9

\* A driver that has seen a cell require recovery runs no other cell.
THEOREM RecoveryIsHeeded == Spec => []RecoveryStopsTheDriver
<1>1. DriverInv => RecoveryStopsTheDriver
  BY DEF DriverInv, RecoveryStopsTheDriver, Sound
<1> QED BY <1>1, TypeInit, TypeStep, ClaimInit, ClaimStep, DriverInit, DriverKeeps, PTL DEF Spec
-----------------------------------------------------------------------------
(* What a cell records                                                      *)

First == Warmups + 1

\* The measured runs of a cell agree, as far as they are recorded ok and the first has
\* its answers.
RecordInv ==
    \A c \in Cells : \A r \in Runs : record[c][r] = "ok" =>
        /\ EndpointOk(c, r) /\ offline[c][r] = "ok"
        /\ r \in MeasuredRuns /\ offline[c][First] = "ok" =>
               /\ Answers[endpoint[c][r]] = Answers[endpoint[c][First]]
               /\ c \in CCells => endpoint[c][r] = endpoint[c][First]

\* Where the runner of a cell is, and what is recorded of the cell.
RunnerAt(p) ==
    LET c == proc[p].cell  r == proc[p].run  pc == proc[p].pc IN
    /\ pc = "begin" => r = 1
    /\ Working(p) =>
           /\ \A s \in Runs : s > r => record[c][s] = "none"
           /\ \A s \in Runs : s < r => record[c][s] # "none"
           /\ pc # "finish" => record[c][r] = "none"
           /\ pc = "offline" => EndpointOk(c, r)
           /\ pc = "record" => \/ EndpointOk(c, r) /\ offline[c][r] # "none"
                               \/ ~EndpointOk(c, r) /\ endpoint[c][r] \in EndpointFailures
           /\ pc = "finish" => \/ \A s \in Runs : record[c][s] # "none"
                               \/ \E s \in Runs : record[c][s] \notin {"none", "ok"}

RunsInv ==
    /\ \A p \in Procs : RunnerAt(p)
    /\ \A c \in Cells \ dir : \A r \in Runs : record[c][r] = "none"
    /\ \A c \in Cells :
           /\ cell[c] = "ok" => \A r \in Runs : record[c][r] = "ok"
           /\ cell[c] = "incomplete" => \E r \in Runs : record[c][r] \notin {"none", "ok"}

\* The run later ones are compared with is the first of the measured ones, if its offline
\* work succeeded.
LEMMA ComparedWithTheFirst ==
    ASSUME NEW c \in Cells, offline[c][First] = "ok"
    PROVE  /\ FirstMeasured(c) = First
           /\ \A r \in MeasuredRuns : IsFirstMeasured(c, r) => r = First
<1>1. First \in MeasuredRuns /\ \A r \in MeasuredRuns : r \in Nat /\ r >= First
  BY RunnerAssumption DEF First, MeasuredRuns
<1>2. First \in Nat
  BY RunnerAssumption DEF First
<1>3. \A r \in MeasuredRuns : IsFirstMeasured(c, r) <=> r = First
  BY <1>1, <1>2 DEF IsFirstMeasured
<1> QED BY <1>1, <1>3 DEF FirstMeasured

\* A recorded run has a status; ok says what RecordInv requires.
LEMMA StatusOfARun ==
    ASSUME TypeOK, NEW c \in Cells, NEW r \in Runs,
           \/ EndpointOk(c, r) /\ offline[c][r] # "none"
           \/ ~EndpointOk(c, r) /\ endpoint[c][r] \in EndpointFailures
    PROVE  /\ RunStatus(c, r) # "none"
           /\ ~EndpointOk(c, r) => RunStatus(c, r) # "ok"
           /\ RunStatus(c, r) = "ok" =>
                  /\ EndpointOk(c, r) /\ offline[c][r] = "ok"
                  /\ r \in MeasuredRuns /\ offline[c][First] = "ok" =>
                         /\ Answers[endpoint[c][r]] = Answers[endpoint[c][First]]
                         /\ c \in CCells => endpoint[c][r] = endpoint[c][First]
<1>1. \A f \in EndpointFailures : f \notin {"none", "ok"}
  BY RunnerAssumption
<1>2. RunStatus(c, r) # "none" /\ (~EndpointOk(c, r) => RunStatus(c, r) # "ok")
  BY <1>1 DEF RunStatus, EndpointOk
<1>3. RunStatus(c, r) = "ok" => EndpointOk(c, r) /\ offline[c][r] = "ok"
  BY <1>1 DEF RunStatus, EndpointOk
<1>4. ASSUME RunStatus(c, r) = "ok", r \in MeasuredRuns, offline[c][First] = "ok"
      PROVE  /\ Answers[endpoint[c][r]] = Answers[endpoint[c][First]]
             /\ c \in CCells => endpoint[c][r] = endpoint[c][First]
  <2>1. CASE IsFirstMeasured(c, r)
    BY <1>4, <2>1, ComparedWithTheFirst
  <2>2. CASE ~IsFirstMeasured(c, r)
    BY <1>3, <1>4, <2>2, ComparedWithTheFirst DEF RunStatus
  <2> QED BY <2>1, <2>2
<1> QED BY <1>2, <1>3, <1>4

\* Steps that leave the runners' files alone, and the runners but for an end or a start
\* in a fresh cell.
LEMMA RecordsStay ==
    ASSUME TypeOK, RecordInv, RunsInv, UNCHANGED <<endpoint, offline, record, cell>>,
           dir \subseteq dir',
           \A p \in Procs : \/ proc'[p] = proc[p]
                            \/ proc'[p].pc \in {"off", "moved"}
                            \/ proc'[p].pc = "begin" /\ proc'[p].run = 1
                            \/ /\ proc'[p].pc \in {"left", "endpoint"} /\ Working(p) /\ proc[p].pc # "finish"
                               /\ proc'[p].cell = proc[p].cell /\ proc'[p].run = proc[p].run
    PROVE  RecordInv' /\ RunsInv'
<1>1. RecordInv'
  BY DEF RecordInv, EndpointOk
<1>2. ASSUME NEW p \in Procs PROVE RunnerAt(p)'
  <2>1. CASE proc'[p] = proc[p]
    BY <2>1 DEF RunsInv, RunnerAt, Working, EndpointOk
  <2>2. CASE proc'[p].pc \in {"off", "moved"} \/ (proc'[p].pc = "begin" /\ proc'[p].run = 1)
    BY <2>2 DEF RunnerAt, Working
  <2>3. CASE /\ proc'[p].pc \in {"left", "endpoint"} /\ Working(p) /\ proc[p].pc # "finish"
             /\ proc'[p].cell = proc[p].cell /\ proc'[p].run = proc[p].run
    BY <2>3 DEF RunsInv, RunnerAt, Working
  <2> QED BY <2>1, <2>2, <2>3
<1> QED BY <1>1, <1>2 DEF RunsInv

LEMMA RecordInit == Init => RecordInv /\ RunsInv
BY DEF Init, RecordInv, RunsInv, RunnerAt, NoResult, Idle, Working

LEMMA RecordRunner ==
    ASSUME TypeOK, ClaimInv, RecordInv, RunsInv, NEW p \in Procs, RunnerStep(p)
    PROVE  RecordInv' /\ RunsInv'
<1> DEFINE c == proc[p].cell  r == proc[p].run
<1>1. proc[p].pc # "off" /\ c \in Cells /\ r \in Runs /\ r \in Nat
  BY Domains DEF TypeOK, Runners, RunnerStep, RunnerBegins, RunOpens, EndpointRuns, OfflineRuns,
     RunRecorded, CellFinished
<1>2. ASSUME Working(p), NEW o \in Procs, o # p PROVE ~Working(o)
  BY <1>2 DEF ClaimInv
<1>3. ASSUME NEW o \in Procs, o # p, proc'[o] = proc[o], ~Working(o) PROVE RunnerAt(o)'
  BY <1>3 DEF RunsInv, RunnerAt, Working
<1>4. First \in Runs /\ First \in MeasuredRuns /\ \A s \in MeasuredRuns : s >= First
  BY Domains, RunnerAssumption DEF First, MeasuredRuns
<1>5. CASE RunnerBegins(p)
  <2>1. CASE Claims(p)
    <3>1. dir' = dir \cup {c} /\ Goto(p, "open") /\ UNCHANGED <<endpoint, offline, record, cell>>
      BY <1>5, <2>1 DEF RunnerBegins
    <3>2. r = 1 /\ \A s \in Runs : record[c][s] = "none"
      BY <1>1, <1>5, <2>1 DEF RunsInv, RunnerAt, RunnerBegins, Claims
    <3>3. (\A o \in Procs : o # p => proc'[o] = proc[o]) /\ proc'[p].pc = "open"
          /\ proc'[p].cell = c /\ proc'[p].run = r
      BY <1>1, <3>1, GotoType
    <3>4. RunnerAt(p)'
      <4>0. \A s \in Runs : s \in Nat \ {0}
        BY Domains
      <4>1. \A s \in Runs : ~(s < r)
        <5>1. r = 1
          BY <3>2
        <5> HIDE DEF c, r
        <5> QED BY <4>0, <5>1
      <4>2. \A s \in Runs : record'[c][s] = "none"
        BY <3>1, <3>2
      <4> HIDE DEF c, r
      <4> QED BY <1>1, <3>3, <4>1, <4>2 DEF RunnerAt
    <3>5. \A o \in Procs : o # p => RunnerAt(o)'
      BY <3>1, <3>3 DEF RunsInv, RunnerAt, Working, EndpointOk
    <3>6. RecordInv'
      BY <3>1 DEF RecordInv, EndpointOk
    <3> QED BY <3>1, <3>4, <3>5, <3>6 DEF RunsInv
  <2>2. CASE ~Claims(p)
    BY <1>1, <1>5, <2>2, EndsType, RecordsStay DEF RunnerBegins
  <2> QED BY <2>1, <2>2
<1>10. CASE RunOpens(p)
  <2>1. UNCHANGED <<endpoint, offline, record, cell, dir>> /\ Working(p) /\ proc[p].pc # "finish"
    BY <1>10 DEF RunOpens, files, Working
  <2>2. /\ \A o \in Procs : o # p => proc'[o] = proc[o]
        /\ \/ proc'[p].pc = "off"
           \/ proc'[p].pc = "endpoint" /\ proc'[p].cell = c /\ proc'[p].run = r
    BY <1>1, <1>10, GotoType, EndsType DEF RunOpens
  <2> QED BY <2>1, <2>2, RecordsStay
<1>6. CASE EndpointRuns(p)
  <2>1. PICK result \in Yields[c][r] \cup EndpointFailures :
            /\ endpoint' = [endpoint EXCEPT ![c][r] = result]
            /\ Goto(p, IF result \in Artifacts THEN "offline" ELSE "record")
    BY <1>6 DEF EndpointRuns
  <2>2. result \in Artifacts \cup EndpointFailures
    BY <1>1, RunnerAssumption
  <2>3. UNCHANGED <<dir, offline, record, cell>> /\ Working(p)
    BY <1>6 DEF EndpointRuns, Working
  <2>4. /\ \A o \in Procs : o # p => proc'[o] = proc[o]
        /\ proc'[p].pc = IF result \in Artifacts THEN "offline" ELSE "record"
        /\ proc'[p].cell = c /\ proc'[p].run = r
    BY <1>1, <2>1, GotoType
  <2>5. \A d \in Cells : \A s \in Runs :
            endpoint'[d][s] = IF d = c /\ s = r THEN result ELSE endpoint[d][s]
    BY <1>1, <2>1 DEF TypeOK
  <2>7. /\ record[c][r] = "none" /\ \A s \in Runs : s > r => record[c][s] = "none"
        /\ \A s \in Runs : s < r => record[c][s] # "none"
    BY <1>1, <1>6, <2>3 DEF RunsInv, RunnerAt, EndpointRuns
  <2>6. RunnerAt(p)'
    <3>1. endpoint'[c][r] = result
      BY <1>1, <2>5
    <3>2. CASE result \in Artifacts
      BY <1>1, <2>3, <2>4, <2>7, <3>1, <3>2 DEF RunnerAt, EndpointOk
    <3>3. CASE result \notin Artifacts
      BY <1>1, <2>2, <2>3, <2>4, <2>7, <3>1, <3>3 DEF RunnerAt, EndpointOk
    <3> QED BY <3>2, <3>3
  <2>8. RecordInv'
    <3> SUFFICES ASSUME NEW d \in Cells, NEW s \in Runs, record[d][s] = "ok"
                 PROVE  /\ EndpointOk(d, s)' /\ offline[d][s] = "ok"
                        /\ s \in MeasuredRuns /\ offline[d][First] = "ok" =>
                             /\ Answers[endpoint'[d][s]] = Answers[endpoint'[d][First]]
                             /\ d \in CCells => endpoint'[d][s] = endpoint'[d][First]
      BY <2>3 DEF RecordInv
    <3>1. ~(d = c /\ s = r) /\ (d = c => s <= r)
      BY <1>1, <2>7, Domains
    <3>2. s \in MeasuredRuns => ~(d = c /\ First = r)
      BY <1>1, <1>4, <3>1, Domains
    <3> QED BY <1>4, <2>5, <3>1, <3>2 DEF RecordInv, EndpointOk
  <2> QED BY <1>2, <1>3, <2>3, <2>4, <2>6, <2>8 DEF RunsInv
<1>7. CASE OfflineRuns(p)
  <2>1. PICK result \in {"ok"} \cup OfflineFailures : offline' = [offline EXCEPT ![c][r] = result]
    BY <1>7 DEF OfflineRuns
  <2>2. result # "none"
    BY RunnerAssumption
  <2>3. UNCHANGED <<dir, endpoint, record, cell>> /\ Working(p) /\ EndpointOk(c, r)
    BY <1>7 DEF OfflineRuns, Working, RunsInv, RunnerAt
  <2>4. /\ \A o \in Procs : o # p => proc'[o] = proc[o]
        /\ proc'[p].pc = "record" /\ proc'[p].cell = c /\ proc'[p].run = r
    BY <1>1, <1>7, GotoType DEF OfflineRuns
  <2>5. \A d \in Cells : \A s \in Runs :
            offline'[d][s] = IF d = c /\ s = r THEN result ELSE offline[d][s]
    BY <1>1, <2>1 DEF TypeOK, Results
  <2>7. /\ record[c][r] = "none" /\ \A s \in Runs : s > r => record[c][s] = "none"
        /\ \A s \in Runs : s < r => record[c][s] # "none"
    BY <1>1, <1>7, <2>3 DEF RunsInv, RunnerAt, OfflineRuns
  <2>6. RunnerAt(p)'
    <3>1. offline'[c][r] # "none" /\ endpoint'[c][r] \in Artifacts
      BY <1>1, <2>2, <2>3, <2>5 DEF EndpointOk
    <3> QED BY <1>1, <2>3, <2>4, <2>7, <3>1 DEF RunnerAt, EndpointOk
  <2>8. RecordInv'
    <3> SUFFICES ASSUME NEW d \in Cells, NEW s \in Runs, record[d][s] = "ok"
                 PROVE  /\ EndpointOk(d, s) /\ offline'[d][s] = "ok"
                        /\ s \in MeasuredRuns /\ offline'[d][First] = "ok" =>
                             /\ Answers[endpoint[d][s]] = Answers[endpoint[d][First]]
                             /\ d \in CCells => endpoint[d][s] = endpoint[d][First]
      BY <2>3 DEF RecordInv, EndpointOk
    <3>1. ~(d = c /\ s = r) /\ (d = c => s <= r)
      BY <1>1, <2>7, Domains
    <3>2. s \in MeasuredRuns => ~(d = c /\ First = r)
      BY <1>1, <1>4, <3>1, Domains
    <3> QED BY <1>4, <2>5, <3>1, <3>2 DEF RecordInv, EndpointOk
  <2> QED BY <1>2, <1>3, <2>3, <2>4, <2>6, <2>8 DEF RunsInv
<1>8. CASE RunRecorded(p)
  <2> DEFINE status == RunStatus(c, r)
  <2>1. /\ record' = [record EXCEPT ![c][r] = status]
        /\ UNCHANGED <<dir, endpoint, offline, cell>> /\ Working(p) /\ proc[p].pc = "record"
    BY <1>8 DEF RunRecorded, Working
  <2>2. /\ status # "none" /\ (~EndpointOk(c, r) => status # "ok")
        /\ status = "ok" =>
               /\ EndpointOk(c, r) /\ offline[c][r] = "ok"
               /\ r \in MeasuredRuns /\ offline[c][First] = "ok" =>
                      /\ Answers[endpoint[c][r]] = Answers[endpoint[c][First]]
                      /\ c \in CCells => endpoint[c][r] = endpoint[c][First]
    BY <1>1, <2>1, StatusOfARun DEF RunsInv, RunnerAt
  <2>3. \A d \in Cells : \A s \in Runs :
            record'[d][s] = IF d = c /\ s = r THEN status ELSE record[d][s]
    BY <1>1, <2>1 DEF TypeOK
  <2> HIDE DEF status
  <2>4. RecordInv'
    BY <2>1, <2>2, <2>3 DEF RecordInv, EndpointOk
  <2>5. /\ \A s \in Runs : s > r => record[c][s] = "none"
        /\ \A s \in Runs : s < r => record[c][s] # "none"
    BY <2>1 DEF RunsInv, RunnerAt
  <2>6. (\A o \in Procs : o # p => proc'[o] = proc[o]) /\ RunnerAt(p)'
    <3>1. CASE (Stops(c, r, status) \/ IsLast(r)) /\ Goto(p, "finish")
      <4>1. (\A o \in Procs : o # p => proc'[o] = proc[o]) /\ proc'[p].pc = "finish"
            /\ proc'[p].cell = c /\ proc'[p].run = r
        BY <1>1, <3>1, GotoType
      <4>2. (\A s \in Runs : record'[c][s] # "none") \/ \E s \in Runs : record'[c][s] \notin {"none", "ok"}
        <5>1. CASE Stops(c, r, status)
          <6>1. status \notin {"none", "ok"}
            BY <2>2, <5>1 DEF Stops
          <6> QED BY <1>1, <2>3, <6>1
        <5>2. CASE IsLast(r)
          <6>1. \A s \in Runs : s <= r
            BY <1>1, <5>2, RunnerAssumption DEF IsLast, Runs
          <6>2. \A s \in Runs : s < r \/ s = r
            <7>1. r \in Int /\ \A s \in Runs : s \in Int
              BY <1>1, Domains
            <7> QED BY <6>1, <7>1
          <6> QED BY <1>1, <2>2, <2>3, <2>5, <6>2
        <5> QED BY <3>1, <5>1, <5>2
      <4> QED BY <1>1, <2>2, <2>3, <2>5, <4>1, <4>2, Domains DEF RunnerAt
    <3>2. CASE ~IsLast(r) /\ proc' = [proc EXCEPT ![p].pc = "open", ![p].run = r + 1]
      <4>1. (\A o \in Procs : o # p => proc'[o] = proc[o]) /\ proc'[p].pc = "open"
            /\ proc'[p].cell = c /\ proc'[p].run = r + 1 /\ r + 1 \in Runs
        BY <1>1, <3>2, NextRunType DEF IsLast
      <4>2. \A s \in Runs : /\ s > r + 1 => s > r /\ s # r
                            /\ s < r + 1 => s < r \/ s = r
                            /\ r + 1 > r /\ r + 1 # r
        <5>1. \A n, m \in Nat : /\ n > m + 1 => n > m /\ n # m
                                /\ n < m + 1 => n < m \/ n = m
                                /\ m + 1 > m /\ m + 1 # m
          OBVIOUS
        <5> QED BY <1>1, <5>1, Domains
      <4> QED BY <1>1, <2>2, <2>3, <2>5, <4>1, <4>2 DEF RunnerAt
    <3> QED BY <1>8, <3>1, <3>2 DEF RunRecorded, status
  <2>7. \A d \in Cells \ dir : d # c
    BY <2>1 DEF ClaimInv
  <2>8. \A d \in Cells : cell[d] # "none" => d # c
    BY <2>1 DEF ClaimInv, Terminal
  <2>9. \A o \in Procs : RunnerAt(o)'
    BY <1>2, <1>3, <2>1, <2>6
  <2>10. \A d \in Cells \ dir' : \A s \in Runs : record'[d][s] = "none"
    BY <2>1, <2>3, <2>7 DEF RunsInv
  <2>11. \A d \in Cells :
           /\ cell'[d] = "ok" => \A s \in Runs : record'[d][s] = "ok"
           /\ cell'[d] = "incomplete" => \E s \in Runs : record'[d][s] \notin {"none", "ok"}
    BY <2>1, <2>3, <2>8 DEF RunsInv
  <2> QED BY <2>4, <2>9, <2>10, <2>11 DEF RunsInv
<1>9. CASE CellFinished(p)
  <2>1. /\ cell' = [cell EXCEPT ![c] = CellStatus(c)] /\ UNCHANGED <<dir, endpoint, offline, record>>
        /\ Working(p) /\ proc[p].pc = "finish"
    BY <1>9 DEF CellFinished, Working
  <2>2. (\A o \in Procs : o # p => proc'[o] = proc[o]) /\ proc'[p].pc = "off"
    BY <1>1, <1>9, EndsType DEF CellFinished
  <2>3. \/ \A s \in Runs : record[c][s] # "none"
        \/ \E s \in Runs : record[c][s] \notin {"none", "ok"}
    BY <2>1 DEF RunsInv, RunnerAt
  <2>4. /\ CellStatus(c) = "ok" => \A s \in Runs : record[c][s] = "ok"
        /\ CellStatus(c) = "incomplete" => \E s \in Runs : record[c][s] \notin {"none", "ok"}
    BY <2>3 DEF CellStatus
  <2>5. \A d \in Cells :
           /\ cell'[d] = "ok" => \A s \in Runs : record[d][s] = "ok"
           /\ cell'[d] = "incomplete" => \E s \in Runs : record[d][s] \notin {"none", "ok"}
    BY <1>1, <2>1, <2>4 DEF RunsInv, TypeOK
  <2>6. RunnerAt(p)'
    BY <2>2 DEF RunnerAt, Working
  <2>7. RecordInv'
    BY <2>1 DEF RecordInv, EndpointOk
  <2> QED BY <1>2, <1>3, <2>1, <2>2, <2>5, <2>6, <2>7 DEF RunsInv
<1> QED BY <1>5, <1>6, <1>7, <1>8, <1>9, <1>10 DEF RunnerStep

LEMMA RecordStep == TypeOK /\ ClaimInv /\ RecordInv /\ RunsInv /\ [Next]_vars => RecordInv' /\ RunsInv'
<1> SUFFICES ASSUME TypeOK, ClaimInv, RecordInv, RunsInv, [Next]_vars PROVE RecordInv' /\ RunsInv'
  OBVIOUS
<1>1. CASE UNCHANGED vars
  BY <1>1, RecordsStay DEF vars, files
<1>2. CASE DriverStart \/ DriverStep
  <2>1. CASE DriverInvokes
    <3>1. PICK p \in Procs :
              /\ proc[p].pc = "off"
              /\ proc' = [proc EXCEPT ![p] = [pc |-> "begin", cell |-> Current, run |-> 1]]
      BY <2>1 DEF DriverInvokes
    <3>2. \A o \in Procs : \/ proc'[o] = proc[o]
                           \/ proc'[o].pc = "begin" /\ proc'[o].run = 1
      BY <3>1 DEF TypeOK
    <3> QED BY <2>1, <3>2, RecordsStay DEF DriverInvokes, files
  <2>2. CASE ~DriverInvokes
    BY <1>2, <2>2, RecordsStay DEF DriverStart, DriverStep, DriverReuses, DriverRefuses,
       DriverCollects, DriverFinishes, files
  <2> QED BY <2>1, <2>2
<1>3. ASSUME NEW p \in Procs, RunnerStep(p) PROVE RecordInv' /\ RunsInv'
  BY <1>3, RecordRunner
<1>4. ASSUME NEW q \in Resumers, ResumeStarts(q) \/ ResumeStep(q) PROVE RecordInv' /\ RunsInv'
  BY <1>4, RecordsStay DEF ResumeStarts, ResumeStep, ResumeReserves, ResumeRuns, ResumeEvaluates,
     ResumePublishes, files
<1>5. CASE Kill
  <2>1. CASE UNCHANGED proc
    BY <1>5, <2>1, RecordsStay DEF Kill, files
  <2>2. ASSUME NEW p \in Procs, ~RunnerGone(p), Dies(p) PROVE RecordInv' /\ RunsInv'
    <3>1. UNCHANGED <<endpoint, offline, record, cell, dir>>
      BY <1>5 DEF Kill, files
    <3>2. /\ \A o \in Procs : o # p => proc'[o] = proc[o]
          /\ \/ proc'[p].pc = "off"
             \/ /\ proc'[p].pc = "left" /\ Working(p) /\ proc[p].pc # "finish"
                /\ proc'[p].cell = proc[p].cell /\ proc'[p].run = proc[p].run
      BY <2>2, DiesType DEF RunnerGone, Working
    <3> QED BY <3>1, <3>2, RecordsStay
  <2> QED BY <1>5, <2>1, <2>2 DEF Kill
<1>6. CASE MovePartial
  <2>1. PICK c \in dir : /\ cell[c] = "none" /\ \A p \in Procs : RunnerGone(p) \/ proc[p].cell # c
                         /\ dir' = dir \ {c}
                         /\ endpoint' = [endpoint EXCEPT ![c] = NoResult]
                         /\ offline' = [offline EXCEPT ![c] = NoResult]
                         /\ record' = [record EXCEPT ![c] = NoResult]
                         /\ proc' = [p \in Procs |-> IF LeftOver(p) /\ proc[p].cell = c
                                                     THEN [proc[p] EXCEPT !.pc = "moved"] ELSE proc[p]]
    BY <1>6 DEF MovePartial
  <2>2. UNCHANGED cell
    BY <1>6 DEF MovePartial
  <2>3. /\ \A s \in Runs : record'[c][s] = "none"
        /\ \A d \in Cells : d # c => /\ record'[d] = record[d] /\ offline'[d] = offline[d]
                                     /\ endpoint'[d] = endpoint[d]
    BY <2>1 DEF TypeOK, NoResult
  <2>4. RecordInv'
    BY <2>3 DEF RecordInv, EndpointOk
  <2>5. ASSUME NEW p \in Procs PROVE RunnerAt(p)'
    <3>1. /\ proc'[p].pc = "moved" \/ proc'[p] = proc[p]
          /\ Working(p)' => proc'[p] = proc[p] /\ proc[p].cell # c /\ proc[p].cell \in Cells
      BY <2>1, MovedType DEF Working, TypeOK, LeftOver, RunnerGone
    <3>2. CASE proc'[p].pc = "moved"
      BY <3>2 DEF RunnerAt, Working
    <3>3. CASE proc'[p] = proc[p]
      BY <2>2, <2>3, <3>1, <3>3 DEF RunsInv, RunnerAt, Working, EndpointOk
    <3> QED BY <3>1, <3>2, <3>3
  <2>6. \A d \in Cells \ dir' : \A s \in Runs : record'[d][s] = "none"
    BY <2>1, <2>3 DEF RunsInv
  <2>7. \A d \in Cells : /\ cell'[d] = "ok" => \A s \in Runs : record'[d][s] = "ok"
                         /\ cell'[d] = "incomplete" => \E s \in Runs : record'[d][s] \notin {"none", "ok"}
    BY <2>1, <2>2, <2>3 DEF RunsInv
  <2> QED BY <2>4, <2>5, <2>6, <2>7 DEF RunsInv
<1>7. ASSUME NEW p \in Procs, LeftOverWrites(p) \/ LeftOverEnds(p) PROVE RecordInv' /\ RunsInv'
  <2>1. UNCHANGED <<endpoint, offline, record, cell>> /\ dir \subseteq dir'
    BY <1>7 DEF LeftOverWrites, LeftOverEnds, files
  <2>2. \A o \in Procs : proc'[o] = proc[o] \/ proc'[o].pc = "off"
    BY <1>7, EndsType DEF LeftOverWrites, LeftOverEnds
  <2> QED BY <2>1, <2>2, RecordsStay
<1> QED BY <1>1, <1>2, <1>3, <1>4, <1>5, <1>6, <1>7 DEF Next

\* An ok cell.json means that every run finished and that the measured runs agree; any
\* other one names what went wrong.
THEOREM CellsTellTheTruth == Spec => []CellVerdictIsTrue
<1>1. RecordInv /\ RunsInv => CellVerdictIsTrue
  <2> SUFFICES ASSUME RecordInv, RunsInv, NEW c \in Cells
               PROVE  /\ cell[c] = "ok" =>
                             /\ \A r \in Runs : EndpointOk(c, r) /\ offline[c][r] = "ok"
                             /\ \A r, q \in MeasuredRuns :
                                    /\ Answers[endpoint[c][r]] = Answers[endpoint[c][q]]
                                    /\ c \in CCells => endpoint[c][r] = endpoint[c][q]
                      /\ cell[c] = "incomplete" => Failures(c) # {}
    BY DEF CellVerdictIsTrue
  <2>1. ASSUME cell[c] = "ok"
        PROVE  /\ \A r \in Runs : EndpointOk(c, r) /\ offline[c][r] = "ok"
               /\ \A r \in MeasuredRuns :
                      /\ Answers[endpoint[c][r]] = Answers[endpoint[c][First]]
                      /\ c \in CCells => endpoint[c][r] = endpoint[c][First]
    BY <2>1, Domains DEF RecordInv, RunsInv, First
  <2>2. cell[c] = "incomplete" => Failures(c) # {}
    BY DEF RunsInv, Failures
  <2> QED BY <2>1, <2>2
<1> QED BY <1>1, TypeInit, TypeStep, ClaimInit, ClaimStep, RecordInit, RecordStep, PTL DEF Spec
-----------------------------------------------------------------------------
(* Resumptions                                                              *)

\* Every run of the cell is usable, and the measured ones agree.
AllOk(c) ==
    /\ \A r \in Runs : EndpointOk(c, r) /\ Effective(c, r)
    /\ \A r, q \in MeasuredRuns :
           /\ Answers[endpoint[c][r]] = Answers[endpoint[c][q]]
           /\ c \in CCells => endpoint[c][r] = endpoint[c][q]

\* Resumption q writes into attempt k of cell c.
Writes(q, c, k) ==
    /\ resume[q].pc \in {"run", "publish"} /\ resume[q].attempt # 0
    /\ resume[q].cell = c /\ resume[q].attempt = k

ResumeInv ==
    /\ \A q \in Resumers : resume[q].pc # "off" => Terminal(resume[q].cell)
    /\ \A q \in Resumers, c \in Cells : \A k \in DOMAIN attempts[c] : Writes(q, c, k) =>
           /\ attempts[c][k].manifest = "none"
           /\ \A r \in resume[q].pending : attempts[c][k].results[r] = "none"
           /\ \A o \in Resumers : Writes(o, c, k) => o = q
    /\ \A q \in Resumers :
           /\ resume[q].pc \in {"publish", "consolidate"} /\ resume[q].verdict = "ok" =>
                  AllOk(resume[q].cell)
           /\ resume[q].pc = "done" /\ resume[q].verdict = "ok" =>
                  \/ cell[resume[q].cell] = "ok"
                  \/ \E k \in DOMAIN attempts[resume[q].cell] :
                         attempts[resume[q].cell][k].manifest = "ok"
    /\ \A c \in Cells : \A k \in DOMAIN attempts[c] : attempts[c][k].manifest = "ok" =>
           Terminal(c) /\ AllOk(c)

LEMMA VerdictOk ==
    ASSUME NEW c \in Cells, Verdict(c) = "ok"
    PROVE  AllOk(c)
<1>1. ~\E r \in Runs : ~EndpointOk(c, r) \/ ~Effective(c, r)
  BY DEF Verdict
<1>2. \A r, q \in MeasuredRuns : Answers[endpoint[c][r]] = Answers[endpoint[c][q]]
  BY <1>1 DEF Verdict
<1>3. ASSUME c \in CCells, NEW r \in MeasuredRuns, NEW q \in MeasuredRuns
      PROVE  endpoint[c][r] = endpoint[c][q]
  <2>1. [a \in Artifacts |-> a][endpoint[c][r]] = [a \in Artifacts |-> a][endpoint[c][q]]
    BY <1>1, <1>2, <1>3 DEF Verdict
  <2>2. endpoint[c][r] \in Artifacts /\ endpoint[c][q] \in Artifacts
    BY <1>1, Domains DEF EndpointOk
  <2> QED BY <2>1, <2>2
<1> QED BY <1>1, <1>2, <1>3 DEF AllOk

\* No step takes back what a terminal cell has: a resumption overwrites no ok result.
LEMMA AllOkStays ==
    ASSUME NEW c \in Cells, Frozen(c), AllOk(c),
           DOMAIN attempts[c] \subseteq DOMAIN attempts'[c],
           \A k \in DOMAIN attempts[c] : \A r \in Runs :
               attempts[c][k].results[r] = "ok" => attempts'[c][k].results[r] = "ok"
    PROVE  AllOk(c)'
<1>1. \A r \in Runs : EndpointOk(c, r)' /\ Effective(c, r)'
  BY DEF AllOk, Frozen, EndpointOk, Effective
<1> QED BY <1>1 DEF AllOk, Frozen

LEMMA ResumeInit == Init => ResumeInv
BY DEF Init, ResumeInv, Resting, Writes

\* Steps of the others.
LEMMA ResumeStays ==
    ASSUME TypeOK, ClaimInv, ResumeInv, [Next]_vars, UNCHANGED attempts,
           \A q \in Resumers : resume'[q] = resume[q] \/ resume'[q].pc = "off"
    PROVE  ResumeInv'
<1>1. \A c \in Cells : Terminal(c) => Frozen(c) /\ Terminal(c)'
  BY TerminalCellsAreFrozen DEF Frozen, Terminal
<1>2. \A c \in Cells : Terminal(c) /\ AllOk(c) => AllOk(c)'
  BY <1>1, AllOkStays
<1>3. \A q \in Resumers, c \in Cells : \A k : Writes(q, c, k)' => Writes(q, c, k) /\ resume'[q] = resume[q]
  BY DEF Writes
<1>4. ASSUME NEW q \in Resumers, resume[q].pc # "off", resume'[q] = resume[q]
      PROVE  /\ Terminal(resume[q].cell)'
             /\ resume[q].pc \in {"publish", "consolidate"} /\ resume[q].verdict = "ok" =>
                    AllOk(resume[q].cell)'
             /\ resume[q].pc = "done" /\ resume[q].verdict = "ok" =>
                    \/ cell'[resume[q].cell] = "ok"
                    \/ \E k \in DOMAIN attempts[resume[q].cell] :
                           attempts[resume[q].cell][k].manifest = "ok"
  <2> DEFINE c == resume[q].cell
  <2>1. c \in Cells /\ Terminal(c)
    BY <1>4 DEF TypeOK, ResumeInv
  <2>2. \A d \in Cells : d = c => Terminal(d)' /\ (AllOk(d) => AllOk(d)') /\ cell'[d] = cell[d]
    BY <1>1, <1>2, <2>1 DEF Frozen
  <2> QED BY <1>4, <2>1, <2>2 DEF ResumeInv
<1> QED BY <1>1, <1>2, <1>3, <1>4 DEF ResumeInv

\* The four parts of ResumeInv for one resumption, and for one cell.
Resumption(q) ==
    /\ resume[q].pc # "off" => Terminal(resume[q].cell)
    /\ resume[q].pc \in {"publish", "consolidate"} /\ resume[q].verdict = "ok" =>
           AllOk(resume[q].cell)
    /\ resume[q].pc = "done" /\ resume[q].verdict = "ok" =>
           \/ cell[resume[q].cell] = "ok"
           \/ \E k \in DOMAIN attempts[resume[q].cell] :
                  attempts[resume[q].cell][k].manifest = "ok"

AttemptsOf(c) ==
    \A k \in DOMAIN attempts[c] :
        /\ attempts[c][k].manifest = "ok" => Terminal(c) /\ AllOk(c)
        /\ \A q \in Resumers : Writes(q, c, k) =>
               /\ attempts[c][k].manifest = "none"
               /\ \A r \in resume[q].pending : attempts[c][k].results[r] = "none"
               /\ \A o \in Resumers : Writes(o, c, k) => o = q

LEMMA ResumeParts ==
    ResumeInv <=> (\A q \in Resumers : Resumption(q)) /\ (\A c \in Cells : AttemptsOf(c))
BY DEF ResumeInv, Resumption, AttemptsOf

\* A step of one resumption leaves the others as they are.
LEMMA OthersResumeOn ==
    ASSUME TypeOK, ResumeInv, NEW q \in Resumers, UNCHANGED <<cell, endpoint, offline, record>>,
           \A o \in Resumers : o # q => resume'[o] = resume[o],
           \A c \in Cells : DOMAIN attempts[c] \subseteq DOMAIN attempts'[c],
           \A c \in Cells : \A k \in DOMAIN attempts[c] :
               /\ attempts[c][k].manifest = "ok" => attempts'[c][k].manifest = "ok"
               /\ \A r \in Runs : attempts[c][k].results[r] = "ok" => attempts'[c][k].results[r] = "ok"
    PROVE  /\ \A c \in Cells : /\ Terminal(c) => Terminal(c)'
                               /\ AllOk(c) => AllOk(c)'
           /\ \A o \in Resumers : o # q => Resumption(o)'
<1>1. ASSUME NEW c \in Cells
      PROVE  (Terminal(c) => Terminal(c)') /\ (AllOk(c) => AllOk(c)') /\ cell'[c] = cell[c]
  <2>1. Frozen(c)
    BY DEF Frozen
  <2>2. AllOk(c) => AllOk(c)'
    BY <2>1, AllOkStays
  <2> QED BY <2>2 DEF Terminal
<1>2. ASSUME NEW o \in Resumers, o # q PROVE Resumption(o)'
  <2>1. CASE resume[o].pc = "off"
    BY <1>2, <2>1 DEF Resumption
  <2>2. CASE resume[o].pc # "off"
    <3> DEFINE d == resume[o].cell
    <3>1. d \in Cells /\ resume'[o] = resume[o] /\ Resumption(o)
      BY <1>2, <2>2, ResumeParts DEF TypeOK
    <3>2. \A c \in Cells : c = d => (Terminal(c) => Terminal(c)') /\ (AllOk(c) => AllOk(c)') /\ cell'[c] = cell[c]
      BY <1>1
    <3>3. (\E k \in DOMAIN attempts[d] : attempts[d][k].manifest = "ok") =>
             \E k \in DOMAIN attempts'[d] : attempts'[d][k].manifest = "ok"
      BY <3>1
    <3> QED BY <3>1, <3>2, <3>3 DEF Resumption
  <2> QED BY <2>1, <2>2
<1> QED BY <1>1, <1>2

LEMMA ResumeSteps ==
    ASSUME TypeOK, ResumeInv, NEW q \in Resumers, ResumeStarts(q) \/ ResumeStep(q)
    PROVE  ResumeInv'
<1>0. UNCHANGED <<cell, endpoint, offline, record>>
  BY DEF ResumeStarts, ResumeStep, ResumeReserves, ResumeRuns, ResumeEvaluates, ResumePublishes, files
<1>1. \A o \in Resumers : o # q => resume'[o] = resume[o]
  BY DEF TypeOK, ResumeStarts, ResumeStep, ResumeReserves, Reserves, ResumeRuns, ResumeEvaluates,
     ResumePublishes
<1>2. \A o \in Resumers, c \in Cells : \A k : o # q => (Writes(o, c, k)' <=> Writes(o, c, k))
  BY <1>1 DEF Writes
<1>3. \A o \in Resumers : \A c \in Cells : \A k : Writes(o, c, k) => k \in DOMAIN attempts[c]
  BY DEF Writes, TypeOK, Owns
<1>a. (\A o \in Resumers : Resumption(o)) /\ (\A d \in Cells : AttemptsOf(d))
  BY ResumeParts
<1>b. ASSUME \A o \in Resumers : Resumption(o)', \A d \in Cells : AttemptsOf(d)' PROVE ResumeInv'
  BY <1>b DEF ResumeInv, Resumption, AttemptsOf
\* If the step writes nothing and opens no attempt, only Resumption(q) is left to show.
<1>4. ASSUME UNCHANGED attempts,
             \A c \in Cells : \A k : Writes(q, c, k)' => Writes(q, c, k) /\ resume'[q].pending = resume[q].pending
      PROVE  (\A o \in Resumers : o # q => Resumption(o)') /\ (\A c \in Cells : AttemptsOf(c)')
             /\ \A c \in Cells : (Terminal(c) => Terminal(c)') /\ (AllOk(c) => AllOk(c)')
  <2>1. /\ \A c \in Cells : (Terminal(c) => Terminal(c)') /\ (AllOk(c) => AllOk(c)')
        /\ \A o \in Resumers : o # q => Resumption(o)'
    BY <1>0, <1>1, <1>4, OthersResumeOn
  <2>2. \A c \in Cells : AttemptsOf(c)'
    BY <1>1, <1>2, <1>4, <1>a, <2>1 DEF AttemptsOf
  <2> QED BY <2>1, <2>2
<1>5. CASE ResumeStarts(q)
  <2>1. PICK c \in Resumable : cell[c] # "none" /\ resume' = [resume EXCEPT ![q] =
            [pc |-> IF Pending(c) = {} THEN "run" ELSE "reserve", cell |-> c,
             pending |-> Pending(c), attempt |-> 0, verdict |-> "none"]]
    BY <1>5 DEF ResumeStarts
  <2>2. /\ resume'[q].cell = c /\ resume'[q].attempt = 0 /\ resume'[q].verdict = "none"
        /\ UNCHANGED attempts
    BY <1>5, <2>1 DEF TypeOK, ResumeStarts, files
  <2>3. \A d \in Cells : \A k : ~Writes(q, d, k)'
    BY <2>2 DEF Writes
  <2>4. Resumption(q)'
    BY <1>0, <2>1, <2>2 DEF Resumption, Terminal
  <2> QED BY <1>4, <1>b, <2>2, <2>3, <2>4
<1>6. ASSUME NEW pc \in {"run", "publish"}, resume[q].pc # "off", Reserves(q, pc), ResumeReserves(q),
             pc = "publish" => resume[q].pc = "consolidate"
      PROVE  ResumeInv'
  <2> DEFINE c == resume[q].cell  n == Len(attempts[c]) + 1
  <2>1. /\ resume' = [resume EXCEPT ![q] = [resume[q] EXCEPT !.pc = pc, !.attempt = n]]
        /\ \A d \in Cells : d # c => attempts'[d] = attempts[d]
        /\ DOMAIN attempts'[c] = DOMAIN attempts[c] \cup {n} /\ n \notin DOMAIN attempts[c]
        /\ attempts'[c][n] = Attempt /\ \A i \in DOMAIN attempts[c] : attempts'[c][i] = attempts[c][i]
    BY <1>6, ReserveType, ZenonT(60)
  <2>2. /\ resume'[q].pc = pc /\ resume'[q].cell = c /\ resume'[q].attempt = n
        /\ resume'[q].verdict = resume[q].verdict /\ resume'[q].pending = resume[q].pending
        /\ c \in Cells /\ resume[q].pending \subseteq Runs
    BY <1>6, <2>1 DEF TypeOK, Resumptions
  <2>3. Attempt.manifest = "none" /\ \A r \in Runs : Attempt.results[r] = "none"
    BY DEF Attempt, NoResult
  <2> HIDE DEF n
  <2>4. \A d \in Cells : /\ DOMAIN attempts[d] \subseteq DOMAIN attempts'[d]
                         /\ \A i \in DOMAIN attempts[d] : attempts'[d][i] = attempts[d][i]
    BY <2>1, <2>2
  <2>5. /\ \A d \in Cells : (Terminal(d) => Terminal(d)') /\ (AllOk(d) => AllOk(d)')
        /\ \A o \in Resumers : o # q => Resumption(o)'
    BY <1>0, <1>1, <2>4, OthersResumeOn
  <2>6. Resumption(q)'
    <3>1. \A d \in Cells : d = c => /\ Terminal(d) /\ Terminal(d)'
                                    /\ pc = "publish" /\ resume[q].verdict = "ok" => AllOk(d)'
      BY <1>6, <1>a, <2>2, <2>5 DEF Resumption
    <3> QED BY <2>2, <3>1 DEF Resumption
  <2>7. \A d \in Cells : \A k : Writes(q, d, k)' => d = c /\ k = n
    BY <2>2 DEF Writes
  <2>8. ASSUME NEW d \in Cells, NEW k \in DOMAIN attempts'[d],
               NEW o \in Resumers, Writes(o, d, k)'
        PROVE  /\ attempts'[d][k].manifest = "none"
               /\ \A r \in resume'[o].pending : attempts'[d][k].results[r] = "none"
               /\ \A m \in Resumers : Writes(m, d, k)' => m = o
    <3>1. CASE d = c /\ k = n
      <4>1. \A m \in Resumers : Writes(m, d, k)' => m = q
        BY <1>2, <1>3, <2>1, <2>2, <3>1
      <4> QED BY <2>1, <2>2, <2>3, <2>8, <3>1, <4>1
    <3>2. CASE ~(d = c /\ k = n)
      <4>1. k \in DOMAIN attempts[d] /\ attempts'[d][k] = attempts[d][k]
        BY <2>1, <2>2, <2>8, <3>2
      <4>2. o # q /\ Writes(o, d, k) /\ resume'[o] = resume[o]
        BY <1>1, <1>2, <2>7, <2>8, <3>2
      <4>3. \A m \in Resumers : Writes(m, d, k)' => Writes(m, d, k)
        BY <1>2, <2>7, <3>2
      <4> QED BY <1>a, <4>1, <4>2, <4>3 DEF AttemptsOf
    <3> QED BY <3>1, <3>2
  <2>9. ASSUME NEW d \in Cells, NEW k \in DOMAIN attempts'[d], attempts'[d][k].manifest = "ok"
        PROVE  Terminal(d)' /\ AllOk(d)'
    <3>1. k \in DOMAIN attempts[d] /\ attempts'[d][k] = attempts[d][k]
      BY <2>1, <2>2, <2>3, <2>9
    <3> QED BY <1>a, <2>5, <2>9, <3>1 DEF AttemptsOf
  <2> QED BY <1>b, <2>5, <2>6, <2>8, <2>9 DEF AttemptsOf
<1>7. CASE ResumeReserves(q)
  BY <1>6, <1>7 DEF ResumeReserves
<1>8. CASE ResumeRuns(q)
  <2> DEFINE c == resume[q].cell  k == resume[q].attempt
  <2>1. PICK r \in resume[q].pending, result \in {"ok"} \cup OfflineFailures :
            /\ attempts' = [attempts EXCEPT ![c][k].results[r] = result]
            /\ resume' = [resume EXCEPT ![q].pending = @ \ {r}]
    BY <1>8 DEF ResumeRuns
  <2>2. /\ c \in Cells /\ k \in DOMAIN attempts[c] /\ Writes(q, c, k)
        /\ resume[q].pc = "run" /\ resume[q].pending \subseteq Runs /\ r \in Runs
    BY <1>8, <2>1 DEF TypeOK, Owns, ResumeRuns, Resumptions, Writes
  <2>3. /\ \A d \in Cells : DOMAIN attempts'[d] = DOMAIN attempts[d]
        /\ \A d \in Cells : \A i \in DOMAIN attempts[d] :
               /\ attempts'[d][i].manifest = attempts[d][i].manifest
               /\ \A s \in Runs : attempts'[d][i].results[s] =
                      IF d = c /\ i = k /\ s = r THEN result ELSE attempts[d][i].results[s]
    <3>1. SetsResult(c, k, r, result)
      BY <2>1 DEF SetsResult
    <3> HIDE DEF c, k
    <3>2. c \in Cells /\ k \in DOMAIN attempts[c] /\ r \in Runs
      BY <2>2
    <3> QED BY <3>1, <3>2, ResultType
  <2>4. attempts[c][k].results[r] = "none" /\ \A o \in Resumers : Writes(o, c, k) => o = q
    BY <1>a, <2>1, <2>2 DEF AttemptsOf
  <2>5. /\ \A d \in Cells : (Terminal(d) => Terminal(d)') /\ (AllOk(d) => AllOk(d)')
        /\ \A o \in Resumers : o # q => Resumption(o)'
    BY <1>0, <1>1, <2>3, <2>4, OthersResumeOn
  <2>6. /\ resume'[q].pc = "run" /\ resume'[q].cell = c /\ resume'[q].attempt = k
        /\ resume'[q].pending = resume[q].pending \ {r}
    BY <2>1, <2>2 DEF TypeOK, Resumptions
  <2>7. Resumption(q)'
    <3>1. \A d \in Cells : d = c => Terminal(d)'
      BY <1>a, <2>2, <2>5 DEF Resumption
    <3> QED BY <2>2, <2>6, <3>1 DEF Resumption
  <2>8. \A o \in Resumers, d \in Cells : \A i : Writes(o, d, i)' <=> Writes(o, d, i)
    BY <1>2, <2>2, <2>6 DEF Writes
  <2>9. ASSUME NEW d \in Cells, NEW i \in DOMAIN attempts[d], NEW o \in Resumers, Writes(o, d, i)
        PROVE  /\ attempts[d][i].manifest = "none"
               /\ \A s \in resume'[o].pending : attempts'[d][i].results[s] = "none"
               /\ \A m \in Resumers : Writes(m, d, i) => m = o
    <3>1. /\ attempts[d][i].manifest = "none" /\ \A m \in Resumers : Writes(m, d, i) => m = o
          /\ \A s \in resume[o].pending : attempts[d][i].results[s] = "none"
      BY <1>a, <2>9 DEF AttemptsOf
    <3>2. CASE o = q
      <4>1. d = c /\ i = k
        BY <2>9, <3>2 DEF Writes
      <4> QED BY <2>2, <2>3, <2>6, <3>1, <3>2, <4>1, SMTT(20)
    <3>3. CASE o # q
      <4>1. ~(d = c /\ i = k) /\ resume'[o] = resume[o] /\ resume[o].pending \subseteq Runs
        BY <1>1, <2>2, <2>4, <2>9, <3>3 DEF TypeOK, Resumptions
      <4> QED BY <2>3, <3>1, <4>1
    <3> QED BY <3>2, <3>3
  <2>10. \A d \in Cells : AttemptsOf(d)'
    BY <1>a, <2>3, <2>5, <2>8, <2>9 DEF AttemptsOf
  <2> QED BY <1>b, <2>5, <2>7, <2>10
<1>9. CASE ResumeEvaluates(q)
  <2> DEFINE c == resume[q].cell
             next == IF resume[q].attempt # 0 THEN "publish"
                     ELSE IF Consolidates(c) THEN "consolidate" ELSE "done"
  <2>1. /\ resume'[q].pc = next /\ resume'[q].cell = c /\ resume'[q].verdict = Verdict(c)
        /\ resume'[q].attempt = resume[q].attempt /\ resume'[q].pending = resume[q].pending
        /\ UNCHANGED attempts /\ resume[q].pc = "run" /\ c \in Cells
    BY <1>9 DEF TypeOK, Resumptions, ResumeEvaluates, files
  <2>2. \A d \in Cells : \A k : Writes(q, d, k)' => Writes(q, d, k)
    BY <2>1 DEF Writes
  <2>3. /\ \A o \in Resumers : o # q => Resumption(o)'
        /\ \A d \in Cells : AttemptsOf(d)' /\ (Terminal(d) => Terminal(d)') /\ (AllOk(d) => AllOk(d)')
    BY <1>4, <2>1, <2>2
  <2>4. Terminal(c) /\ (Verdict(c) = "ok" => AllOk(c))
    BY <1>a, <2>1, VerdictOk DEF Resumption
  <2>5. Verdict(c) = "ok" /\ next = "done" => cell[c] = "ok" \/ \E k \in DOMAIN attempts[c] : attempts[c][k].manifest = "ok"
    BY DEF Consolidates
  <2>6. \A d \in Cells : d = c => Terminal(d)' /\ (Verdict(c) = "ok" => AllOk(d)')
    BY <2>3, <2>4
  <2> HIDE DEF next
  <2>7. Resumption(q)'
    BY <1>0, <2>1, <2>5, <2>6 DEF Resumption
  <2> QED BY <1>b, <2>3, <2>7
<1>10. CASE ResumePublishes(q)
  <2> DEFINE c == resume[q].cell  k == resume[q].attempt
  <2>1. /\ c \in Cells /\ k \in DOMAIN attempts[c] /\ Writes(q, c, k) /\ resume[q].verdict \in Verdicts
        /\ resume[q].pc = "publish" /\ attempts' = [attempts EXCEPT ![c][k].manifest = resume[q].verdict]
    BY <1>10 DEF TypeOK, Owns, ResumePublishes, Resumptions, Writes
  <2>2. /\ \A d \in Cells : DOMAIN attempts'[d] = DOMAIN attempts[d]
        /\ \A d \in Cells : \A i \in DOMAIN attempts[d] :
               /\ attempts'[d][i].results = attempts[d][i].results
               /\ attempts'[d][i].manifest =
                      IF d = c /\ i = k THEN resume[q].verdict ELSE attempts[d][i].manifest
    <3>1. SetsManifest(c, k, resume[q].verdict)
      BY <2>1 DEF SetsManifest
    <3>2. c \in Cells /\ k \in DOMAIN attempts[c] /\ resume[q].verdict \in Verdicts
      BY <2>1
    <3> HIDE DEF c, k
    <3> QED BY <3>1, <3>2, ManifestType
  <2>3. attempts[c][k].manifest = "none" /\ \A o \in Resumers : Writes(o, c, k) => o = q
    BY <1>a, <2>1 DEF AttemptsOf
  <2>4. /\ \A d \in Cells : (Terminal(d) => Terminal(d)') /\ (AllOk(d) => AllOk(d)')
        /\ \A o \in Resumers : o # q => Resumption(o)'
    BY <1>0, <1>1, <2>2, <2>3, OthersResumeOn
  <2>5. /\ resume'[q].pc = "done" /\ resume'[q].cell = c /\ resume'[q].verdict = resume[q].verdict
    BY <1>10, <2>1 DEF TypeOK, Resumptions, ResumePublishes
  <2>6. Terminal(c) /\ (resume[q].verdict = "ok" => AllOk(c))
    BY <1>a, <2>1 DEF Resumption
  <2>7. Resumption(q)'
    <3>1. \A d \in Cells : d = c => Terminal(d)'
      BY <2>1, <2>4, <2>6
    <3>2. resume[q].verdict = "ok" => attempts'[c][k].manifest = "ok" /\ k \in DOMAIN attempts'[c]
      BY <2>1, <2>2
    <3> QED BY <2>1, <2>5, <3>1, <3>2 DEF Resumption
  <2>8. \A d \in Cells : \A i : ~Writes(q, d, i)'
    BY <2>5 DEF Writes
  <2>9. ASSUME NEW d \in Cells, NEW i \in DOMAIN attempts'[d] PROVE
               /\ attempts'[d][i].manifest = "ok" => Terminal(d)' /\ AllOk(d)'
               /\ \A o \in Resumers : Writes(o, d, i)' =>
                      /\ attempts'[d][i].manifest = "none"
                      /\ \A r \in resume'[o].pending : attempts'[d][i].results[r] = "none"
                      /\ \A m \in Resumers : Writes(m, d, i)' => m = o
    <3>1. i \in DOMAIN attempts[d]
      BY <2>2, <2>9
    <3>2. CASE d = c /\ i = k
      <4>1. \A o \in Resumers : ~Writes(o, d, i)'
        BY <1>2, <2>3, <2>8, <3>2
      <4> QED BY <2>2, <2>4, <2>6, <3>1, <3>2, <4>1
    <3>3. CASE ~(d = c /\ i = k)
      BY <1>1, <1>2, <1>a, <2>2, <2>4, <2>8, <3>1, <3>3 DEF AttemptsOf
    <3> QED BY <3>2, <3>3
  <2>10. \A d \in Cells : AttemptsOf(d)'
    BY <2>9 DEF AttemptsOf
  <2> QED BY <1>b, <2>4, <2>7, <2>10
<1> QED BY <1>5, <1>7, <1>8, <1>9, <1>10 DEF ResumeStep

LEMMA ResumeKeeps == TypeOK /\ ClaimInv /\ ResumeInv /\ [Next]_vars => ResumeInv'
<1> SUFFICES ASSUME TypeOK, ClaimInv, ResumeInv, [Next]_vars PROVE ResumeInv'
  OBVIOUS
<1>1. ASSUME NEW q \in Resumers, ResumeStarts(q) \/ ResumeStep(q) PROVE ResumeInv'
  BY <1>1, ResumeSteps
<1>2. CASE UNCHANGED <<attempts, resume>>
  BY <1>2, ResumeStays
<1>3. CASE Kill
  BY <1>3, ResumeStays DEF TypeOK, Kill, files, Resting
<1> QED
  BY <1>1, <1>2, <1>3 DEF Next, DriverStart, DriverStep, DriverReuses, DriverRefuses, DriverInvokes,
     DriverCollects, DriverFinishes, RunnerStep, RunnerBegins, RunOpens, EndpointRuns, OfflineRuns,
     RunRecorded, CellFinished, LeftOverWrites, LeftOverEnds, MovePartial, vars, files

\* A resume.json that says ok tells the truth about the cell ever after, whatever other
\* resumptions write or where they die; and a resumption with the verdict ok leaves one.
THEOREM ResumptionsTellTheTruth == Spec => []OkResumeIsTrue
<1>1. ResumeInv => OkResumeIsTrue
  BY DEF ResumeInv, OkResumeIsTrue, AllOk
<1> QED BY <1>1, TypeInit, TypeStep, ClaimInit, ClaimStep, ResumeInit, ResumeKeeps, PTL DEF Spec

LEMMA NatOrder ==
    \E R : IsWellFoundedOn(R, Nat) /\ \A x, y \in Nat : (<<y, x>> \in R) <=> y < x
<1> DEFINE Less(a, b) == a < b
           R == OpToRel(Less, Nat)
<1>1. IsWellFoundedOn(R, Nat)
  BY NatLessThanWellFounded
<1>2. \A x, y \in Nat : (<<y, x>> \in R) <=> y < x
  BY DEF OpToRel
<1> HIDE DEF R
<1> QED BY <1>1, <1>2

LEMMA NatMin ==
    ASSUME NEW T \in SUBSET Nat, T # {}
    PROVE  \E x \in T : \A y \in T : x <= y
<1>1. PICK R : IsWellFoundedOn(R, Nat) /\ \A x, y \in Nat : (<<y, x>> \in R) <=> y < x
  BY NatOrder
<1>2. \E x \in T : \A y \in T : ~(<<y, x>> \in R)
  BY <1>1, WFMin
<1>3. PICK x \in T : \A y \in T : ~(<<y, x>> \in R)
  BY <1>2
<1>4. ASSUME NEW y \in T PROVE x <= y
  <2>1. x \in Nat /\ y \in Nat /\ ~(y < x)
    BY <1>1, <1>3
  <2> QED BY <2>1
<1> QED BY <1>4

LEMMA NumbersHaveMax ==
    ASSUME NEW S, IsFiniteSet(S), S \subseteq Int, S # {}
    PROVE  \E m \in S : \A x \in S : x <= m
<1> DEFINE Bad(T) == IsFiniteSet(T) /\ T \subseteq Int /\ T # {} /\ ~\E m \in T : \A x \in T : x <= m
           Sizes == {n \in Nat : \E T : Bad(T) /\ Cardinality(T) = n}
<1> SUFFICES ASSUME Sizes # {} PROVE FALSE
  <2>1. Cardinality(S) \in Nat
    BY FS_CardinalityType
  <2> QED BY <2>1
<1>1. PICK n \in Sizes : \A k \in Sizes : n <= k
  <2>1. Sizes \in SUBSET Nat
    OBVIOUS
  <2> HIDE DEF Sizes
  <2> QED BY <2>1, NatMin
<1>2. PICK T : Bad(T) /\ Cardinality(T) = n
  BY <1>1
<1>3. PICK a \in T : TRUE
  BY <1>2
<1> DEFINE U == T \ {a}
<1>4. /\ IsFiniteSet(U) /\ Cardinality(U) = n - 1 /\ U \subseteq Int /\ n \in Nat
      /\ Cardinality(U) \in Nat
  BY <1>1, <1>2, <1>3, FS_RemoveElement, FS_CardinalityType
<1>5. CASE U = {}
  BY <1>2, <1>3, <1>5
<1>6. CASE U # {}
  <2>1. ~Bad(U)
    <3>1. Cardinality(U) \notin Sizes
      <4> HIDE DEF Sizes, U
      <4> QED BY <1>1, <1>4
    <3> HIDE DEF Bad, U
    <3> QED BY <1>4, <3>1
  <2>2. PICK m \in U : \A x \in U : x <= m
    BY <1>4, <1>6, <2>1
  <2>3. \E k \in {a, m} : \A x \in T : x <= k
    <3>1. a \in Int /\ m \in Int
      BY <1>2, <1>3
    <3>2. CASE a <= m
      BY <2>2, <3>2
    <3>3. CASE m <= a
      <4>1. \A x \in U : x \in Int /\ x <= m
        BY <1>4, <2>2
      <4>2. \A x \in U : x <= a
        BY <3>1, <3>3, <4>1
      <4> QED BY <3>1, <4>2
    <3> QED BY <3>1, <3>2, <3>3
  <2> QED BY <1>2, <1>3, <2>3
<1> QED BY <1>5, <1>6

InOrder(s) == \A i, j \in DOMAIN s : i < j => s[i] < s[j]

LEMMA NumbersHaveAnOrder ==
    ASSUME NEW S, IsFiniteSet(S), S \subseteq Int
    PROVE  \E s \in [1 .. Cardinality(S) -> S] : InOrder(s)
<1> DEFINE Good(T) == \E s \in [1 .. Cardinality(T) -> T] : InOrder(s)
           Sizes == {n \in Nat : \E T : IsFiniteSet(T) /\ T \subseteq Int /\ Cardinality(T) = n /\ ~Good(T)}
<1> SUFFICES ASSUME Sizes # {} PROVE FALSE
  <2>1. Cardinality(S) \in Nat
    BY FS_CardinalityType
  <2> HIDE DEF Good
  <2>2. Good(S)
    BY <2>1
  <2> QED BY <2>2 DEF Good
<1>1. PICK n \in Sizes : \A k \in Sizes : n <= k
  <2>1. Sizes \in SUBSET Nat
    OBVIOUS
  <2> HIDE DEF Sizes
  <2> QED BY <2>1, NatMin
<1>2. PICK T : IsFiniteSet(T) /\ T \subseteq Int /\ Cardinality(T) = n /\ ~Good(T)
  BY <1>1
<1>3. T # {}
  <2>1. ASSUME T = {} PROVE Good(T)
    <3>1. Cardinality(T) = 0
      BY <2>1, FS_EmptySet
    <3>2. << >> \in [1 .. 0 -> {}] /\ InOrder(<< >>)
      BY DEF InOrder
    <3> QED BY <2>1, <3>1, <3>2
  <2> QED BY <1>2, <2>1
<1>4. PICK m \in T : \A x \in T : x <= m
  BY <1>2, <1>3, NumbersHaveMax
<1> DEFINE U == T \ {m}
<1>5. /\ IsFiniteSet(U) /\ Cardinality(U) = n - 1 /\ U \subseteq Int /\ n \in Nat
      /\ n - 1 \in Nat
  <2>1. IsFiniteSet(U) /\ Cardinality(U) = n - 1
    BY <1>2, <1>4, FS_RemoveElement
  <2>2. Cardinality(U) \in Nat
    BY <2>1, FS_CardinalityType
  <2> QED BY <1>1, <1>2, <2>1, <2>2
<1>6. Good(U)
  <2> HIDE DEF Good, U
  <2>1. n - 1 \notin Sizes
    <3> HIDE DEF Sizes
    <3> QED BY <1>1, <1>5
  <2> QED BY <1>5, <2>1
<1>7. PICK r \in [1 .. n - 1 -> U] : InOrder(r)
  BY <1>5, <1>6
<1> DEFINE s == [i \in 1 .. n |-> IF i = n THEN m ELSE r[i]]
<1>8. \A i \in 1 .. n : i = n \/ i \in 1 .. n - 1
  BY <1>5
<1>9. \A i \in 1 .. n - 1 : r[i] \in T /\ r[i] \in Int /\ r[i] < m
  <2>1. \A x \in U : x \in Int /\ x <= m /\ x # m /\ m \in Int
    BY <1>2, <1>4
  <2>2. \A x \in U : x \in Int /\ x < m
    BY <2>1
  <2> QED BY <1>7, <2>2
<1>10. s \in [1 .. n -> T]
  BY <1>4, <1>8, <1>9
<1>11. InOrder(s)
  <2> SUFFICES ASSUME NEW i \in 1 .. n, NEW j \in 1 .. n, i < j PROVE s[i] < s[j]
    BY DEF InOrder
  <2>1. i \in 1 .. n - 1 /\ s[i] = r[i]
    BY <1>5
  <2>2. CASE j = n
    BY <1>9, <2>1, <2>2
  <2>3. CASE j # n
    <3>1. j \in 1 .. n - 1 /\ s[j] = r[j]
      BY <1>8, <2>3
    <3> QED BY <1>7, <2>1, <3>1 DEF InOrder
  <2> QED BY <2>2, <2>3
<1> QED BY <1>2, <1>10, <1>11

\* The sorted members of a finite set of numbers are all of them.
LEMMA SortedIs ==
    ASSUME NEW S, IsFiniteSet(S), S \subseteq Int
    PROVE  /\ Sorted(S) \in [1 .. Cardinality(S) -> S] /\ Sorted(S) \in Seq(S)
           /\ DOMAIN Sorted(S) = 1 .. Cardinality(S) /\ Cardinality(S) \in Nat
           /\ Len(Sorted(S)) = Cardinality(S)
           /\ InOrder(Sorted(S))
           /\ ToSet(Sorted(S)) = S
<1> DEFINE n == Cardinality(S)
           s == Sorted(S)
<1>1. n \in Nat
  BY FS_CardinalityType
<1>2. s \in [1 .. n -> S] /\ InOrder(s)
  BY NumbersHaveAnOrder DEF Sorted, InOrder
<1> HIDE DEF s
<1>3. s \in Seq(S) /\ Len(s) = n
  BY <1>1, <1>2
<1>4. s \in Injection(1 .. n, S)
  <2> SUFFICES ASSUME NEW i \in 1 .. n, NEW j \in 1 .. n, s[i] = s[j] PROVE i = j
    BY <1>2 DEF Injection, IsInjective
  <2>1. s[i] \in Int
    BY <1>2
  <2>2. ~(s[i] < s[j]) /\ ~(s[j] < s[i])
    BY <2>1
  <2>3. ~(i < j) /\ ~(j < i)
    BY <1>2, <2>2 DEF InOrder
  <2> QED BY <1>1, <2>3
<1>5. IsFiniteSet(1 .. n) /\ Cardinality(1 .. n) = n
  BY <1>1, FS_Interval
<1>6. s \in Surjection(1 .. n, S)
  <2> HIDE DEF n
  <2> QED BY <1>4, <1>5, FS_Injection DEF n
<1>7. ToSet(s) = S
  BY <1>2, <1>6 DEF ToSet, Surjection
<1> QED BY <1>1, <1>2, <1>3, <1>7 DEF s

LEMMA MinIs ==
    ASSUME NEW S, IsFiniteSet(S), S \subseteq Int, S # {}
    PROVE  Min(S) \in S /\ \A x \in S : Min(S) <= x
<1> DEFINE s == Sorted(S)
           n == Cardinality(S)
<1>1. n \in Nat /\ s \in [1 .. n -> S] /\ InOrder(s) /\ ToSet(s) = S
  BY SortedIs
<1> HIDE DEF s, n
<1>2. n # 0
  BY <1>1, FS_EmptySet DEF n
<1>3. 1 \in 1 .. n
  BY <1>1, <1>2
<1>4. s[1] \in S /\ \A x \in S : s[1] <= x
  <2>1. ASSUME NEW x \in S PROVE s[1] <= x
    <3>1. PICK i \in 1 .. n : s[i] = x
      BY <1>1 DEF ToSet
    <3>2. s[1] \in Int /\ x \in Int
      BY <1>1, <1>3
    <3>3. i = 1 \/ 1 < i
      BY <1>1
    <3> QED BY <1>1, <1>3, <3>1, <3>2, <3>3 DEF InOrder
  <2> QED BY <1>1, <1>3, <2>1
<1> QED BY <1>4 DEF Min

-----------------------------------------------------------------------------
(* CircuitCompiler.                                                          *)

\* A set of nodes that holds the children of its members.
Closed(c, T) == T \subseteq DOMAIN c /\ \A n \in T : Kids(c, n) \subseteq T

IsTable(c) == IsFiniteSet(DOMAIN c) /\ \A n \in DOMAIN c : c[n].kids \in Seq(DOMAIN c)

\* Nodes below which there is no cycle.
Ranked(c, T) == Closed(c, T) /\ \A n \in T : n \notin Cone(c, Kids(c, n))

\* The expanded entries of the stack lead to all entries above them, which they differ
\* from; they are the nodes being visited, and have no diagram yet; their children have
\* one, or an entry above.
Opened(s) == {i \in DOMAIN s : s[i][2]}

LedTo(s, c, known, i) ==
    /\ s[i][1] \notin known
    /\ \A j \in DOMAIN s : i <= j => s[j][1] \in Cone(c, {s[i][1]})
    /\ \A j \in DOMAIN s : i < j => s[j][1] # s[i][1]
    /\ \A k \in Kids(c, s[i][1]) : k \in known \/ \E j \in DOMAIN s : i < j /\ s[j][1] = k

PathInv ==
    /\ stack \in Seq((DOMAIN circ) \X BOOLEAN)
    /\ \A i \in DOMAIN stack : stack[i][1] \in Cone(circ, RootSet)
    /\ visiting = {stack[i][1] : i \in Opened(stack)}
    /\ \A i \in Opened(stack) : LedTo(stack, circ, DOMAIN memo, i)

\* Roots that have been compiled, in this manager or in one of their own, reach no cycle.
SearchInv ==
    /\ mode \in {"shared", "per-root"}
    /\ todo \in Seq(DOMAIN roots) /\ (stack # << >> => todo # << >>)
    /\ Ranked(circ, DOMAIN memo)
    /\ \A key \in DOMAIN roots :
           (\A i \in DOMAIN todo : todo[i] # key) => Acyclic(circ, {roots[key]})
    /\ PathInv

TableInv ==
    /\ IsTable(circ) /\ RootSet \subseteq DOMAIN circ
    /\ IsFiniteSet(DOMAIN roots) /\ DOMAIN roots \subseteq Int

CompilerInv ==
    /\ source \in Sources
    /\ phase \in {"read", "merge", "prepare"} => stack = << >> /\ visiting = {} /\ memo = << >>
    /\ phase = "merge" =>
           /\ source.kind = "circuit" /\ IsTable(circ)
           /\ DOMAIN source.triples.answers \subseteq DOMAIN circ
    /\ phase \in {"prepare", "compile"} => TableInv
    /\ phase = "prepare" => mode \in {"shared", "per-root", "d4", "portfolio"}
    /\ phase = "compile" => SearchInv
    /\ phase = "d4" => mode = "d4"
    /\ phase = "portfolio" => mode = "portfolio"
    /\ CyclesAreRejected

-----------------------------------------------------------------------------
\* One step of the growth of a cone, and the growth.
Grown(c, T) == T \cup UNION {Kids(c, n) : n \in T}
Grows(c, S, k, f) == f = [i \in 0 .. k |-> IF i = 0 THEN S ELSE Grown(c, f[i - 1])]

LEMMA GrowthExists ==
    ASSUME NEW c, NEW S, NEW k \in Nat
    PROVE  \E f : Grows(c, S, k, f)
<1> DEFINE Bad == {n \in Nat : ~\E f : Grows(c, S, n, f)}
<1> SUFFICES ASSUME Bad # {} PROVE FALSE
  OBVIOUS
<1>1. PICK n \in Bad : \A m \in Bad : n <= m
  <2>1. Bad \in SUBSET Nat
    OBVIOUS
  <2> HIDE DEF Bad
  <2> QED BY <2>1, NatMin
<1>2. n # 0
  <2>1. Grows(c, S, 0, [i \in 0 .. 0 |-> S])
    BY DEF Grows
  <2> QED BY <1>1, <2>1
<1>3. n \in Nat /\ n - 1 \in Nat /\ n - 1 \notin Bad
  <2>1. n \in Nat
    BY <1>1
  <2> HIDE DEF Bad
  <2> QED BY <1>1, <1>2, <2>1
<1>4. PICK f : Grows(c, S, n - 1, f)
  BY <1>3
<1> DEFINE g == [i \in 0 .. n |-> IF i = n THEN Grown(c, f[n - 1]) ELSE f[i]]
<1>5. \A i \in 0 .. n : i = n \/ i \in 0 .. n - 1
  BY <1>3
<1>6. \A i \in 0 .. n - 1 : i # n /\ i \in 0 .. n
  BY <1>3
<1>7. \A i \in 0 .. n - 1 : f[i] = IF i = 0 THEN S ELSE Grown(c, f[i - 1])
  <2> HIDE DEF g
  <2> QED BY <1>4 DEF Grows
<1>8. \A i \in 0 .. n - 1 : g[i] = f[i]
  BY <1>6
<1>9. \A i \in 0 .. n : i # 0 => i - 1 \in 0 .. n - 1
  BY <1>3
<1>10. g[n] = Grown(c, f[n - 1])
  BY <1>3
<1> HIDE DEF g
<1>11. \A i \in 0 .. n : g[i] = IF i = 0 THEN S ELSE Grown(c, g[i - 1])
  <2> TAKE i \in 0 .. n
  <2>1. CASE i = n
    <3>1. n - 1 \in 0 .. n - 1
      BY <1>3
    <3> QED BY <1>2, <1>8, <1>10, <2>1, <3>1
  <2>2. CASE i \in 0 .. n - 1
    BY <1>7, <1>8, <1>9, <2>2
  <2> QED BY <1>5, <2>1, <2>2
<1>12. Grows(c, S, n, g)
  BY <1>11 DEF Grows, g
<1> QED BY <1>1, <1>12

LEMMA ConeGrows ==
    ASSUME NEW c, NEW S, IsFiniteSet(DOMAIN c)
    PROVE  /\ Cardinality(DOMAIN c) \in Nat
           /\ \E f : Grows(c, S, Cardinality(DOMAIN c), f) /\ Cone(c, S) = f[Cardinality(DOMAIN c)]
<1> DEFINE k == Cardinality(DOMAIN c)
           f == CHOOSE g : Grows(c, S, k, g)
<1>1. k \in Nat
  BY FS_CardinalityType
<1>2. Grows(c, S, k, f)
  BY <1>1, GrowthExists
<1>3. Cone(c, S) = f[k]
  BY DEF Cone, Grows, Grown
<1> QED BY <1>1, <1>2, <1>3

\* What holds first and is kept by growth holds of the cone.
LEMMA GrowthBound ==
    ASSUME NEW c, NEW S, NEW k \in Nat, NEW f, Grows(c, S, k, f), NEW T,
           S \subseteq T, \A n \in T : Kids(c, n) \subseteq T
    PROVE  \A i \in 0 .. k : f[i] \subseteq T
<1> DEFINE Bad == {i \in 0 .. k : ~(f[i] \subseteq T)}
<1> SUFFICES ASSUME Bad # {} PROVE FALSE
  OBVIOUS
<1>1. PICK n \in Bad : \A m \in Bad : n <= m
  <2>1. Bad \in SUBSET Nat
    OBVIOUS
  <2> HIDE DEF Bad
  <2> QED BY <2>1, NatMin
<1>2. n \in 0 .. k /\ ~(f[n] \subseteq T)
  BY <1>1
<1>3. f[n] = IF n = 0 THEN S ELSE Grown(c, f[n - 1])
  BY <1>2 DEF Grows
<1>4. n # 0
  BY <1>2, <1>3
<1>5. n - 1 \in 0 .. k /\ n - 1 \notin Bad
  <2> HIDE DEF Bad
  <2> QED BY <1>1, <1>2, <1>4
<1>6. f[n - 1] \subseteq T
  BY <1>5
<1> QED BY <1>2, <1>3, <1>4, <1>6 DEF Grown

LEMMA GrowthCloses ==
    ASSUME NEW c, NEW S, NEW k \in Nat, NEW f, Grows(c, S, k, f),
           IsFiniteSet(DOMAIN c), S \subseteq DOMAIN c, Closed(c, DOMAIN c)
    PROVE  \A i \in 0 .. k : /\ S \subseteq f[i] /\ f[i] \subseteq DOMAIN c
                             /\ Closed(c, f[i]) \/ Cardinality(f[i]) >= i
<1>0. \A i \in 0 .. k : f[i] \subseteq DOMAIN c
  BY GrowthBound DEF Closed
<1> DEFINE Good(i) == S \subseteq f[i] /\ (Closed(c, f[i]) \/ Cardinality(f[i]) >= i)
           Bad == {i \in 0 .. k : ~Good(i)}
<1> SUFFICES ASSUME Bad # {} PROVE FALSE
  BY <1>0
<1>1. PICK n \in Bad : \A m \in Bad : n <= m
  <2>1. Bad \in SUBSET Nat
    OBVIOUS
  <2> HIDE DEF Bad
  <2> QED BY <2>1, NatMin
<1>2. n \in 0 .. k /\ ~Good(n)
  BY <1>1
<1>3. f[n] = IF n = 0 THEN S ELSE Grown(c, f[n - 1])
  BY <1>2 DEF Grows
<1>4. \A i \in 0 .. k : IsFiniteSet(f[i]) /\ Cardinality(f[i]) \in Nat
  BY <1>0, FS_Subset, FS_CardinalityType
<1>5. n # 0
  <2> SUFFICES ASSUME n = 0 PROVE FALSE
    OBVIOUS
  <2>1. f[0] = S /\ Cardinality(f[0]) \in Nat
    BY <1>2, <1>3, <1>4
  <2>2. Cardinality(f[0]) >= 0
    BY <2>1
  <2> QED BY <1>2, <2>1, <2>2
<1>6. n - 1 \in 0 .. k /\ n - 1 \notin Bad
  <2> HIDE DEF Bad, Good
  <2> QED BY <1>1, <1>2, <1>5
<1>7. Good(n - 1)
  BY <1>6
<1> DEFINE T == f[n - 1]
<1>8. f[n] = Grown(c, T) /\ S \subseteq T /\ T \subseteq f[n]
  BY <1>3, <1>5, <1>7 DEF Grown
<1>9. CASE Closed(c, T)
  <2>1. f[n] = T
    BY <1>8, <1>9 DEF Grown, Closed
  <2> QED BY <1>2, <1>8, <1>9, <2>1
<1>10. CASE ~Closed(c, T)
  <2>1. Cardinality(T) >= n - 1
    BY <1>7, <1>10
  <2>2. T # f[n]
    <3>1. T \subseteq DOMAIN c
      BY <1>0, <1>6
    <3> QED BY <1>8, <1>10, <3>1 DEF Closed, Grown
  <2>3. Cardinality(T) <= Cardinality(f[n]) /\ Cardinality(T) # Cardinality(f[n])
    <3> HIDE DEF T
    <3> QED BY <1>2, <1>4, <1>8, <2>2, FS_Subset
  <2>4. Cardinality(T) \in Nat /\ Cardinality(f[n]) \in Nat
    BY <1>2, <1>4, <1>6
  <2>5. Cardinality(f[n]) >= n
    <3> HIDE DEF T, Bad, Good
    <3> QED BY <1>2, <2>1, <2>3, <2>4
  <2> QED BY <1>2, <1>8, <2>5
<1> QED BY <1>9, <1>10

\* The cone of nodes of a table is the least closed set that holds them.
THEOREM ConeIsLeast ==
    ASSUME NEW c, NEW S, IsFiniteSet(DOMAIN c), Closed(c, DOMAIN c), S \subseteq DOMAIN c
    PROVE  /\ S \subseteq Cone(c, S) /\ Closed(c, Cone(c, S))
           /\ \A T : S \subseteq T /\ Closed(c, T) => Cone(c, S) \subseteq T
<1> DEFINE k == Cardinality(DOMAIN c)
<1>1. PICK f : Grows(c, S, k, f) /\ Cone(c, S) = f[k]
  BY ConeGrows
<1>2. k \in Nat
  BY ConeGrows
<1>3. S \subseteq f[k] /\ f[k] \subseteq DOMAIN c /\ (Closed(c, f[k]) \/ Cardinality(f[k]) >= k)
  <2> HIDE DEF k
  <2> QED BY <1>1, <1>2, GrowthCloses
<1>4. Closed(c, f[k])
  <2> SUFFICES ASSUME Cardinality(f[k]) >= k PROVE Closed(c, f[k])
    BY <1>3
  <2>1. IsFiniteSet(f[k]) /\ Cardinality(f[k]) <= Cardinality(DOMAIN c)
        /\ (Cardinality(DOMAIN c) = Cardinality(f[k]) => DOMAIN c = f[k])
    <3> HIDE DEF k
    <3> QED BY <1>3, FS_Subset
  <2>2. Cardinality(f[k]) \in Nat
    BY <2>1, FS_CardinalityType
  <2>3. f[k] = DOMAIN c
    BY <1>2, <2>1, <2>2
  <2> QED BY <2>3
<1>5. ASSUME NEW T, S \subseteq T, Closed(c, T) PROVE f[k] \subseteq T
  <2>1. k \in 0 .. k
    BY <1>2
  <2> HIDE DEF k
  <2> QED BY <1>1, <1>2, <1>5, <2>1, GrowthBound DEF Closed
<1> QED BY <1>1, <1>3, <1>4, <1>5

-----------------------------------------------------------------------------
LEMMA TableIsClosed ==
    ASSUME NEW c, IsTable(c)
    PROVE  Closed(c, DOMAIN c) /\ IsFiniteSet(DOMAIN c)
<1> SUFFICES ASSUME NEW n \in DOMAIN c PROVE Kids(c, n) \subseteq DOMAIN c
  BY DEF Closed, IsTable
<1>1. c[n].kids \in Seq(DOMAIN c)
  BY DEF IsTable
<1> QED BY <1>1 DEF Kids, ToSet

\* Going down a table.
LEMMA ConeSteps ==
    ASSUME NEW c, IsTable(c), NEW S, S \subseteq DOMAIN c
    PROVE  /\ S \subseteq Cone(c, S) /\ Cone(c, S) \subseteq DOMAIN c
           /\ \A x \in Cone(c, S) : Kids(c, x) \subseteq Cone(c, S)
           /\ \A x \in Cone(c, S) : Cone(c, {x}) \subseteq Cone(c, S)
           /\ \A T : Closed(c, T) /\ S \subseteq T => Cone(c, S) \subseteq T
<1>1. Closed(c, DOMAIN c) /\ IsFiniteSet(DOMAIN c)
  BY TableIsClosed
<1>2. /\ S \subseteq Cone(c, S) /\ Closed(c, Cone(c, S))
      /\ \A T : S \subseteq T /\ Closed(c, T) => Cone(c, S) \subseteq T
  BY <1>1, ConeIsLeast
<1>3. ASSUME NEW x \in Cone(c, S) PROVE Cone(c, {x}) \subseteq Cone(c, S)
  <2>1. {x} \subseteq DOMAIN c
    BY <1>2, <1>3 DEF Closed
  <2>2. \A T : {x} \subseteq T /\ Closed(c, T) => Cone(c, {x}) \subseteq T
    BY <1>1, <2>1, ConeIsLeast
  <2> QED BY <1>2, <1>3, <2>2
<1> QED BY <1>2, <1>3 DEF Closed

LEMMA ConeOfOne ==
    ASSUME NEW c, IsTable(c), NEW x \in DOMAIN c
    PROVE  /\ x \in Cone(c, {x}) /\ Kids(c, x) \subseteq DOMAIN c
           /\ Kids(c, x) \subseteq Cone(c, Kids(c, x))
           /\ \A k \in Kids(c, x) : k \in Cone(c, {x})
           /\ \A y \in Cone(c, {x}) : y = x \/ y \in Cone(c, Kids(c, x))
<1>1. x \in Cone(c, {x}) /\ \A y \in Cone(c, {x}) : Kids(c, y) \subseteq Cone(c, {x})
  <2>1. {x} \subseteq DOMAIN c
    OBVIOUS
  <2> QED BY <2>1, ConeSteps
<1> DEFINE K == Kids(c, x)
<1>2. K \subseteq DOMAIN c
  BY TableIsClosed DEF Closed
<1>3. /\ K \subseteq Cone(c, K) /\ Cone(c, K) \subseteq DOMAIN c
      /\ \A y \in Cone(c, K) : Kids(c, y) \subseteq Cone(c, K)
  <2> HIDE DEF K
  <2> QED BY <1>2, ConeSteps
<1>4. Closed(c, Cone(c, K) \cup {x})
  <2>1. ASSUME NEW y \in Cone(c, K) \cup {x} PROVE Kids(c, y) \subseteq Cone(c, K) \cup {x}
    BY <1>3, <2>1
  <2>2. Cone(c, K) \cup {x} \subseteq DOMAIN c
    BY <1>3
  <2> QED BY <2>1, <2>2 DEF Closed
<1>5. Cone(c, {x}) \subseteq Cone(c, K) \cup {x}
  <2>1. {x} \subseteq DOMAIN c /\ {x} \subseteq Cone(c, K) \cup {x}
    OBVIOUS
  <2> HIDE DEF K
  <2> QED BY <1>4, <2>1, ConeSteps
<1> QED BY <1>1, <1>2, <1>3, <1>5

LEMMA RankedGrows ==
    ASSUME NEW c, IsTable(c), NEW D, Ranked(c, D), NEW x \in DOMAIN c, x \notin D,
           Kids(c, x) \subseteq D
    PROVE  Ranked(c, D \cup {x})
<1>1. Cone(c, Kids(c, x)) \subseteq D
  <2>1. Kids(c, x) \subseteq DOMAIN c
    BY ConeOfOne
  <2> QED BY <2>1, ConeSteps DEF Ranked
<1> QED BY <1>1 DEF Ranked, Closed

LEMMA RankedIsAcyclic ==
    ASSUME NEW c, IsTable(c), NEW D, Ranked(c, D), NEW S, S \subseteq D
    PROVE  Acyclic(c, S)
<1>1. Cone(c, S) \subseteq D
  BY ConeSteps DEF Ranked, Closed
<1> QED BY <1>1 DEF Acyclic, Ranked

\* Roots without cycles, together.
LEMMA AcyclicTogether ==
    ASSUME NEW c, IsTable(c), NEW S, S \subseteq DOMAIN c, \A r \in S : Acyclic(c, {r})
    PROVE  Acyclic(c, S)
<1> DEFINE D == UNION {Cone(c, {r}) : r \in S}
<1>1. /\ \A r \in S : r \in Cone(c, {r}) /\ Cone(c, {r}) \subseteq DOMAIN c
      /\ \A r \in S : \A x \in Cone(c, {r}) : Kids(c, x) \subseteq Cone(c, {r})
  <2>1. \A r \in S : {r} \subseteq DOMAIN c
    OBVIOUS
  <2>2. \A r \in S : r \in {r}
    OBVIOUS
  <2> QED BY <2>1, <2>2, ConeSteps
<1>2. Ranked(c, D)
  <2>1. Closed(c, D)
    BY <1>1 DEF Closed
  <2>2. \A n \in D : n \notin Cone(c, Kids(c, n))
    BY DEF Acyclic
  <2> HIDE DEF D
  <2> QED BY <2>1, <2>2 DEF Ranked
<1>3. S \subseteq D
  BY <1>1
<1> HIDE DEF D
<1> QED BY <1>2, <1>3, RankedIsAcyclic

\* A node that is reached from a node it refers to.
LEMMA CycleIsFound ==
    ASSUME NEW c, IsTable(c), NEW S, S \subseteq DOMAIN c,
           NEW k \in Cone(c, S), NEW n \in Cone(c, {k}), k \in Kids(c, n)
    PROVE  ~Acyclic(c, S)
<1>1. k \in DOMAIN c
  BY ConeSteps
<1>2. k \in Cone(c, Kids(c, k))
  <2>1. CASE n = k
    BY <1>1, <2>1, ConeOfOne
  <2>2. CASE n # k
    <3>1. n \in Cone(c, Kids(c, k)) /\ Kids(c, k) \subseteq DOMAIN c
      BY <1>1, <2>2, ConeOfOne
    <3> QED BY <3>1, ConeSteps
  <2> QED BY <2>1, <2>2
<1> QED BY <1>2 DEF Acyclic

-----------------------------------------------------------------------------
LEMMA FrontAndLast ==
    ASSUME NEW X, NEW s \in Seq(X), s # << >>
    PROVE  /\ Len(s) \in Nat \ {0} /\ DOMAIN s = 1 .. Len(s) /\ s \in [1 .. Len(s) -> X]
           /\ Front(s) \in Seq(X) /\ Len(Front(s)) = Len(s) - 1
           /\ DOMAIN Front(s) = 1 .. Len(s) - 1
           /\ \A i \in DOMAIN Front(s) : Front(s)[i] = s[i] /\ i \in DOMAIN s /\ i < Len(s)
           /\ \A i \in DOMAIN s : i = Len(s) \/ i \in DOMAIN Front(s)
           /\ Last(s) = s[Len(s)] /\ Last(s) \in X /\ Len(s) \in DOMAIN s
<1>1. Len(s) \in Nat \ {0} /\ DOMAIN s = 1 .. Len(s) /\ s \in [1 .. Len(s) -> X]
  BY EmptySeq, LenProperties
<1>2. PICK n \in Nat \ {0} : n = Len(s)
  BY <1>1
<1>3. \A i \in 1 .. n - 1 : s[i] \in X
  BY <1>1, <1>2
<1>4. /\ SubSeq(s, 1, n - 1) \in Seq(X) /\ Len(SubSeq(s, 1, n - 1)) = n - 1
      /\ \A i \in 1 .. n - 1 : SubSeq(s, 1, n - 1)[i] = s[i]
  <2>1. /\ SubSeq(s, 1, n - 1) \in Seq(X)
        /\ Len(SubSeq(s, 1, n - 1)) = IF 1 <= n - 1 THEN (n - 1) - 1 + 1 ELSE 0
        /\ \A i \in 1 .. (n - 1) - 1 + 1 : SubSeq(s, 1, n - 1)[i] = s[1 + i - 1]
    <3>1. 1 \in Int /\ n - 1 \in Int
      OBVIOUS
    <3> QED BY <1>3, <3>1, SubSeqProperties
  <2> QED BY <2>1
<1>5. Front(s) = SubSeq(s, 1, n - 1)
  BY <1>2 DEF Front
<1>6. DOMAIN Front(s) = 1 .. n - 1 /\ Front(s) \in Seq(X) /\ Len(Front(s)) = n - 1
  <2>1. Front(s) \in Seq(X) /\ Len(Front(s)) = n - 1
    BY <1>4, <1>5
  <2> QED BY <2>1, LenProperties
<1>7. \A i \in 1 .. n - 1 : Front(s)[i] = s[i] /\ i \in 1 .. n /\ i < n
  BY <1>4, <1>5
<1>8. \A i \in 1 .. n : i = n \/ i \in 1 .. n - 1
  OBVIOUS
<1>9. Last(s) = s[n] /\ n \in 1 .. n /\ s[n] \in X
  <2>1. n \in 1 .. n
    OBVIOUS
  <2> QED BY <1>1, <1>2, <2>1 DEF Last
<1> QED BY <1>1, <1>2, <1>6, <1>7, <1>8, <1>9

LEMMA FrontOpened ==
    ASSUME NEW X, NEW s \in Seq(X), s # << >>
    PROVE  \A i : i \in Opened(Front(s)) <=> i \in Opened(s) /\ i # Len(s)
<1>1. /\ \A i \in DOMAIN Front(s) : Front(s)[i] = s[i] /\ i \in DOMAIN s /\ i < Len(s)
      /\ \A i \in DOMAIN s : i = Len(s) \/ i \in DOMAIN Front(s)
      /\ Len(s) \in Nat
  BY FrontAndLast
<1>2. \A i \in DOMAIN Front(s) : Front(s)[i] = s[i] /\ i \in DOMAIN s /\ i # Len(s)
  <2> TAKE i \in DOMAIN Front(s)
  <2> QED BY <1>1
<1> QED BY <1>1, <1>2 DEF Opened

LEMMA UnknownIs ==
    ASSUME NEW X, NEW kids \in Seq(X)
    PROVE  /\ Unknown(kids) \in Seq(X \X {FALSE})
           /\ \A j \in DOMAIN Unknown(kids) :
                  /\ Unknown(kids)[j][1] \in ToSet(kids) \ DOMAIN memo
                  /\ Unknown(kids)[j][2] = FALSE
           /\ \A k \in ToSet(kids) \ DOMAIN memo : \E j \in DOMAIN Unknown(kids) : Unknown(kids)[j][1] = k
<1> DEFINE J == {i \in DOMAIN kids : kids[i] \notin DOMAIN memo}
           s == Sorted(J)
           left == Reverse(s)
           no == FALSE
           u == [j \in DOMAIN left |-> <<kids[left[j]], no>>]
<1>0. Len(kids) \in Nat /\ DOMAIN kids = 1 .. Len(kids) /\ kids \in [1 .. Len(kids) -> X]
  BY LenProperties
<1>1. IsFiniteSet(J) /\ J \subseteq Int /\ J \subseteq DOMAIN kids
  <2>1. IsFiniteSet(1 .. Len(kids))
    BY <1>0, FS_Interval
  <2>2. J \in SUBSET (1 .. Len(kids))
    BY <1>0
  <2>3. 1 .. Len(kids) \subseteq Int
    BY <1>0
  <2> QED BY <1>0, <2>1, <2>2, <2>3, FS_Subset
<1>2. PICK n \in Nat : s \in [1 .. n -> J] /\ Len(s) = n /\ ToSet(s) = J /\ DOMAIN s = 1 .. n
  <2> HIDE DEF J
  <2> QED BY <1>1, SortedIs
<1>3. \A k \in ToSet(kids) \ DOMAIN memo : \E i \in J : kids[i] = k
  BY DEF ToSet
<1>4. \A i \in J : kids[i] \in ToSet(kids) \ DOMAIN memo /\ kids[i] \in X
  BY <1>0 DEF ToSet
<1> HIDE DEF J, s
<1>5. left = [j \in 1 .. n |-> s[n - j + 1]]
  BY <1>2 DEF Reverse
<1>6. \A j \in 1 .. n : n - j + 1 \in 1 .. n /\ n - (n - j + 1) + 1 = j
  OBVIOUS
<1>7. /\ DOMAIN left = 1 .. n /\ \A j \in 1 .. n : left[j] = s[n - j + 1] /\ left[j] \in J
      /\ \A i \in 1 .. n : left[n - i + 1] = s[i]
  BY <1>2, <1>5, <1>6
<1> HIDE DEF left
<1>8. \A i \in J : \E j \in 1 .. n : left[j] = i
  <2> TAKE i \in J
  <2>1. PICK m \in 1 .. n : s[m] = i
    BY <1>2 DEF ToSet
  <2> QED BY <1>6, <1>7, <2>1
<1> HIDE DEF no
<1>9. /\ DOMAIN u = 1 .. n
      /\ \A j \in 1 .. n : u[j] = <<kids[left[j]], no>> /\ u[j][1] = kids[left[j]] /\ u[j][2] = no
  BY <1>7
<1>10. u \in [1 .. n -> X \X {no}]
  BY <1>4, <1>7
<1>11. u \in Seq(X \X {no})
  BY <1>10
<1> HIDE DEF u
<1>12. \A j \in DOMAIN u : u[j][1] \in ToSet(kids) \ DOMAIN memo /\ u[j][2] = no
  BY <1>4, <1>7, <1>9
<1>13. \A k \in ToSet(kids) \ DOMAIN memo : \E j \in DOMAIN u : u[j][1] = k
  BY <1>3, <1>8, <1>9
<1>14. Unknown(kids) = u
  BY DEF Unknown, u, left, s, J, no
<1> QED BY <1>11, <1>12, <1>13, <1>14 DEF no

LEMMA WithIs ==
    ASSUME NEW f, NEW x, NEW y
    PROVE  DOMAIN With(f, x, y) = (DOMAIN f) \cup {x}
BY DEF With

-----------------------------------------------------------------------------
Compiling == phase = "compile" /\ TableInv /\ SearchInv

LEMMA NextRootStep ==
    ASSUME Compiling, NextRoot
    PROVE  SearchInv'
<1>1. /\ stack = << >> /\ todo # << >> /\ stack' = <<<<roots[Key], FALSE>>>>
      /\ UNCHANGED <<circ, roots, mode, todo, visiting, memo>>
  BY DEF NextRoot, table
<1>2. /\ mode \in {"shared", "per-root"} /\ todo \in Seq(DOMAIN roots) /\ Ranked(circ, DOMAIN memo)
      /\ \A key \in DOMAIN roots :
             (\A i \in DOMAIN todo : todo[i] # key) => Acyclic(circ, {roots[key]})
      /\ PathInv
  BY DEF Compiling, SearchInv
<1>3. roots[Key] \in Cone(circ, RootSet) /\ roots[Key] \in DOMAIN circ
  <2>1. Key \in DOMAIN roots
    BY <1>1, <1>2 DEF Key
  <2>2. roots[Key] \in RootSet
    BY <2>1 DEF RootSet
  <2> QED BY <2>2, ConeSteps DEF Compiling, TableInv
<1>4. visiting = {}
  <2>1. Opened(stack) = {}
    BY <1>1 DEF Opened
  <2> QED BY <1>2, <2>1 DEF PathInv
<1> DEFINE no == FALSE
           r == roots[Key]
           new == <<<<r, no>>>>
<1>5. stack' = new /\ r \in DOMAIN circ /\ no \in BOOLEAN /\ ~no
  BY <1>1, <1>3
<1> HIDE DEF r, no
<1>6. new \in Seq((DOMAIN circ) \X BOOLEAN) /\ DOMAIN new = {1} /\ new[1] = <<r, no>>
  BY <1>5
<1> HIDE DEF new
<1>7. PathInv'
  <2>1. Opened(stack') = {} /\ \A i \in DOMAIN stack' : stack'[i][1] = r
    BY <1>5, <1>6 DEF Opened
  <2>2. circ' = circ /\ memo' = memo /\ RootSet' = RootSet /\ visiting' = {}
    BY <1>1, <1>4 DEF RootSet
  <2>3. r \in Cone(circ, RootSet)
    BY <1>3 DEF r
  <2> QED BY <1>5, <1>6, <2>1, <2>2, <2>3 DEF PathInv
<1> QED BY <1>1, <1>2, <1>7 DEF SearchInv

LEMMA RootCompiledStep ==
    ASSUME Compiling, RootCompiled
    PROVE  SearchInv'
<1>1. /\ stack = << >> /\ todo # << >> /\ roots[Key] \in DOMAIN memo /\ todo' = Tail(todo)
      /\ memo' = KeptMemo /\ UNCHANGED <<circ, roots, mode, stack, visiting>>
  BY DEF RootCompiled, table
<1>2. /\ mode \in {"shared", "per-root"} /\ todo \in Seq(DOMAIN roots) /\ Ranked(circ, DOMAIN memo)
      /\ \A key \in DOMAIN roots :
             (\A i \in DOMAIN todo : todo[i] # key) => Acyclic(circ, {roots[key]})
      /\ PathInv /\ IsTable(circ)
  BY DEF Compiling, SearchInv, TableInv
<1>3. Ranked(circ, DOMAIN memo')
  <2>1. memo' = memo \/ DOMAIN memo' = {}
    BY <1>1 DEF KeptMemo
  <2>2. Ranked(circ, {})
    BY DEF Ranked, Closed
  <2> QED BY <1>2, <2>1, <2>2
<1>4. todo' \in Seq(DOMAIN roots)
  BY <1>1, <1>2, HeadTailProperties
<1>5. ASSUME NEW key \in DOMAIN roots, \A i \in DOMAIN todo' : todo'[i] # key
      PROVE  Acyclic(circ, {roots[key]})
  <2>1. CASE key = Key
    <3>1. {roots[Key]} \subseteq DOMAIN memo
      BY <1>1
    <3> QED BY <1>2, <2>1, <3>1, RankedIsAcyclic
  <2>2. CASE key # Key
    <3> SUFFICES ASSUME NEW i \in DOMAIN todo, todo[i] = key PROVE FALSE
      BY <1>2
    <3>1. /\ Len(todo) \in Nat /\ DOMAIN todo = 1 .. Len(todo) /\ Len(Tail(todo)) = Len(todo) - 1
          /\ \A j \in 1 .. Len(Tail(todo)) : Tail(todo)[j] = todo[j + 1]
      BY <1>1, <1>2, HeadTailProperties, LenProperties
    <3>2. DOMAIN todo' = 1 .. Len(todo')
      BY <1>4, LenProperties
    <3>3. i # 1
      BY <2>2 DEF Key
    <3>4. PICK n \in Nat : n = Len(todo)
      BY <3>1
    <3>5. i \in 1 .. n /\ i - 1 \in 1 .. n - 1 /\ (i - 1) + 1 = i
      BY <3>1, <3>3, <3>4
    <3>6. i - 1 \in DOMAIN todo' /\ todo'[i - 1] = todo[i]
      BY <1>1, <3>1, <3>2, <3>4, <3>5
    <3> QED BY <1>5, <3>6
  <2> QED BY <2>1, <2>2
<1>6. PathInv'
  <2>1. /\ DOMAIN stack' = {} /\ Opened(stack') = {} /\ visiting' = {}
        /\ stack' \in Seq((DOMAIN circ') \X BOOLEAN)
    <3>1. DOMAIN stack = {} /\ Opened(stack) = {}
      BY <1>1 DEF Opened
    <3> QED BY <1>1, <1>2, <3>1 DEF PathInv, Opened
  <2> QED BY <2>1 DEF PathInv
<1> QED BY <1>1, <1>2, <1>3, <1>4, <1>5, <1>6 DEF SearchInv

LEMMA PopKnownStep ==
    ASSUME Compiling, PopKnown
    PROVE  SearchInv'
<1> DEFINE n == Len(stack)
           t == Front(stack)
           D == (DOMAIN circ) \X BOOLEAN
<1>1. /\ stack # << >> /\ Node \in DOMAIN memo /\ stack' = t
      /\ UNCHANGED <<circ, roots, mode, todo, visiting, memo>>
  BY DEF PopKnown, table
<1>2. PathInv /\ stack \in Seq(D) /\ SearchInv
  BY DEF Compiling, SearchInv, PathInv
<1>3. /\ n \in Nat \ {0} /\ DOMAIN stack = 1 .. n /\ t \in Seq(D)
      /\ \A i \in DOMAIN t : t[i] = stack[i] /\ i \in DOMAIN stack /\ i < n
      /\ \A i \in DOMAIN stack : i = n \/ i \in DOMAIN t
      /\ Node = stack[n][1] /\ n \in DOMAIN stack
      /\ \A i : i \in Opened(t) <=> i \in Opened(stack) /\ i # n
  <2> HIDE DEF D
  <2> QED BY <1>1, <1>2, FrontAndLast, FrontOpened DEF Node
<1> HIDE DEF n, t
<1>4. n \notin Opened(stack)
  BY <1>1, <1>2, <1>3 DEF PathInv, LedTo
<1>5. \A i : i \in Opened(t) <=> i \in Opened(stack)
  BY <1>3, <1>4
<1>6. ASSUME NEW i \in Opened(t) PROVE LedTo(t, circ, DOMAIN memo, i)
  <2>1. i \in DOMAIN t /\ t[i] = stack[i] /\ LedTo(stack, circ, DOMAIN memo, i)
    BY <1>2, <1>3, <1>5, <1>6 DEF PathInv, Opened
  <2>2. ASSUME NEW k \in Kids(circ, t[i][1])
        PROVE  k \in DOMAIN memo \/ \E j \in DOMAIN t : i < j /\ t[j][1] = k
    <3>1. k \in DOMAIN memo \/ \E j \in DOMAIN stack : i < j /\ stack[j][1] = k
      BY <2>1, <2>2 DEF LedTo
    <3> QED BY <1>1, <1>3, <3>1
  <2> QED BY <1>3, <2>1, <2>2 DEF LedTo
<1>7. visiting = {t[i][1] : i \in Opened(t)}
  <2>1. visiting = {stack[i][1] : i \in Opened(stack)}
    BY <1>2 DEF PathInv
  <2>2. \A i \in Opened(t) : t[i] = stack[i]
    BY <1>3 DEF Opened
  <2> QED BY <1>5, <2>1, <2>2
<1>8. PathInv'
  <2>1. circ' = circ /\ memo' = memo /\ RootSet' = RootSet /\ visiting' = visiting /\ stack' = t
    BY <1>1 DEF RootSet
  <2>2. \A i \in DOMAIN t : t[i][1] \in Cone(circ, RootSet)
    BY <1>2, <1>3 DEF PathInv
  <2> QED BY <1>3, <1>6, <1>7, <2>1, <2>2 DEF PathInv
<1>9. todo # << >>
  BY <1>1, <1>2 DEF SearchInv
<1> QED BY <1>1, <1>2, <1>8, <1>9 DEF SearchInv

LEMMA PopExpandedStep ==
    ASSUME Compiling, PopExpanded
    PROVE  SearchInv'
<1> DEFINE n == Len(stack)
           t == Front(stack)
           D == (DOMAIN circ) \X BOOLEAN
<1>1. /\ stack # << >> /\ Node \notin DOMAIN memo /\ Expanded /\ stack' = t
      /\ memo' = With(memo, Node, Compiled(Node)) /\ visiting' = visiting \ {Node}
      /\ UNCHANGED <<circ, roots, mode, todo>>
  BY DEF PopExpanded, table
<1>2. PathInv /\ stack \in Seq(D) /\ SearchInv /\ IsTable(circ)
  BY DEF Compiling, SearchInv, PathInv, TableInv
<1>3. /\ n \in Nat \ {0} /\ DOMAIN stack = 1 .. n /\ t \in Seq(D)
      /\ \A i \in DOMAIN t : t[i] = stack[i] /\ i \in DOMAIN stack /\ i < n
      /\ \A i \in DOMAIN stack : i = n \/ i \in DOMAIN t
      /\ Node = stack[n][1] /\ n \in DOMAIN stack /\ stack[n] \in D /\ Last(stack) = stack[n]
      /\ \A i : i \in Opened(t) <=> i \in Opened(stack) /\ i # n
  <2> HIDE DEF D
  <2> QED BY <1>1, <1>2, FrontAndLast, FrontOpened DEF Node
<1>4. Node \in DOMAIN circ
  BY <1>3
<1>5. n \in Opened(stack)
  BY <1>1, <1>3 DEF Expanded, Opened
<1>6. DOMAIN memo' = (DOMAIN memo) \cup {Node}
  BY <1>1, WithIs
<1> HIDE DEF n, t, D
<1>7. \A i \in Opened(stack) : LedTo(stack, circ, DOMAIN memo, i)
  BY <1>2 DEF PathInv
<1>8. Kids(circ, Node) \subseteq DOMAIN memo
  <2>1. LedTo(stack, circ, DOMAIN memo, n)
    BY <1>5, <1>7
  <2>2. \A j \in DOMAIN stack : ~(n < j)
    BY <1>3
  <2> QED BY <1>3, <2>1, <2>2 DEF LedTo
<1>9. Ranked(circ, DOMAIN memo')
  <2>1. Ranked(circ, DOMAIN memo)
    BY <1>2 DEF SearchInv
  <2> QED BY <1>1, <1>2, <1>4, <1>6, <1>8, <2>1, RankedGrows
<1>10. \A i \in Opened(t) : i \in DOMAIN t /\ t[i] = stack[i] /\ t[i][1] # Node
                            /\ i \in Opened(stack) /\ LedTo(stack, circ, DOMAIN memo, i)
  <2> TAKE i \in Opened(t)
  <2>1. i \in DOMAIN t /\ t[i] = stack[i] /\ i < n /\ i \in Opened(stack)
    BY <1>3 DEF Opened
  <2>2. LedTo(stack, circ, DOMAIN memo, i)
    BY <1>7, <2>1
  <2>3. stack[n][1] # stack[i][1]
    BY <1>3, <2>1, <2>2 DEF LedTo
  <2> QED BY <1>3, <2>1, <2>2, <2>3
<1>11. ASSUME NEW i \in Opened(t) PROVE LedTo(t, circ, DOMAIN memo', i)
  <2>1. i \in DOMAIN t /\ t[i] = stack[i] /\ t[i][1] # Node /\ LedTo(stack, circ, DOMAIN memo, i)
    BY <1>10, <1>11
  <2>2. ASSUME NEW k \in Kids(circ, t[i][1])
        PROVE  k \in DOMAIN memo' \/ \E j \in DOMAIN t : i < j /\ t[j][1] = k
    <3>1. k \in DOMAIN memo \/ \E j \in DOMAIN stack : i < j /\ stack[j][1] = k
      BY <2>1, <2>2 DEF LedTo
    <3> QED BY <1>3, <1>6, <3>1
  <2> QED BY <1>3, <1>6, <2>1, <2>2 DEF LedTo
<1>12. visiting' = {t[i][1] : i \in Opened(t)}
  <2>1. visiting = {stack[i][1] : i \in Opened(stack)}
    BY <1>2 DEF PathInv
  <2> QED BY <1>1, <1>3, <1>10, <2>1
<1>13. PathInv'
  <2>1. circ' = circ /\ RootSet' = RootSet /\ stack' = t
    BY <1>1 DEF RootSet
  <2>2. \A i \in DOMAIN t : t[i][1] \in Cone(circ, RootSet)
    BY <1>2, <1>3 DEF PathInv
  <2> QED BY <1>3, <1>11, <1>12, <2>1, <2>2 DEF PathInv, D
<1>14. todo # << >>
  BY <1>1, <1>2 DEF SearchInv
<1> QED BY <1>1, <1>2, <1>9, <1>13, <1>14 DEF SearchInv

\* A child that is being visited, or the node itself, is on a cycle.
LEMMA OnCycleIsFound ==
    ASSUME Compiling, stack # << >>, OnCycle(Node)
    PROVE  ~Acyclic(circ, RootSet)
<1> DEFINE n == Len(stack)
           D == (DOMAIN circ) \X BOOLEAN
<1>1. PathInv /\ stack \in Seq(D) /\ IsTable(circ) /\ RootSet \subseteq DOMAIN circ
  BY DEF Compiling, SearchInv, PathInv, TableInv
<1>2. /\ n \in Nat \ {0} /\ DOMAIN stack = 1 .. n /\ n \in DOMAIN stack
      /\ Node = stack[n][1] /\ stack[n] \in D
  <2>1. stack # << >>
    OBVIOUS
  <2> HIDE DEF D
  <2>2. /\ Len(stack) \in Nat \ {0} /\ DOMAIN stack = 1 .. Len(stack) /\ Len(stack) \in DOMAIN stack
        /\ Last(stack) = stack[Len(stack)] /\ Last(stack) \in D
    BY <1>1, <2>1, FrontAndLast
  <2> QED BY <2>2 DEF Node
<1>3. Node \in DOMAIN circ
  BY <1>2
<1> HIDE DEF n, D
<1>4. PICK k \in Kids(circ, Node) : k \in visiting \cup {Node}
  BY DEF OnCycle
<1>5. k \in Cone(circ, RootSet) /\ Node \in Cone(circ, {k})
  <2>1. CASE k = Node
    <3>1. Node \in Cone(circ, RootSet)
      BY <1>1, <1>2 DEF PathInv
    <3> QED BY <1>1, <1>3, <2>1, <3>1, ConeOfOne
  <2>2. CASE k \in visiting
    <3>1. PICK i \in Opened(stack) : k = stack[i][1]
      BY <1>1, <2>2 DEF PathInv
    <3>2. i \in DOMAIN stack /\ i <= n
      BY <1>2 DEF Opened
    <3>3. LedTo(stack, circ, DOMAIN memo, i)
      BY <1>1 DEF PathInv
    <3>4. k \in Cone(circ, RootSet)
      BY <1>1, <3>1, <3>2 DEF PathInv
    <3> QED BY <1>2, <3>1, <3>2, <3>3, <3>4 DEF LedTo
  <2> QED BY <1>4, <2>1, <2>2
<1> QED BY <1>1, <1>4, <1>5, CycleIsFound

LEMMA ExpandStep ==
    ASSUME Compiling, Expand, ~OnCycle(Node)
    PROVE  SearchInv' /\ phase' = phase
<1> DEFINE n == Len(stack)
           t == Front(stack)
           kids == circ[Node].kids
           u == Unknown(kids)
           yes == TRUE
           top == <<Node, yes>>
           here == Append(t, top)
           D == (DOMAIN circ) \X BOOLEAN
           new == here \o u
<1>1. /\ stack # << >> /\ Node \notin DOMAIN memo /\ ~Expanded /\ stack' = new
      /\ visiting' = visiting \cup {Node} /\ UNCHANGED <<circ, roots, mode, todo, memo, phase>>
  BY DEF Expand, table
<1>2. PathInv /\ stack \in Seq(D) /\ SearchInv /\ IsTable(circ) /\ RootSet \subseteq DOMAIN circ
  BY DEF Compiling, SearchInv, PathInv, TableInv
<1>3. /\ n \in Nat \ {0} /\ DOMAIN stack = 1 .. n /\ t \in Seq(D) /\ Len(t) = n - 1
      /\ DOMAIN t = 1 .. n - 1
      /\ \A i \in 1 .. n - 1 : t[i] = stack[i]
      /\ Node = stack[n][1] /\ n \in DOMAIN stack /\ stack[n] \in D /\ Last(stack) = stack[n]
  <2> HIDE DEF D
  <2>1. /\ Len(stack) \in Nat \ {0} /\ DOMAIN stack = 1 .. Len(stack) /\ Len(stack) \in DOMAIN stack
        /\ Last(stack) = stack[Len(stack)] /\ Last(stack) \in D
        /\ t \in Seq(D) /\ Len(t) = Len(stack) - 1 /\ DOMAIN t = 1 .. Len(stack) - 1
        /\ \A i \in DOMAIN t : t[i] = stack[i]
    <3>1. stack \in Seq(D) /\ stack # << >>
      BY <1>1, <1>2
    <3> QED BY ONLY <3>1, FrontAndLast
  <2> HIDE DEF t
  <2> QED BY <2>1 DEF Node
<1>4. Node \in DOMAIN circ
  BY <1>3
<1>5. n \notin Opened(stack)
  BY <1>1, <1>3 DEF Expanded, Opened
<1>6. kids \in Seq(DOMAIN circ) /\ ToSet(kids) = Kids(circ, Node)
  BY <1>2, <1>4 DEF IsTable, Kids
<1> HIDE DEF n, t
<1>7. /\ u \in Seq((DOMAIN circ) \X {FALSE})
      /\ \A j \in DOMAIN u : u[j][1] \in Kids(circ, Node) \ DOMAIN memo /\ u[j][2] = FALSE
      /\ \A k \in Kids(circ, Node) \ DOMAIN memo : \E j \in DOMAIN u : u[j][1] = k
  <2> HIDE DEF kids
  <2> QED BY <1>6, UnknownIs
<1> HIDE DEF kids, u
<1>8. u \in Seq(D) /\ Len(u) \in Nat /\ DOMAIN u = 1 .. Len(u)
  <2>1. (DOMAIN circ) \X {FALSE} \subseteq D
    OBVIOUS
  <2> HIDE DEF D
  <2>2. u \in Seq(D)
    BY <1>7, <2>1, SeqMonotonic
  <2> QED BY <2>2, LenProperties
<1>9. top \in D /\ yes /\ top[1] = Node /\ top[2] = yes
  BY <1>4
<1> HIDE DEF yes, top, D
<1>10. /\ here \in Seq(D) /\ Len(here) = n /\ here[n] = top
       /\ \A i \in 1 .. n - 1 : here[i] = stack[i]
  <2>1. /\ Append(t, top) \in Seq(D) /\ Len(Append(t, top)) = Len(t) + 1
        /\ \A i \in 1 .. Len(t) : Append(t, top)[i] = t[i]
        /\ Append(t, top)[Len(t) + 1] = top
    BY <1>3, <1>9, AppendProperties
  <2> QED BY <1>3, <2>1
<1> HIDE DEF here
<1>11. PICK m \in Nat : m = Len(u)
  BY <1>8
<1>12. /\ new \in Seq(D) /\ DOMAIN new = 1 .. n + m
       /\ \A i \in 1 .. n + m : new[i] = IF i <= n THEN here[i] ELSE u[i - n]
  <2>1. /\ new \in Seq(D) /\ Len(new) = n + m
        /\ \A i \in 1 .. n + m : new[i] = IF i <= n THEN here[i] ELSE u[i - n]
    BY <1>8, <1>10, <1>11, ConcatProperties
  <2> QED BY <2>1, LenProperties
<1> HIDE DEF new
\* The entries of the new stack: old ones, the node, its unknown children.
<1>13. ASSUME NEW i \in 1 .. n - 1
       PROVE  new[i] = stack[i] /\ i \in DOMAIN new /\ i \in DOMAIN stack /\ i < n
  <2>1. i \in 1 .. n + m /\ i <= n /\ i < n /\ i \in 1 .. n
    BY <1>3
  <2> QED BY <1>3, <1>10, <1>12, <2>1
<1>14. new[n] = top /\ n \in DOMAIN new
  <2>1. n \in 1 .. n + m /\ n <= n
    BY <1>3
  <2> QED BY <1>10, <1>12, <2>1
<1>15. ASSUME NEW j \in DOMAIN u
       PROVE  n + j \in DOMAIN new /\ new[n + j] = u[j] /\ n < n + j
  <2>1. j \in 1 .. m
    BY <1>8, <1>11
  <2>2. n + j \in 1 .. n + m /\ ~(n + j <= n) /\ (n + j) - n = j /\ n < n + j
    BY <1>3, <2>1
  <2>3. new[n + j] = IF n + j <= n THEN here[n + j] ELSE u[(n + j) - n]
    BY <1>12, <2>2
  <2> QED BY <1>12, <2>2, <2>3
<1>16. ASSUME NEW i \in DOMAIN new
       PROVE  i \in 1 .. n - 1 \/ i = n \/ \E j \in DOMAIN u : i = n + j
  <2>1. i \in 1 .. n + m
    BY <1>12
  <2>2. i \in 1 .. n - 1 \/ i = n \/ (i - n \in 1 .. m /\ i = n + (i - n))
    BY <1>3, <2>1
  <2> QED BY <1>8, <1>11, <2>2
<1>17. ASSUME NEW j \in DOMAIN u
       PROVE  /\ u[j][1] \in Cone(circ, {Node}) /\ u[j][1] # Node
              /\ u[j][1] \notin visiting /\ ~u[j][2]
  BY <1>2, <1>4, <1>7, ConeOfOne DEF OnCycle
<1>18. Node \in Cone(circ, RootSet) /\ Node \in Cone(circ, {Node})
  <2>1. Node \in Cone(circ, RootSet)
    BY <1>2, <1>3 DEF PathInv
  <2> QED BY <1>2, <1>4, <2>1, ConeOfOne
<1>19. \A i : i \in Opened(new) <=> i \in Opened(stack) \/ i = n
  <2>1. ASSUME NEW i \in Opened(new) PROVE i \in Opened(stack) \/ i = n
    <3>1. i \in DOMAIN new /\ new[i][2]
      BY <2>1 DEF Opened
    <3>2. CASE i \in 1 .. n - 1
      BY <1>13, <3>1, <3>2 DEF Opened
    <3>3. CASE \E j \in DOMAIN u : i = n + j
      BY <1>15, <1>17, <3>1, <3>3
    <3> QED BY <1>16, <3>1, <3>2, <3>3
  <2>2. n \in Opened(new)
    BY <1>9, <1>14 DEF Opened
  <2>3. ASSUME NEW i \in Opened(stack) PROVE i \in Opened(new)
    <3>1. i \in 1 .. n /\ i # n /\ stack[i][2]
      BY <1>3, <1>5, <2>3 DEF Opened
    <3>2. i \in 1 .. n - 1
      BY <1>3, <3>1
    <3> QED BY <1>13, <3>1, <3>2 DEF Opened
  <2> QED BY <2>1, <2>2, <2>3
<1>20. \A i \in Opened(stack) : i \in 1 .. n - 1 /\ i \in DOMAIN stack /\ LedTo(stack, circ, DOMAIN memo, i)
  <2> TAKE i \in Opened(stack)
  <2>1. i \in 1 .. n /\ i # n
    BY <1>3, <1>5 DEF Opened
  <2>2. LedTo(stack, circ, DOMAIN memo, i)
    BY <1>2 DEF PathInv
  <2> QED BY <1>3, <2>1, <2>2
<1>21. visiting = {stack[i][1] : i \in Opened(stack)}
  BY <1>2 DEF PathInv
<1>22. visiting' = {new[i][1] : i \in Opened(new)}
  <2>1. \A i \in Opened(stack) : new[i] = stack[i]
    BY <1>13, <1>20
  <2>2. new[n][1] = Node
    BY <1>9, <1>14
  <2> QED BY <1>1, <1>19, <1>21, <2>1, <2>2
<1>23. \A i \in DOMAIN new : new[i][1] \in Cone(circ, RootSet)
  <2> TAKE i \in DOMAIN new
  <2>1. \A x \in Cone(circ, {Node}) : x \in Cone(circ, RootSet)
    BY <1>2, <1>18, ConeSteps
  <2>2. CASE i \in 1 .. n - 1
    BY <1>2, <1>13, <2>2 DEF PathInv
  <2>3. CASE i = n
    BY <1>9, <1>14, <1>18, <2>3
  <2>4. CASE \E j \in DOMAIN u : i = n + j
    BY <1>15, <1>17, <2>1, <2>4
  <2> QED BY <1>16, <2>2, <2>3, <2>4
<1>24. ASSUME NEW i \in Opened(stack) PROVE LedTo(new, circ, DOMAIN memo, i)
  <2> DEFINE x == stack[i][1]
  <2>1. i \in 1 .. n - 1 /\ i \in DOMAIN stack /\ LedTo(stack, circ, DOMAIN memo, i)
    BY <1>20, <1>24
  <2>2. /\ x \notin DOMAIN memo /\ x \in visiting /\ new[i][1] = x /\ x \in DOMAIN circ
        /\ \A j \in DOMAIN stack : i <= j => stack[j][1] \in Cone(circ, {x})
        /\ \A j \in DOMAIN stack : i < j => stack[j][1] # x
        /\ \A k \in Kids(circ, x) :
               k \in DOMAIN memo \/ \E j \in DOMAIN stack : i < j /\ stack[j][1] = k
    <3>1. new[i] = stack[i]
      BY <1>13, <2>1
    <3>2. stack[i] \in D
      BY <1>2, <2>1
    <3> QED BY <1>21, <1>24, <2>1, <3>1, <3>2 DEF LedTo, D
  <2> HIDE DEF x
  <2>3. i < n /\ i <= n
    BY <1>3, <2>1
  <2>4. Node \in Cone(circ, {x}) /\ Node # x
    BY <1>3, <2>2, <2>3
  <2>5. \A j \in DOMAIN u : u[j][1] \in Cone(circ, {x}) /\ u[j][1] # x
    <3>1. {x} \subseteq DOMAIN circ
      BY <2>2
    <3>2. \A y \in Cone(circ, {Node}) : y \in Cone(circ, {x})
      BY <1>2, <2>4, <3>1, ConeSteps
    <3> QED BY <1>17, <2>2, <3>2
  <2>6. ASSUME NEW j \in DOMAIN new
        PROVE  (i <= j => new[j][1] \in Cone(circ, {x})) /\ (i < j => new[j][1] # x)
    <3>1. CASE j \in 1 .. n - 1
      <4>1. new[j] = stack[j] /\ j \in DOMAIN stack
        BY <1>13, <3>1
      <4> QED BY <2>2, <4>1
    <3>2. CASE j = n
      BY <1>9, <1>14, <2>4, <3>2
    <3>3. CASE \E l \in DOMAIN u : j = n + l
      BY <1>15, <2>5, <3>3
    <3> QED BY <1>16, <2>6, <3>1, <3>2, <3>3
  <2>7. ASSUME NEW k \in Kids(circ, x), k \notin DOMAIN memo
        PROVE  \E j \in DOMAIN new : i < j /\ new[j][1] = k
    <3>1. PICK j \in DOMAIN stack : i < j /\ stack[j][1] = k
      BY <2>2, <2>7
    <3>2. j = n \/ j \in 1 .. n - 1
      BY <1>3, <3>1
    <3>3. CASE j = n
      <4>1. new[n][1] = k /\ i < n /\ n \in DOMAIN new
        BY <1>3, <1>9, <1>14, <3>1, <3>3
      <4> QED BY <4>1
    <3>4. CASE j \in 1 .. n - 1
      <4>1. new[j] = stack[j] /\ j \in DOMAIN new
        BY <1>13, <3>4
      <4> QED BY <3>1, <4>1
    <3> QED BY <3>2, <3>3, <3>4
  <2> QED BY <2>2, <2>6, <2>7 DEF LedTo
<1>25. LedTo(new, circ, DOMAIN memo, n)
  <2>1. new[n][1] = Node
    BY <1>9, <1>14
  <2>2. ASSUME NEW j \in DOMAIN new, n <= j
        PROVE  new[j][1] \in Cone(circ, {Node}) /\ (n < j => new[j][1] # Node)
    <3>1. j \notin 1 .. n - 1
      BY <1>3, <2>2
    <3>2. CASE j = n
      BY <1>3, <1>18, <2>1, <3>2
    <3>3. CASE \E l \in DOMAIN u : j = n + l
      BY <1>15, <1>17, <3>3
    <3> QED BY <1>16, <3>1, <3>2, <3>3
  <2>3. \A j \in DOMAIN new : n < j => n <= j
    <3>1. \A j \in 1 .. n + m : n < j => n <= j
      BY <1>3
    <3> QED BY <1>12, <3>1
  <2>4. ASSUME NEW k \in Kids(circ, Node), k \notin DOMAIN memo
        PROVE  \E j \in DOMAIN new : n < j /\ new[j][1] = k
    <3>1. PICK l \in DOMAIN u : u[l][1] = k
      BY <1>7, <2>4
    <3> QED BY <1>15, <3>1
  <2> QED BY <1>1, <2>1, <2>2, <2>3, <2>4 DEF LedTo
<1>26. PathInv'
  <2>1. /\ circ' = circ /\ memo' = memo /\ RootSet' = RootSet /\ stack' = new
        /\ visiting' = {new[i][1] : i \in Opened(new)}
    BY <1>1, <1>22 DEF RootSet, new
  <2>2. \A i \in Opened(new) : LedTo(new, circ, DOMAIN memo, i)
    BY <1>19, <1>24, <1>25
  <2>3. new \in Seq((DOMAIN circ) \X BOOLEAN)
    BY <1>12 DEF D
  <2> QED BY <1>23, <2>1, <2>2, <2>3 DEF PathInv
<1>27. todo # << >>
  BY <1>1, <1>2 DEF SearchInv
<1> QED BY <1>1, <1>2, <1>26, <1>27 DEF SearchInv

-----------------------------------------------------------------------------
\* Reading.
LEMMA ValuesFinite ==
    ASSUME NEW f, IsFiniteSet(DOMAIN f)
    PROVE  IsFiniteSet({f[x] : x \in DOMAIN f})
<1> DEFINE T == {f[x] : x \in DOMAIN f}
           g == [x \in DOMAIN f |-> f[x]]
<1>1. g \in Surjection(DOMAIN f, T)
  BY DEF Surjection
<1> HIDE DEF g, T
<1>2. IsFiniteSet(T)
  BY <1>1, FS_Surjection
<1> QED BY <1>2 DEF T

LEMMA EndsFinite ==
    ASSUME NEW pairs, IsFiniteSet(pairs), pairs \subseteq Int \X Int
    PROVE  /\ IsFiniteSet({p[1] : p \in pairs}) /\ {p[1] : p \in pairs} \subseteq Int
           /\ IsFiniteSet({p[2] : p \in pairs}) /\ {p[2] : p \in pairs} \subseteq Int
<1> DEFINE f == [p \in pairs |-> p[1]]
           g == [p \in pairs |-> p[2]]
<1>1. IsFiniteSet({f[p] : p \in DOMAIN f}) /\ IsFiniteSet({g[p] : p \in DOMAIN g})
  <2>1. DOMAIN f = pairs /\ DOMAIN g = pairs
    OBVIOUS
  <2> HIDE DEF f, g
  <2> QED BY <2>1, ValuesFinite
<1>2. {f[p] : p \in DOMAIN f} = {p[1] : p \in pairs} /\ {g[p] : p \in DOMAIN g} = {p[2] : p \in pairs}
  OBVIOUS
<1> QED BY <1>1, <1>2

LEMMA SubjectsFinite ==
    ASSUME NEW f, IsTriples(f)
    PROVE  /\ IsFiniteSet(TypedNodes(f)) /\ TypedNodes(f) \subseteq Int
           /\ \A pairs \in {f.in, f.minuend, f.subtrahend, f.feeds} :
                  /\ IsFiniteSet({p[1] : p \in pairs}) /\ {p[1] : p \in pairs} \subseteq Int
                  /\ IsFiniteSet({p[2] : p \in pairs}) /\ {p[2] : p \in pairs} \subseteq Int
<1>1. \A pairs \in {f.in, f.minuend, f.subtrahend, f.feeds} :
          /\ IsFiniteSet({p[1] : p \in pairs}) /\ {p[1] : p \in pairs} \subseteq Int
          /\ IsFiniteSet({p[2] : p \in pairs}) /\ {p[2] : p \in pairs} \subseteq Int
  BY EndsFinite DEF IsTriples
<1>2. IsFiniteSet(Subjects(f.type)) /\ Subjects(f.type) \subseteq Int
  <2> DEFINE g == [p \in f.type |-> p[1]]
  <2>1. DOMAIN g = f.type
    OBVIOUS
  <2>2. {g[p] : p \in DOMAIN g} = Subjects(f.type)
    BY DEF Subjects
  <2>3. IsFiniteSet({g[p] : p \in DOMAIN g})
    <3> HIDE DEF g
    <3> QED BY <2>1, ValuesFinite DEF IsTriples
  <2>4. Subjects(f.type) \subseteq Int
    BY DEF Subjects, IsTriples
  <2> QED BY <2>2, <2>3, <2>4
<1> DEFINE A == Subjects(f.type)
           B == Subjects(f.in)
           C == Subjects(f.minuend)
           E == Subjects(f.subtrahend)
           F == {p[2] : p \in f.feeds}
           G == DOMAIN f.answers
<1>3. /\ IsFiniteSet(A) /\ IsFiniteSet(B) /\ IsFiniteSet(C) /\ IsFiniteSet(E) /\ IsFiniteSet(F)
      /\ IsFiniteSet(G)
      /\ A \subseteq Int /\ B \subseteq Int /\ C \subseteq Int /\ E \subseteq Int /\ F \subseteq Int
      /\ G \subseteq Int
  BY <1>1, <1>2 DEF Subjects, IsTriples
<1>4. TypedNodes(f) = A \cup B \cup C \cup E \cup F \cup G
  BY DEF TypedNodes
<1> HIDE DEF A, B, C, E, F, G
<1>5. IsFiniteSet(A \cup B \cup C \cup E \cup F \cup G)
  <2>1. IsFiniteSet(A \cup B)
    BY <1>3, FS_Union
  <2>2. IsFiniteSet(A \cup B \cup C)
    BY <1>3, <2>1, FS_Union
  <2>3. IsFiniteSet(A \cup B \cup C \cup E)
    BY <1>3, <2>2, FS_Union
  <2>4. IsFiniteSet(A \cup B \cup C \cup E \cup F)
    BY <1>3, <2>3, FS_Union
  <2> QED BY <1>3, <2>4, FS_Union
<1> QED BY <1>1, <1>3, <1>4, <1>5

\* The children of a gate that was read without a format error are objects or subjects of
\* its triples.
LEMMA ParsedIs ==
    ASSUME NEW f, IsTriples(f), ~Malformed(f), NEW n \in TypedNodes(f)
    PROVE  LET R == {p[2] : p \in f.in} \cup {p[1] : p \in f.feeds}
                    \cup {p[2] : p \in f.minuend} \cup {p[2] : p \in f.subtrahend}
           IN  Parsed(f, n).kids \in Seq(R)
<1> DEFINE R == {p[2] : p \in f.in} \cup {p[1] : p \in f.feeds}
                \cup {p[2] : p \in f.minuend} \cup {p[2] : p \in f.subtrahend}
           I == {p[2] : p \in {q \in f.in : q[1] = n}}
           F == {p[1] : p \in {q \in f.feeds : q[2] = n}}
           M == {p[2] : p \in {q \in f.minuend : q[1] = n}}
           S == {p[2] : p \in {q \in f.subtrahend : q[1] = n}}
<1>1. /\ I \subseteq R /\ F \subseteq R /\ M \subseteq R /\ S \subseteq R
      /\ I = Objects(f.in, n) /\ M = Objects(f.minuend, n) /\ S = Objects(f.subtrahend, n)
  BY DEF Objects
<1>2. /\ IsFiniteSet(I) /\ IsFiniteSet(F) /\ IsFiniteSet(M) /\ IsFiniteSet(S)
      /\ I \subseteq Int /\ F \subseteq Int /\ M \subseteq Int /\ S \subseteq Int
  <2>1. /\ \A pairs \in {f.in, f.minuend, f.subtrahend, f.feeds} :
               /\ IsFiniteSet({p[1] : p \in pairs}) /\ {p[1] : p \in pairs} \subseteq Int
               /\ IsFiniteSet({p[2] : p \in pairs}) /\ {p[2] : p \in pairs} \subseteq Int
    BY SubjectsFinite
  <2>2. /\ I \in SUBSET {p[2] : p \in f.in} /\ F \in SUBSET {p[1] : p \in f.feeds}
        /\ M \in SUBSET {p[2] : p \in f.minuend} /\ S \in SUBSET {p[2] : p \in f.subtrahend}
    OBVIOUS
  <2>3. I \subseteq Int /\ F \subseteq Int /\ M \subseteq Int /\ S \subseteq Int
    BY <2>1, <2>2
  <2> HIDE DEF I, F, M, S
  <2> QED BY <2>1, <2>2, <2>3, FS_Subset
<1> HIDE DEF R, I, M, S
<1>3. CASE Types(f, n) = {"times"}
  <2>1. Parsed(f, n).kids = Sorted(I)
    BY <1>1, <1>3 DEF Parsed, Gate
  <2>2. Sorted(I) \in Seq(I)
    BY <1>2, SortedIs
  <2> QED BY <1>1, <2>1, <2>2, SeqMonotonic DEF R
<1>4. CASE Types(f, n) = {"plus"}
  <2>1. Parsed(f, n).kids = Sorted(F)
    BY <1>4 DEF Parsed, Gate
  <2> HIDE DEF F
  <2>2. Sorted(F) \in Seq(F)
    BY <1>2, SortedIs
  <2> QED BY <1>1, <2>1, <2>2, SeqMonotonic DEF R
<1>5. CASE Types(f, n) # {"times"} /\ Types(f, n) # {"plus"}
  <2>1. Types(f, n) = {"minus"}
    <3>1. Types(f, n) \subseteq {"times", "minus", "plus"}
      BY DEF Types, Inferred, Objects, IsTriples
    <3>2. IsFiniteSet(Types(f, n))
      <4>1. IsFiniteSet({"times", "minus", "plus"})
        <5>1. IsFiniteSet({"times"}) /\ IsFiniteSet({"minus"}) /\ IsFiniteSet({"plus"})
          BY FS_Singleton
        <5>2. IsFiniteSet({"times"} \cup {"minus"})
          BY <5>1, FS_Union
        <5>3. IsFiniteSet(({"times"} \cup {"minus"}) \cup {"plus"})
          BY <5>1, <5>2, FS_Union
        <5>4. ({"times"} \cup {"minus"}) \cup {"plus"} = {"times", "minus", "plus"}
          OBVIOUS
        <5> QED BY <5>3, <5>4
      <4> QED BY <3>1, <4>1, FS_Subset
    <3>3. Cardinality(Types(f, n)) = 1
      BY DEF Malformed
    <3>4. \E x : Types(f, n) = {x}
      BY <3>2, <3>3, FS_Singleton
    <3> QED BY <1>5, <3>1, <3>4
  <2>2. Cardinality(M) = 1 /\ Cardinality(S) = 1
    BY <1>1, <2>1 DEF Malformed
  <2>3. M # {} /\ S # {}
    BY <2>2, FS_EmptySet
  <2>4. Min(M) \in M /\ Min(S) \in S
    BY <1>2, <2>3, MinIs
  <2>5. Parsed(f, n).kids = <<Min(M), Min(S)>>
    BY <1>1, <1>5 DEF Parsed, Gate
  <2>6. Min(M) \in R /\ Min(S) \in R
    BY <1>1, <2>4
  <2> QED BY <2>5, <2>6 DEF R
<1> QED BY <1>3, <1>4, <1>5

LEMMA CircuitIsTable ==
    ASSUME NEW f, IsTriples(f), ~Malformed(f)
    PROVE  IsTable(Circuit(f)) /\ DOMAIN f.answers \subseteq DOMAIN Circuit(f)
<1> DEFINE gates == [n \in TypedNodes(f) |-> Parsed(f, n)]
           referred == UNION {Kids(gates, n) : n \in DOMAIN gates}
           c == Circuit(f)
           R == {p[2] : p \in f.in} \cup {p[1] : p \in f.feeds}
                \cup {p[2] : p \in f.minuend} \cup {p[2] : p \in f.subtrahend}
<1>1. \A n \in TypedNodes(f) : gates[n] = Parsed(f, n) /\ gates[n].kids \in Seq(R)
  BY ParsedIs
<1>2. IsFiniteSet(R)
  <2> DEFINE A == {p[2] : p \in f.in}
             B == {p[1] : p \in f.feeds}
             C == {p[2] : p \in f.minuend}
             E == {p[2] : p \in f.subtrahend}
  <2>1. IsFiniteSet(A) /\ IsFiniteSet(B) /\ IsFiniteSet(C) /\ IsFiniteSet(E)
    BY SubjectsFinite
  <2> HIDE DEF A, B, C, E
  <2>2. IsFiniteSet(A \cup B)
    BY <2>1, FS_Union
  <2>3. IsFiniteSet(A \cup B \cup C)
    BY <2>1, <2>2, FS_Union
  <2>4. IsFiniteSet(A \cup B \cup C \cup E)
    BY <2>1, <2>3, FS_Union
  <2> QED BY <2>4 DEF A, B, C, E
<1> HIDE DEF R
<1>3. c = [n \in TypedNodes(f) \cup referred |-> IF n \in TypedNodes(f) THEN gates[n]
                                                  ELSE Gate("leaf", << >>)]
  BY DEF Circuit
<1>4. \A n \in TypedNodes(f) : Kids(gates, n) \subseteq referred
  OBVIOUS
<1>5. referred \subseteq R
  <2> SUFFICES ASSUME NEW n \in TypedNodes(f), NEW k \in Kids(gates, n) PROVE k \in R
    OBVIOUS
  <2>1. gates[n].kids \in Seq(R) /\ k \in ToSet(gates[n].kids)
    BY <1>1 DEF Kids
  <2> HIDE DEF gates
  <2> QED BY <2>1 DEF ToSet
<1> HIDE DEF c, referred
<1>6. DOMAIN c = TypedNodes(f) \cup referred /\ IsFiniteSet(DOMAIN c)
  <2>1. IsFiniteSet(referred)
    BY <1>2, <1>5, FS_Subset
  <2> QED BY <1>3, <2>1, SubjectsFinite, FS_Union
<1>7. ASSUME NEW n \in DOMAIN c PROVE c[n].kids \in Seq(DOMAIN c)
  <2>1. CASE n \in TypedNodes(f)
    <3>1. c[n].kids = gates[n].kids /\ gates[n].kids \in Seq(R)
      BY <1>1, <1>3, <2>1
    <3>2. Kids(gates, n) \subseteq DOMAIN c
      BY <1>4, <1>6, <2>1
    <3> HIDE DEF gates
    <3>3. \A s \in Seq(R) : ToSet(s) \subseteq DOMAIN c => s \in Seq(DOMAIN c)
      <4> TAKE s \in Seq(R)
      <4>1. Len(s) \in Nat /\ DOMAIN s = 1 .. Len(s)
        BY LenProperties
      <4> HAVE ToSet(s) \subseteq DOMAIN c
      <4>2. s \in [1 .. Len(s) -> DOMAIN c]
        BY <4>1, LenProperties DEF ToSet
      <4> QED BY <4>1, <4>2
    <3> QED BY <3>1, <3>2, <3>3 DEF Kids
  <2>2. CASE n \notin TypedNodes(f)
    <3>1. c[n] = Gate("leaf", << >>)
      BY <1>3, <1>6, <2>2
    <3>2. c[n].kids = << >>
      BY <3>1 DEF Gate
    <3> QED BY <3>2, EmptySeq
  <2> QED BY <2>1, <2>2
<1>8. DOMAIN f.answers \subseteq DOMAIN c
  BY <1>6 DEF TypedNodes
<1> QED BY <1>6, <1>7, <1>8 DEF IsTable, c

-----------------------------------------------------------------------------
\* The steps between the phases.
Quiet(p) == p \notin {"read", "merge", "prepare", "compile", "d4", "portfolio", "cycle", "persist", "done"}

LEMMA FailsStep ==
    ASSUME CompilerInv, NEW error, Fails(error), Quiet(error)
    PROVE  CompilerInv'
BY DEF CompilerInv, Fails, Quiet, CyclesAreRejected, input

\* A search that has not begun.
AtRest == stack = << >> /\ visiting = {} /\ memo = << >>

LEMMA ReadCircuitStep ==
    ASSUME CompilerInv, ReadCircuit
    PROVE  CompilerInv'
<1>1. /\ phase = "read" /\ source.kind = "circuit" /\ AtRest /\ source \in Sources
      /\ IsTriples(source.triples)
  <2>1. IsStored(source) /\ phase = "read" /\ source.kind = "circuit"
    BY SourcesAssumption DEF CompilerInv, ReadCircuit
  <2> QED BY <2>1 DEF IsStored, CompilerInv, AtRest
<1>2. CASE Malformed(source.triples)
  <2> DEFINE error == "CircuitFormatError"
  <2>1. Fails(error) /\ Quiet(error)
    BY <1>2 DEF ReadCircuit, Quiet
  <2> HIDE DEF error
  <2> QED BY <2>1, FailsStep
<1>3. CASE ~Malformed(source.triples)
  <2>1. /\ circ' = Circuit(source.triples) /\ phase' = "merge"
        /\ UNCHANGED <<source, roots, mode, stack, visiting, memo>>
    BY <1>3 DEF ReadCircuit, input, machine
  <2>2. IsTable(circ') /\ DOMAIN source.triples.answers \subseteq DOMAIN circ'
    BY <1>1, <1>3, <2>1, CircuitIsTable
  <2> QED BY <1>1, <2>1, <2>2 DEF CompilerInv, CyclesAreRejected, AtRest
<1> QED BY <1>2, <1>3

LEMMA ReadDagStep ==
    ASSUME CompilerInv, ReadDag
    PROVE  CompilerInv'
<1>1. /\ phase = "read" /\ source.kind = "dag" /\ AtRest /\ source \in Sources
      /\ IsDag(source.nodes, source.roots)
  <2>1. IsStored(source) /\ phase = "read" /\ source.kind = "dag"
    BY SourcesAssumption DEF CompilerInv, ReadDag
  <2> QED BY <2>1 DEF IsStored, CompilerInv, AtRest
<1> DEFINE Upward == \E n \in DOMAIN source.nodes : \E k \in Kids(source.nodes, n) : k >= n
<1>2. CASE Upward
  <2> DEFINE error == "ArtifactPqeError"
  <2>1. Fails(error) /\ Quiet(error)
    BY <1>2 DEF ReadDag, Quiet
  <2> HIDE DEF error
  <2> QED BY <2>1, FailsStep
<1>3. CASE ~Upward
  <2>1. /\ circ' = source.nodes /\ roots' = source.roots /\ phase' = "prepare" /\ mode' = "shared"
        /\ UNCHANGED <<source, stack, visiting, memo>>
    BY <1>3 DEF ReadDag, input, machine
  <2>2. TableInv'
    BY <1>1, <2>1 DEF TableInv, IsTable, IsDag, RootSet
  <2> QED BY <1>1, <2>1, <2>2 DEF CompilerInv, CyclesAreRejected, AtRest
<1> QED BY <1>2, <1>3

LEMMA MergeStep ==
    ASSUME CompilerInv, MergeAnswerRoots
    PROVE  CompilerInv'
<1> DEFINE answers == source.triples.answers
           keys == {answers[r] : r \in DOMAIN answers}
           many == {key \in keys : Cardinality(Group(answers, key)) > 1}
           Fresh(key) == Max(DOMAIN circ) + 1 + Cardinality({k \in many : k < key})
           new == {Fresh(key) : key \in many}
           Joined(n) == Group(answers, CHOOSE key \in many : Fresh(key) = n)
<1>1. /\ phase = "merge" /\ phase' = "prepare" /\ mode' \in {"shared", "per-root", "d4", "portfolio"}
      /\ circ' = [n \in DOMAIN circ \cup new |->
             IF n \in DOMAIN circ THEN circ[n] ELSE Gate("plus", Sorted(Joined(n)))]
      /\ roots' = [key \in keys |-> IF key \in many THEN Fresh(key) ELSE Min(Group(answers, key))]
      /\ UNCHANGED <<source, stack, visiting, memo>>
  BY DEF MergeAnswerRoots, input, machine
<1>2. /\ IsTable(circ) /\ DOMAIN answers \subseteq DOMAIN circ /\ IsTriples(source.triples)
      /\ source \in Sources /\ source.kind = "circuit"
  <2>1. IsStored(source) /\ source.kind = "circuit"
    BY <1>1, SourcesAssumption DEF CompilerInv
  <2> QED BY <1>1, <2>1 DEF IsStored, CompilerInv
<1>3. /\ IsFiniteSet(DOMAIN answers) /\ DOMAIN answers \subseteq Int
      /\ IsFiniteSet(keys) /\ keys \subseteq Int
  <2>1. /\ IsFiniteSet(DOMAIN answers) /\ DOMAIN answers \subseteq Int
        /\ \A r \in DOMAIN answers : answers[r] \in Int
    BY <1>2 DEF IsTriples
  <2> HIDE DEF answers
  <2> QED BY <2>1, ValuesFinite
<1>4. \A key : /\ Group(answers, key) \subseteq DOMAIN answers
               /\ IsFiniteSet(Group(answers, key)) /\ Group(answers, key) \subseteq Int
  <2> TAKE key
  <2>1. Group(answers, key) \subseteq DOMAIN answers
    BY DEF Group
  <2> HIDE DEF answers
  <2> QED BY <1>3, <2>1, FS_Subset
<1>5. \A key \in keys : Group(answers, key) # {}
  BY DEF Group
<1>6. IsFiniteSet(new)
  <2> DEFINE f == [key \in many |-> Fresh(key)]
  <2>1. IsFiniteSet(many)
    <3>1. many \subseteq keys
      OBVIOUS
    <3> HIDE DEF many, keys
    <3> QED BY <1>3, <3>1, FS_Subset
  <2>2. DOMAIN f = many /\ {f[x] : x \in DOMAIN f} = new
    OBVIOUS
  <2> HIDE DEF f, many, Fresh, new
  <2> QED BY <2>1, <2>2, ValuesFinite
<1>7. \A key \in many : key \in keys /\ Fresh(key) \in new
  OBVIOUS
<1> HIDE DEF keys, many, Fresh, new, Joined
<1>8. DOMAIN circ' = (DOMAIN circ) \cup new /\ IsFiniteSet(DOMAIN circ')
  <2>1. IsFiniteSet(DOMAIN circ)
    BY <1>2 DEF IsTable
  <2>2. DOMAIN circ' = (DOMAIN circ) \cup new
    BY <1>1
  <2> QED BY <1>6, <2>1, <2>2, FS_Union
<1>9. ASSUME NEW n \in DOMAIN circ' PROVE circ'[n].kids \in Seq(DOMAIN circ')
  <2>1. CASE n \in DOMAIN circ
    <3>1. circ'[n] = circ[n] /\ circ[n].kids \in Seq(DOMAIN circ)
      BY <1>1, <1>2, <1>8, <2>1 DEF IsTable
    <3>2. DOMAIN circ \subseteq DOMAIN circ'
      BY <1>8
    <3> QED BY <3>1, <3>2, SeqMonotonic
  <2>2. CASE n \notin DOMAIN circ
    <3>1. circ'[n] = Gate("plus", Sorted(Joined(n)))
      BY <1>1, <1>8, <2>2
    <3>2. circ'[n].kids = Sorted(Joined(n))
      BY <3>1 DEF Gate
    <3>3. /\ Joined(n) \subseteq DOMAIN answers /\ IsFiniteSet(Joined(n)) /\ Joined(n) \subseteq Int
      BY <1>4 DEF Joined
    <3>4. Sorted(Joined(n)) \in Seq(Joined(n))
      BY <3>3, SortedIs
    <3>5. Joined(n) \subseteq DOMAIN circ'
      BY <1>2, <1>8, <3>3
    <3> QED BY <3>2, <3>4, <3>5, SeqMonotonic
  <2> QED BY <2>1, <2>2
<1>10. DOMAIN roots' = keys /\ \A key \in keys : roots'[key] \in DOMAIN circ'
  <2>1. DOMAIN roots' = keys
    BY <1>1
  <2>2. ASSUME NEW key \in keys PROVE roots'[key] \in DOMAIN circ'
    <3>1. CASE key \in many
      <4>1. roots'[key] = Fresh(key)
        BY <1>1, <3>1
      <4> QED BY <1>7, <1>8, <3>1, <4>1
    <3>2. CASE key \notin many
      <4>1. roots'[key] = Min(Group(answers, key))
        BY <1>1, <3>2
      <4>2. Min(Group(answers, key)) \in Group(answers, key)
        BY <1>4, <1>5, MinIs
      <4> QED BY <1>2, <1>4, <1>8, <4>1, <4>2
    <3> QED BY <3>1, <3>2
  <2> QED BY <2>1, <2>2
<1>11. TableInv'
  <2>1. IsTable(circ')
    BY <1>8, <1>9 DEF IsTable
  <2>2. RootSet' \subseteq DOMAIN circ'
    BY <1>10 DEF RootSet
  <2> QED BY <1>3, <1>10, <2>1, <2>2 DEF TableInv
<1>12. AtRest
  BY <1>1 DEF CompilerInv, AtRest
<1> QED BY <1>1, <1>2, <1>11, <1>12 DEF CompilerInv, CyclesAreRejected, AtRest

LEMMA PrepareStep ==
    ASSUME CompilerInv, Prepare
    PROVE  CompilerInv'
<1>1. /\ phase = "prepare" /\ AtRest /\ TableInv /\ source \in Sources
      /\ mode \in {"shared", "per-root", "d4", "portfolio"}
  BY DEF Prepare, CompilerInv, AtRest
<1>2. CASE ~WeightsCover
  <2> DEFINE error == "missing probability"
  <2>1. Fails(error) /\ Quiet(error)
    BY <1>2 DEF Prepare, Quiet
  <2> HIDE DEF error
  <2> QED BY <2>1, FailsStep
<1>3. CASE WeightsCover
  <2>1. /\ todo' = Sorted(DOMAIN roots)
        /\ phase' = CASE mode = "d4" -> "d4" [] mode = "portfolio" -> "portfolio" [] OTHER -> "compile"
        /\ UNCHANGED <<source, circ, roots, mode, stack, visiting, memo>>
    BY <1>3 DEF Prepare, input, table, machine
  <2>2. /\ phase' = "compile" => mode \in {"shared", "per-root"}
        /\ phase' \in {"d4", "portfolio", "compile"}
        /\ phase' = "d4" => mode = "d4"
        /\ phase' = "portfolio" => mode = "portfolio"
    BY <1>1, <2>1
  <2>3. ASSUME mode \in {"shared", "per-root"} PROVE SearchInv'
    <3>1. todo' \in Seq(DOMAIN roots) /\ ToSet(todo') = DOMAIN roots
      BY <1>1, <2>1, SortedIs DEF TableInv
    <3>2. \A key \in DOMAIN roots : \E i \in DOMAIN todo' : todo'[i] = key
      BY <3>1 DEF ToSet
    <3>3. stack' = << >> /\ visiting' = {} /\ DOMAIN memo' = {} /\ DOMAIN stack' = {}
      BY <1>1, <2>1 DEF AtRest
    <3>4. Ranked(circ, {})
      BY DEF Ranked, Closed
    <3>5. PathInv'
      <4>1. Opened(stack') = {}
        BY <3>3 DEF Opened
      <4>2. stack' \in Seq((DOMAIN circ') \X BOOLEAN)
        BY <3>3, EmptySeq
      <4> QED BY <3>3, <4>1, <4>2 DEF PathInv
    <3>6. /\ mode' = mode /\ roots' = roots /\ circ' = circ
      BY <2>1
    <3> QED BY <2>3, <3>1, <3>2, <3>3, <3>4, <3>5, <3>6 DEF SearchInv
  <2>4. TableInv'
    BY <1>1, <2>1 DEF TableInv, RootSet
  <2> QED BY <1>1, <2>1, <2>2, <2>3, <2>4 DEF CompilerInv, CyclesAreRejected
<1> QED BY <1>2, <1>3

LEMMA CountStep ==
    ASSUME CompilerInv, CountModels
    PROVE  CompilerInv'
<1>1. /\ phase = "compile" /\ todo = << >> /\ phase' = "persist"
      /\ UNCHANGED <<source, circ, roots, mode>>
  BY DEF CountModels, input, table
<1>2. TableInv /\ SearchInv /\ source \in Sources
  BY <1>1 DEF CompilerInv
<1>3. \A r \in RootSet : Acyclic(circ, {r})
  <2>1. DOMAIN todo = {}
    BY <1>1
  <2>2. \A key \in DOMAIN roots : Acyclic(circ, {roots[key]})
    BY <1>2, <2>1 DEF SearchInv
  <2> QED BY <2>2 DEF RootSet
<1>4. Acyclic(circ, RootSet)
  BY <1>2, <1>3, AcyclicTogether DEF TableInv
<1>5. Acyclic(circ, RootSet)'
  <2>1. RootSet' = RootSet /\ circ' = circ
    BY <1>1 DEF RootSet
  <2> QED BY <1>4, <2>1
<1> QED BY <1>1, <1>2, <1>5 DEF CompilerInv, CyclesAreRejected

LEMMA CompileStep ==
    ASSUME CompilerInv, NextRoot \/ RootCompiled \/ PopKnown \/ PopExpanded \/ Expand
    PROVE  CompilerInv'
<1>1. phase = "compile" /\ UNCHANGED <<source, circ, roots, mode>> /\ source \in Sources
  BY DEF CompilerInv, NextRoot, RootCompiled, PopKnown, PopExpanded, Expand, Fails, input, table
<1>2. Compiling
  BY <1>1 DEF CompilerInv, Compiling
<1>3. TableInv'
  BY <1>1, <1>2 DEF Compiling, TableInv, RootSet
<1>4. ASSUME SearchInv', phase' = phase PROVE CompilerInv'
  BY <1>1, <1>3, <1>4 DEF CompilerInv, CyclesAreRejected
<1>5. CASE NextRoot
  BY <1>2, <1>4, <1>5, NextRootStep DEF NextRoot
<1>6. CASE RootCompiled
  BY <1>2, <1>4, <1>6, RootCompiledStep DEF RootCompiled
<1>7. CASE PopKnown
  BY <1>2, <1>4, <1>7, PopKnownStep DEF PopKnown
<1>8. CASE PopExpanded
  BY <1>2, <1>4, <1>8, PopExpandedStep DEF PopExpanded
<1>9. CASE Expand /\ ~OnCycle(Node)
  BY <1>2, <1>4, <1>9, ExpandStep
<1>10. CASE Expand /\ OnCycle(Node)
  <2>1. phase' = "cycle" /\ stack # << >>
    BY <1>10 DEF Expand, Fails
  <2>2. ~Acyclic(circ, RootSet)
    BY <1>2, <1>10, <2>1, OnCycleIsFound
  <2>3. ~Acyclic(circ, RootSet)'
    <3>1. RootSet' = RootSet /\ circ' = circ
      BY <1>1 DEF RootSet
    <3> QED BY <2>2, <3>1
  <2> QED BY <1>1, <2>1, <2>3 DEF CompilerInv, CyclesAreRejected
<1> QED BY <1>5, <1>6, <1>7, <1>8, <1>9, <1>10

\* d4, the portfolio and publication do not touch the graph.
LEMMA OutputStep ==
    ASSUME CompilerInv, D4Answer \/ D4Done \/ Publish \/ (Portfolio /\ phase' = "done")
    PROVE  CompilerInv'
<1>1. /\ UNCHANGED <<source, circ, roots, mode>> /\ source \in Sources
      /\ \/ phase = "d4" /\ phase' \in {"d4", "persist"}
         \/ phase = "persist" /\ phase' = "done"
         \/ phase = "portfolio" /\ phase' = "done"
  <2>1. CASE D4Answer
    BY <2>1 DEF D4Answer, CompilerInv, input, table
  <2>2. CASE D4Done
    BY <2>2 DEF D4Done, CompilerInv, input, table
  <2>3. CASE Publish
    BY <2>3 DEF Publish, CompilerInv, input, table
  <2>4. CASE Portfolio /\ phase' = "done"
    BY <2>4 DEF Portfolio, Fails, CompilerInv, input, table
  <2> QED BY <2>1, <2>2, <2>3, <2>4
<1>2. phase = "persist" /\ mode \in {"shared", "per-root"} => Acyclic(circ, RootSet)
  BY DEF CompilerInv, CyclesAreRejected
<1>3. phase = "persist" /\ mode \in {"shared", "per-root"} => Acyclic(circ, RootSet)'
  <2>1. RootSet' = RootSet /\ circ' = circ
    BY <1>1 DEF RootSet
  <2> QED BY <1>2, <2>1
<1>4. (phase = "d4" => mode = "d4") /\ (phase = "portfolio" => mode = "portfolio")
  BY DEF CompilerInv
<1> QED BY <1>1, <1>3, <1>4 DEF CompilerInv, CyclesAreRejected

LEMMA FailureStep ==
    ASSUME CompilerInv, D4Timeout \/ (Portfolio /\ phase' # "done")
    PROVE  CompilerInv'
<1> DEFINE late == "timeout"
           deep == "RecursionError"
<1>1. Fails(late) \/ Fails(deep)
  BY DEF D4Timeout, Portfolio
<1>2. Quiet(late) /\ Quiet(deep)
  BY DEF Quiet
<1> HIDE DEF late, deep
<1> QED BY <1>1, <1>2, FailsStep

LEMMA StutterStep ==
    ASSUME CompilerInv, UNCHANGED compilerVars
    PROVE  CompilerInv'
<1>1. UNCHANGED <<source, phase, circ, roots, mode, todo, stack, visiting, memo>>
  BY DEF compilerVars, input, table, machine
<1>2. RootSet' = RootSet
  BY <1>1 DEF RootSet
<1>3. TableInv' <=> TableInv
  BY <1>1, <1>2 DEF TableInv
<1>4. SearchInv' <=> SearchInv
  BY <1>1, <1>2 DEF SearchInv, PathInv
<1>5. CyclesAreRejected' <=> CyclesAreRejected
  BY <1>1, <1>2 DEF CyclesAreRejected
<1> QED BY <1>1, <1>3, <1>4, <1>5 DEF CompilerInv

\* Every step of the reader and the compiler keeps the invariant.
LEMMA CompilerStep ==
    ASSUME CompilerInv, [CompilerNext]_compilerVars
    PROVE  CompilerInv'
<1>1. CASE ReadCircuit \/ ReadDag \/ MergeAnswerRoots \/ Prepare
  BY <1>1, ReadCircuitStep, ReadDagStep, MergeStep, PrepareStep
<1>2. CASE NextRoot \/ RootCompiled \/ PopKnown \/ PopExpanded \/ Expand
  BY <1>2, CompileStep
<1>3. CASE CountModels
  BY <1>3, CountStep
<1>4. CASE D4Answer \/ D4Done \/ Publish \/ D4Timeout \/ Portfolio
  BY <1>4, OutputStep, FailureStep
<1>5. CASE UNCHANGED compilerVars
  BY <1>5, StutterStep
<1> QED BY <1>1, <1>2, <1>3, <1>4, <1>5 DEF CompilerNext, Step, Ended

\* The compiler's search refuses a graph exactly when a root reaches a cycle, whatever the
\* graph, the number of its roots, and whether they share a memo.
THEOREM CyclesRejected ==
    CompilerSpec => []CyclesAreRejected
<1>1. CompilerInit => CompilerInv
  BY DEF CompilerInit, CompilerInv, CyclesAreRejected
<1>2. CompilerInv /\ [CompilerNext]_compilerVars => CompilerInv'
  BY CompilerStep
<1>3. CompilerInv => CyclesAreRejected
  BY DEF CompilerInv
<1> QED BY <1>1, <1>2, <1>3, PTL DEF CompilerSpec
=============================================================================
