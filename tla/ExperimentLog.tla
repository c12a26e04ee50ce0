--------------------------- MODULE ExperimentLog ---------------------------
(***************************************************************************)
(* The two controlled experiments, compiler_granularity.py and             *)
(* controlled_mechanisms.py, share one protocol: an invocation takes a     *)
(* lock, loads an append-only CSV (cutting a torn tail), walks the schedule *)
(* of attempts, runs each missing attempt in a killable worker process,    *)
(* appends one row per slot, and finally publishes a sidecar that binds the *)
(* finished CSV.  Any number of invocations may be started against the     *)
(* same output, be killed, be interrupted, and be followed by others.      *)
(***************************************************************************)
EXTENDS Integers, Sequences

CONSTANTS Invocations,  \* processes started on the same output file
          Cells,        \* sequence of physical cells (instance, mode, reordering)
          InstanceOf,   \* the instance of a cell: rows of it share a baseline
          Attempts,     \* warm-ups and measured repetitions of a cell
          Sums,         \* probability checksums an attempt may report
          Faults,       \* how a worker's answer may report failure
          MaxEnv        \* bound on the identities of HEAD, tools and frozen inputs

NoOne == "no one"

\* A schedule is not empty and knows the instance of every cell.
ASSUME ExperimentAssumption ==
  /\ NoOne \notin Invocations
  /\ Cells \in Seq(DOMAIN InstanceOf) \ {<< >>}
  /\ Faults \cap {"ok", "not-run"} = {}
  /\ Attempts \in Nat \ {0} /\ MaxEnv \in Nat \ {0}

VARIABLES
  timed,    \* compiler_granularity (a lock timeout, publication by hard link)
            \* or controlled_mechanisms (no timeout, publication by replacement)
  env,      \* identity of everything an invocation snapshots, which may change
  file,     \* the CSV: its header, its whole rows and its torn tail
  sidecar,  \* the completion document
  lock,     \* the invocation whose open lock file holds the flock, or NoOne
  pc, seen, \* of an invocation: where it is, the identity it snapshotted
  rows,     \* the rows it believes the file holds
  worker,   \* its worker process: none, running, answered or dead
  answer,   \* what that worker put in the pipe
  stray,    \* a worker group of it survived every signal
  cause     \* why it stopped with an exception, or the status it reported

vars == <<timed, env, file, sidecar, lock, pc, seen, rows, worker, answer,
          stray, cause>>
machine == <<timed, env, sidecar, lock>>
process == <<worker, answer, stray>>

NSlots == Len(Cells) * Attempts
CellOf(slot) == Cells[((slot - 1) \div Attempts) + 1]
InstanceAt(slot) == InstanceOf[CellOf(slot)]

NoSidecar == [state |-> "none", rows |-> << >>, env |-> 0]
NoAnswer == [status |-> "none", sum |-> 0]

-----------------------------------------------------------------------------
(* The bytes of the checkpoint.  Rows end in CR LF. *)

\* Everything a write of row to f that stops early may leave: a prefix of
\* header, CR, LF, row, CR.
TornWrites(f, row) ==
  LET base == IF f.header THEN {f}
              ELSE {f, [f EXCEPT !.header = TRUE]}
  IN {[b EXCEPT !.tail = t] : b \in base, t \in {"none", "part", "cr"}}
       \cup {[f EXCEPT !.header = TRUE, !.rows = Append(@, row)]}

Repaired(f) == IF f.tail = "part" THEN [f EXCEPT !.tail = "none"] ELSE f

\* append_checkpoint reads and repairs the file again before it writes.
Appended(f, row) == [Repaired(f) EXCEPT !.header = TRUE, !.rows = Append(@, row)]

\* Canonical means that writing the parsed rows again gives the same bytes.
Canonical(f) == f.tail = "none"

-----------------------------------------------------------------------------
(* Rows, parity and the validation of a prefix. *)

Fails(row) == row.status # "ok" \/ row.parity = "mismatch"

FirstOf(S) == CHOOSE i \in S : \A j \in S : i <= j

Succeeded(rs, slot) == {i \in DOMAIN rs : /\ InstanceAt(rs[i].slot) = InstanceAt(slot)
                                          /\ rs[i].status = "ok"}

Compared(status, sum, baseline) ==
  IF status # "ok" THEN "unverified"
  ELSE IF baseline = {} THEN "baseline"
  ELSE IF sum \in baseline THEN "ok" ELSE "mismatch"

\* What the driver compares with: an accepted row of the instance, the first.
Baseline_Latest(rs, slot) ==
  {rs[i].sum : i \in {j \in Succeeded(rs, slot) : \A k \in Succeeded(rs, slot) : k <= j}}
Baseline(rs, slot) ==
  LET accepted == {i \in Succeeded(rs, slot) : rs[i].parity \in {"baseline", "ok"}}
  IN {rs[i].sum : i \in {j \in accepted : j = FirstOf(accepted)}}

\* What the validation compares with: the first success.
ExpectedParity(rs, row) ==
  LET known == Succeeded(rs, row.slot)
  IN Compared(row.status, row.sum, {rs[i].sum : i \in {j \in known : j = FirstOf(known)}})

Blocked(rs, slot) ==
  \E i \in DOMAIN rs : /\ rs[i].slot < slot
                       /\ CellOf(rs[i].slot) = CellOf(slot)
                       /\ Fails(rs[i])

\* One file is of one batch, configuration and tools.
InScope(row, identity) == row.env = identity

ValidRow(rs, i, identity) ==
  LET before == SubSeq(rs, 1, i - 1)
      row == rs[i]
  IN /\ row.slot = i
     /\ InScope(row, identity)
     /\ IF Blocked(before, i) THEN row.status = "not-run"
        ELSE /\ row.status # "not-run"
             /\ row.parity = ExpectedParity(before, row)

ValidCheckpoint(rs, identity) ==
  /\ Len(rs) <= NSlots
  /\ \A i \in DOMAIN rs : ValidRow(rs, i, identity)

Missing(rs) == {slot \in 1..NSlots : \A i \in DOMAIN rs : rs[i].slot # slot}

\* The row of slot.
Row(p, slot, status, sum) ==
  [slot |-> slot, env |-> seen[p], status |-> status, sum |-> sum,
   parity |-> Compared(status, sum, Baseline(rows[p], slot))]

\* The status a finished log gives its experiment.
Resource == {"timeout", "oom"}
Verdict(rs) ==
  LET statuses == {rs[i].status : i \in DOMAIN rs}
  IN IF (\E i \in DOMAIN rs : rs[i].parity = "mismatch")
        \/ statuses \ (Resource \cup {"ok", "not-run"}) # {}
     THEN "failed"
     ELSE IF statuses \cap Resource # {} THEN "resource-boundary" ELSE "ok"

-----------------------------------------------------------------------------
(* The lock is an flock on an open file that a forked worker inherits.  An *)
(* explicit unlock frees it; a killed driver's lock lives on in its worker. *)

Alive(p) == worker[p] = "running"
Ended == {"done", "raised", "killed"}

LockIsFree_Always == TRUE
LockIsFree == lock = NoOne

\* HEAD, the tools and the frozen inputs, as they are now.
Identity == env

Snapshot(p) == seen' = [seen EXCEPT ![p] = Identity]

Acquire(p) ==
  /\ pc[p] = "waiting" /\ LockIsFree
  /\ lock' = p
  /\ Snapshot(p)
  /\ pc' = [pc EXCEPT ![p] = "loading"]
  /\ UNCHANGED <<timed, env, file, sidecar, rows, process, cause>>

\* What an ended driver held in memory is gone.
Forget(p) == rows' = [rows EXCEPT ![p] = << >>]

Raise(p, why) ==
  /\ pc' = [pc EXCEPT ![p] = "raised"]
  /\ cause' = [cause EXCEPT ![p] = why]
  /\ lock' = IF lock = p THEN NoOne ELSE lock
  /\ Forget(p)
  /\ UNCHANGED <<timed, env, sidecar, seen>>

LockTimeout(p) ==
  /\ pc[p] = "waiting" /\ lock # NoOne /\ timed
  /\ Raise(p, "lock") /\ UNCHANGED <<file, process>>

LockAfterKill_ByTheDriver(p) == {IF lock = p THEN NoOne ELSE lock}
LockAfterKill(p) == IF lock # p THEN {lock}
                    ELSE IF Alive(p) THEN {p}
                    ELSE IF stray[p] THEN {p, NoOne} ELSE {NoOne}

\* The driver dies without running any handler.  (One that dies while it waits
\* for the lock leaves nothing.)
Kill(p) ==
  /\ pc[p] \notin Ended \cup {"waiting"}
  /\ pc' = [pc EXCEPT ![p] = "killed"]
  /\ lock' \in LockAfterKill(p)
  /\ Forget(p)
  /\ UNCHANGED <<timed, env, file, sidecar, seen, process, cause>>

\* Ctrl-C while an attempt runs: the worker has its own session and goes on.
Interrupt(p) ==
  /\ pc[p] = "attempt"
  /\ Raise(p, "interrupt") /\ UNCHANGED <<file, process>>

\* validate_completion.
Binds(p, f) == Len(f.rows) = NSlots /\ sidecar.rows = f.rows /\ sidecar.env = seen[p]

\* What load_checkpoint and the validations after it find wrong with f.
Refusal(p, f) ==
  IF ~Canonical(f) THEN "torn"
  ELSE IF ~ValidCheckpoint(f.rows, seen[p]) THEN "scope"
  ELSE IF sidecar.state = "whole" /\ ~Binds(p, f) THEN "completion" ELSE "none"

\* Only a file without a completion document may be repaired.
Load(p) ==
  LET f == IF sidecar.state = "none" THEN Repaired(file) ELSE file
  IN /\ pc[p] = "loading"
     /\ IF sidecar.state = "linked"
        THEN Raise(p, "linked") /\ UNCHANGED file
        ELSE /\ file' = f
             /\ IF Refusal(p, f) # "none" THEN Raise(p, Refusal(p, f))
                ELSE /\ rows' = [rows EXCEPT ![p] = f.rows]
                     /\ pc' = [pc EXCEPT ![p] = "loop"]
                     /\ UNCHANGED <<machine, seen, cause>>
     /\ UNCHANGED process

-----------------------------------------------------------------------------
(* One slot of the schedule. *)

\* validate_checkpoint on the rows with the new one, then append_checkpoint.
Record(p, row) ==
  LET next == Append(rows[p], row)
  IN IF ~ValidCheckpoint(next, seen[p])
     THEN Raise(p, "invalid") /\ UNCHANGED file
     ELSE \/ /\ file' = Appended(file, row)
             /\ rows' = [rows EXCEPT ![p] = next]
             /\ pc' = [pc EXCEPT ![p] = "loop"]
             /\ UNCHANGED <<machine, seen, cause>>
          \/ /\ file' \in TornWrites(Repaired(file), row)
             /\ pc' = [pc EXCEPT ![p] = "killed"]
             /\ lock' = IF lock = p THEN NoOne ELSE lock
             /\ Forget(p)
             /\ UNCHANGED <<timed, env, sidecar, seen, cause>>

NextSlot(p) == FirstOf(Missing(rows[p]))

RecordNotRun(p) ==
  /\ pc[p] = "loop" /\ Missing(rows[p]) # {}
  /\ Blocked(rows[p], NextSlot(p))
  /\ Record(p, [Row(p, NextSlot(p), "not-run", 0) EXCEPT !.parity = "unverified"])
  /\ UNCHANGED process

Spawn(p) ==
  /\ pc[p] = "loop" /\ Missing(rows[p]) # {}
  /\ ~Blocked(rows[p], NextSlot(p))
  /\ pc' = [pc EXCEPT ![p] = "attempt"]
  /\ worker' = [worker EXCEPT ![p] = "running"]
  /\ answer' = [answer EXCEPT ![p] = NoAnswer]
  /\ UNCHANGED <<machine, file, seen, rows, stray, cause>>

FreedByWorker(p) == IF lock = p /\ pc[p] = "killed" /\ ~stray[p] THEN NoOne ELSE lock

\* An answer that no driver waits for is lost with its pipe.
Answer(p, a) ==
  /\ Alive(p)
  /\ answer' = [answer EXCEPT ![p] = IF pc[p] = "attempt" THEN a ELSE NoAnswer]
  /\ worker' = [worker EXCEPT ![p] = "answered"]
  /\ lock' = FreedByWorker(p)
  /\ UNCHANGED <<timed, env, file, sidecar, pc, seen, rows, stray, cause>>

WorkerSucceeds(p) == \E sum \in Sums : Answer(p, [status |-> "ok", sum |-> sum])
WorkerFails(p) == \E fault \in Faults : Answer(p, [status |-> fault, sum |-> 0])

\* How the binary64 result of an answer may differ from its 100-digit oracle.
Errors == {"none", "tolerance", "underflow", "non-finite"}

\* The classification needs every answer; a value that is not finite has no
\* checksum, so that it ends as an error whatever its classification.
NumericalStatus(errors) ==
  IF "non-finite" \in errors THEN "error"
  ELSE IF errors = {"none"} THEN "ok" ELSE "numerical-mismatch"

WorkerMismatches(p) ==
  /\ ~timed
  /\ \E errors \in SUBSET Errors \ {{}} :
       /\ NumericalStatus(errors) # "ok"
       /\ Answer(p, [status |-> NumericalStatus(errors), sum |-> 0])

WorkerDies(p) ==
  /\ Alive(p)
  /\ worker' = [worker EXCEPT ![p] = "dead"]
  /\ lock' = FreedByWorker(p)
  /\ UNCHANGED <<timed, env, file, sidecar, pc, seen, rows, answer, stray, cause>>

StrayExits(p) ==
  /\ stray[p]
  /\ stray' = [stray EXCEPT ![p] = FALSE]
  /\ lock' = IF lock = p /\ pc[p] = "killed" /\ ~Alive(p) THEN NoOne ELSE lock
  /\ UNCHANGED <<timed, env, file, sidecar, pc, seen, rows, worker, answer, cause>>

\* run_killable: the status of an attempt whose group was reaped or not.
StatusOf(p, timedOut) ==
  IF timedOut THEN "timeout"
  ELSE IF worker[p] = "answered" THEN answer[p].status ELSE "worker-exit"

\* A group that survives SIGTERM and SIGKILL is left to itself.
Leaves(p, reaped) == stray' = [stray EXCEPT ![p] = @ \/ ~reaped]

Reap(p, reaped) ==
  /\ worker' = [worker EXCEPT ![p] = "none"]
  /\ answer' = [answer EXCEPT ![p] = NoAnswer]
  /\ Leaves(p, reaped)

\* The deadline wins over an answer that is already in the pipe.
Collect(p) ==
  /\ pc[p] = "attempt"
  /\ \E timedOut, reaped \in BOOLEAN :
       /\ timedOut \/ ~Alive(p)
       /\ LET status == IF reaped THEN StatusOf(p, timedOut) ELSE "cleanup-error"
              sum == IF status = "ok" THEN answer[p].sum ELSE 0
          IN Record(p, Row(p, NextSlot(p), status, sum))
       /\ Reap(p, reaped)

\* An answer whose metrics contradict each other is refused, not recorded.
EvidenceRefused(p) ==
  /\ pc[p] = "attempt" /\ worker[p] = "answered"
  /\ answer[p].status \in {"ok", "numerical-mismatch"}
  /\ Raise(p, "evidence")
  /\ Reap(p, TRUE)
  /\ UNCHANGED file

-----------------------------------------------------------------------------
(* Completion. *)

SnapshotsHold(p) == Identity = seen[p]

\* Reload without repair, then the end checks.
FinalCheck(p) ==
  /\ pc[p] = "loop" /\ Missing(rows[p]) = {}
  /\ IF ~(Canonical(file) /\ Len(file.rows) = NSlots
          /\ ValidCheckpoint(file.rows, seen[p]))
     THEN Raise(p, "invalid")
     ELSE IF ~SnapshotsHold(p)
     THEN Raise(p, "moved")
     ELSE /\ pc' = [pc EXCEPT ![p] = "publish"]
          /\ UNCHANGED <<machine, seen, rows, cause>>
  /\ UNCHANGED <<file, process>>

\* os.link leaves two names until the temporary one is removed.
Link(p) ==
  /\ sidecar' = [state |-> "linked", rows |-> file.rows, env |-> seen[p]]
  /\ pc' = [pc EXCEPT ![p] = "unlink"]

\* os.replace leaves one.
Replace(p) ==
  /\ sidecar' = [state |-> "whole", rows |-> file.rows, env |-> seen[p]]
  /\ pc' = [pc EXCEPT ![p] = "recheck"]

\* write_completion.
Publish(p) ==
  /\ pc[p] = "publish"
  /\ IF sidecar.state = "none"
     THEN /\ IF timed THEN Link(p) ELSE Replace(p)
          /\ UNCHANGED <<timed, env, lock, seen, rows, cause>>
     ELSE IF sidecar.state = "whole" /\ Binds(p, file)
     THEN /\ pc' = [pc EXCEPT ![p] = "recheck"]
          /\ UNCHANGED <<machine, seen, rows, cause>>
     ELSE Raise(p, "completion")
  /\ UNCHANGED <<file, process>>

UnlinkTemporary(p) ==
  /\ pc[p] = "unlink"
  /\ sidecar' = [sidecar EXCEPT !.state = "whole"]
  /\ pc' = [pc EXCEPT ![p] = "recheck"]
  /\ UNCHANGED <<timed, env, lock, file, seen, rows, process, cause>>

\* The snapshots once more, after the evidence is durable.
Recheck(p) ==
  /\ pc[p] = "recheck"
  /\ IF ~SnapshotsHold(p) THEN Raise(p, "moved")
     ELSE /\ pc' = [pc EXCEPT ![p] = "done"]
          /\ cause' = [cause EXCEPT ![p] = Verdict(rows[p])]
          /\ lock' = NoOne
          /\ Forget(p)
          /\ UNCHANGED <<timed, env, sidecar, seen>>
  /\ UNCHANGED <<file, process>>

\* Somebody commits, rebuilds a tool or freezes other inputs, while an
\* invocation can still notice.
EnvMoves ==
  /\ env < MaxEnv /\ \E p \in Invocations : pc[p] \notin Ended
  /\ env' = env + 1
  /\ UNCHANGED <<timed, sidecar, lock, file, pc, seen, rows, process, cause>>

-----------------------------------------------------------------------------
Init ==
  /\ timed \in BOOLEAN
  /\ env = 1
  /\ file = [header |-> FALSE, rows |-> << >>, tail |-> "none"]
  /\ sidecar = NoSidecar
  /\ lock = NoOne
  /\ pc = [p \in Invocations |-> "waiting"]
  /\ seen = [p \in Invocations |-> 0]
  /\ rows = [p \in Invocations |-> << >>]
  /\ worker = [p \in Invocations |-> "none"]
  /\ answer = [p \in Invocations |-> NoAnswer]
  /\ stray = [p \in Invocations |-> FALSE]
  /\ cause = [p \in Invocations |-> "none"]

Driver(p) ==
  \/ Acquire(p) \/ LockTimeout(p) \/ Load(p) \/ RecordNotRun(p) \/ Spawn(p)
  \/ Collect(p) \/ EvidenceRefused(p) \/ FinalCheck(p) \/ Publish(p)
  \/ UnlinkTemporary(p) \/ Recheck(p)

Next ==
  \/ EnvMoves
  \/ \E p \in Invocations :
       \/ Driver(p) \/ Kill(p) \/ Interrupt(p)
       \/ WorkerSucceeds(p) \/ WorkerFails(p) \/ WorkerMismatches(p) \/ WorkerDies(p) \/ StrayExits(p)

Spec == Init /\ [][Next]_vars

-----------------------------------------------------------------------------
(* Properties. *)

\* Whatever invocations wrote, died and resumed, the whole rows are the
\* schedule up to some slot, under one identity; the first success of an
\* instance is its baseline and nothing else is; and the rows after a failure
\* of a cell say that they were not run.
LogIsASchedulePrefix ==
  \A i \in DOMAIN file.rows :
    LET row == file.rows[i]
        success == {j \in 1..i : /\ file.rows[j].status = "ok"
                                 /\ InstanceAt(j) = InstanceAt(i)}
    IN /\ row.slot = i /\ row.env = file.rows[1].env
       /\ (row.parity = "baseline") <=> (success = {i})
       /\ (row.status = "not-run") <=>
            \E j \in 1..(i - 1) : CellOf(j) = CellOf(i) /\ Fails(file.rows[j])

\* From the moment the completion document has a name, the CSV it binds has
\* every slot and keeps exactly those bytes; and an invocation reports ok only of
\* a completed log in which every attempt was run, succeeded and agreed.
CompletionBindsTheLog ==
  /\ sidecar.state # "none" =>
       /\ sidecar.rows = file.rows /\ Canonical(file)
       /\ Len(file.rows) = NSlots
       /\ \A i \in DOMAIN file.rows : file.rows[i].env = sidecar.env
  /\ (\E p \in Invocations : cause[p] = "ok") =>
       /\ sidecar.state = "whole"
       /\ \A i \in 1..NSlots :
            file.rows[i].status = "ok" /\ file.rows[i].parity \in {"baseline", "ok"}

\* Two attempts are measured at once only if a driver was interrupted under
\* its worker: a killed driver's worker still holds the lock.
MeasurementsDoNotOverlap ==
  \A p, q \in Invocations :
    p # q /\ Alive(p) /\ Alive(q) => "interrupt" \in {cause[p], cause[q]}

\* An invocation refuses what it finds only for a reason outside it: another
\* identity, a file that ends in a lone CR, a publication cut between link and
\* unlink, a worker's contradictory metrics, a held lock.  It never refuses the
\* rows an invocation wrote, nor its own.
RefusalHasCause ==
  \A p \in Invocations :
    CASE cause[p] = "torn" -> file.tail = "cr"
      [] cause[p] = "linked" -> sidecar.state = "linked"
      [] cause[p] = "scope" -> seen[p] # file.rows[1].env
      [] cause[p] = "moved" -> seen[p] # env
      [] OTHER -> cause[p] \notin {"invalid", "completion"}

=============================================================================
