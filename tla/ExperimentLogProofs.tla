------------------------- MODULE ExperimentLogProofs -------------------------
(***************************************************************************)
(* Theorems about ExperimentLog, for every schedule, every number of        *)
(* invocations and of moves of the environment: what the log says, what a   *)
(* completion document binds, that measurements do not overlap, and that    *)
(* an invocation refuses a log only for a reason outside it.                *)
(***************************************************************************)
EXTENDS ExperimentLog, WellFoundedInduction, TLAPS

-----------------------------------------------------------------------------
(* The first of a set of slots                                              *)

\* The order of the naturals, as a set of pairs.
LEMMA NatOrder ==
    \E R : IsWellFoundedOn(R, Nat) /\ \A x, y \in Nat : (<<y, x>> \in R) <=> y < x
<1> DEFINE Less(a, b) == a < b
           R == OpToRel(Less, Nat)
<1>1. IsWellFoundedOn(R, Nat)
  BY NatLessThanWellFounded
<1>2. \A x, y \in Nat : (<<y, x>> \in R) <=> y < x
  BY DEF OpToRel
<1> HIDE DEF R
<1> QED BY <1>1, <1>2

LEMMA NatMin ==
    ASSUME NEW T \in SUBSET Nat, T # {}
    PROVE  \E x \in T : \A y \in T : x <= y
<1>1. PICK R : IsWellFoundedOn(R, Nat) /\ \A x, y \in Nat : (<<y, x>> \in R) <=> y < x
  BY NatOrder
<1>2. \E x \in T : \A y \in T : ~(<<y, x>> \in R)
  BY <1>1, WFMin
<1>3. PICK x \in T : \A y \in T : ~(<<y, x>> \in R)
  BY <1>2
<1>4. ASSUME NEW y \in T PROVE x <= y
  <2>1. x \in Nat /\ y \in Nat /\ ~(y < x)
    BY <1>1, <1>3
  <2> QED BY <2>1
<1> QED BY <1>4

\* FirstOf is the least element.
LEMMA FirstIsLeast ==
    ASSUME NEW T \in SUBSET Nat, T # {}
    PROVE  FirstOf(T) \in T /\ \A y \in T : FirstOf(T) <= y
<1>1. \E x \in T : \A y \in T : x <= y
  BY NatMin
<1> QED BY <1>1 DEF FirstOf

LEMMA FirstIs ==
    ASSUME NEW T \in SUBSET Nat, NEW x \in T, \A y \in T : x <= y
    PROVE  FirstOf(T) = x
<1>1. FirstOf(T) \in T /\ FirstOf(T) <= x
  BY FirstIsLeast
<1>2. x <= FirstOf(T) /\ x \in Nat /\ FirstOf(T) \in Nat
  BY <1>1
<1> QED BY <1>1, <1>2

-----------------------------------------------------------------------------
(* The invariant                                                            *)

AnswerStatus == Faults \cup {"ok", "none", "error", "numerical-mismatch"}
RowStatus == AnswerStatus \cup {"not-run", "timeout", "cleanup-error", "worker-exit"}
RowType == [slot : Nat, env : Nat, status : RowStatus, sum : Sums \cup {0},
            parity : {"unverified", "baseline", "ok", "mismatch"}]
FileType == [header : BOOLEAN, rows : Seq(RowType), tail : {"none", "part", "cr"}]

TypeOK ==
  /\ timed \in BOOLEAN
  /\ env \in Nat
  /\ file \in FileType
  /\ sidecar \in [state : {"none", "linked", "whole"}, rows : Seq(RowType), env : Nat]
  /\ lock \in Invocations \cup {NoOne}
  /\ pc \in [Invocations -> {"waiting", "loading", "loop", "attempt", "publish", "unlink",
                             "recheck", "done", "raised", "killed"}]
  /\ seen \in [Invocations -> Nat]
  /\ rows \in [Invocations -> Seq(RowType)]
  /\ worker \in [Invocations -> {"none", "running", "answered", "dead"}]
  /\ answer \in [Invocations -> [status : AnswerStatus, sum : Sums \cup {0}]]
  /\ stray \in [Invocations -> BOOLEAN]
  /\ cause \in [Invocations -> {"none", "lock", "interrupt", "linked", "torn", "scope",
                                "completion", "invalid", "evidence", "moved",
                                "failed", "resource-boundary", "ok"}]

\* Where an invocation has the lock and has loaded the log.
Loaded == {"loop", "attempt", "publish", "unlink", "recheck"}

\* An invocation at work has the lock, and so has one whose worker is at work, dead
\* or alive, unless it was interrupted.
LockAt(p) ==
  /\ pc[p] \in Loaded \cup {"loading"} => lock = p
  /\ Alive(p) => /\ pc[p] \in {"attempt", "killed", "raised"}
                 /\ lock = p \/ cause[p] = "interrupt"

\* Whoever has the lock and has loaded the log knows it, and it is valid for him.
MemoryAt(p) ==
  /\ pc[p] \in Loaded => /\ rows[p] = file.rows /\ Canonical(file)
                         /\ ValidCheckpoint(rows[p], seen[p])
  /\ pc[p] = "attempt" => Missing(rows[p]) # {} /\ ~Blocked(rows[p], NextSlot(p))
  /\ pc[p] \in {"publish", "unlink", "recheck"} => Missing(rows[p]) = {}
  /\ pc[p] \in {"loop", "attempt", "publish"} => sidecar.state # "linked"
  /\ pc[p] = "unlink" => sidecar.state = "linked"
  /\ pc[p] = "recheck" => sidecar.state = "whole"

\* What made an invocation stop stays as it found it.
CauseAt(p) ==
  /\ pc[p] \notin {"raised", "done"} => cause[p] = "none"
  /\ seen[p] <= env
  /\ cause[p] = "torn" => file.tail = "cr"
  /\ cause[p] = "linked" =>
       sidecar.state = "linked" /\ \A q \in Invocations : pc[q] \notin Loaded
  /\ cause[p] = "scope" => file.rows # << >> /\ seen[p] # file.rows[1].env
  /\ cause[p] = "moved" => seen[p] < env
  /\ cause[p] \notin {"invalid", "completion"}

\* The whole rows are valid under the identity of the first of them.
Sound(rs) ==
  /\ rs # << >> => ValidCheckpoint(rs, rs[1].env)
  /\ \A i \in DOMAIN rs : rs[i].status # "ok" => rs[i].parity = "unverified"

LogInv ==
  /\ \A p \in Invocations : LockAt(p) /\ MemoryAt(p) /\ CauseAt(p)
  /\ Sound(file.rows)
  /\ CompletionBindsTheLog

\* Where the torn write of a row leaves the whole rows and the tail.
LEMMA TornWritesFacts ==
    ASSUME NEW f \in FileType,
           f.tail = "none", NEW row \in RowType, NEW g \in TornWrites(f, row)
    PROVE  /\ g \in FileType
           /\ g.rows = f.rows \/ g.rows = Append(f.rows, row)
<1> USE DEF FileType
<1>1. CASE g = [f EXCEPT !.header = TRUE, !.rows = Append(@, row)]
  <2> DEFINE rs == Append(f.rows, row)
  <2>1. rs \in Seq(RowType)
    OBVIOUS
  <2>2. g = [f EXCEPT !.header = TRUE, !.rows = rs]
    BY <1>1
  <2>3. rs = Append(f.rows, row)
    OBVIOUS
  <2> HIDE DEF rs
  <2> QED BY <2>1, <2>2, <2>3
<1>2. ASSUME NEW t \in {"none", "part", "cr"}, NEW b, b = f \/ b = [f EXCEPT !.header = TRUE],
             g = [b EXCEPT !.tail = t]
      PROVE  /\ g \in FileType
             /\ g.rows = f.rows \/ g.rows = Append(f.rows, row)
  <2>1. b \in FileType
    BY <1>2
  <2>2. b.rows = f.rows
    BY <1>2
  <2> QED BY <1>2, <2>1, <2>2
<1> DEFINE base == IF f.header THEN {f} ELSE {f, [f EXCEPT !.header = TRUE]}
<1>3. \A b \in base : b = f \/ b = [f EXCEPT !.header = TRUE]
  OBVIOUS
<1>4. \/ g = [f EXCEPT !.header = TRUE, !.rows = Append(@, row)]
      \/ g \in {[b EXCEPT !.tail = t] : b \in base, t \in {"none", "part", "cr"}}
  BY DEF TornWrites
<1> HIDE DEF base
<1>5. CASE g \in {[b EXCEPT !.tail = t] : b \in base, t \in {"none", "part", "cr"}}
  <2>1. PICK b \in base, t \in {"none", "part", "cr"} : g = [b EXCEPT !.tail = t]
    BY <1>5
  <2> QED BY <1>2, <1>3, <2>1
<1> QED BY <1>1, <1>4, <1>5

-----------------------------------------------------------------------------
(* What a valid checkpoint says                                             *)

LEMMA SlotsPositive == NSlots \in Nat /\ NSlots >= 1
<1>1. Len(Cells) \in Nat \ {0} /\ Attempts \in Nat \ {0}
  BY ExperimentAssumption
<1>2. \A a, b \in Nat \ {0} : a * b \in Nat /\ a * b >= 1
  OBVIOUS
<1> QED BY <1>1, <1>2 DEF NSlots

\* The rows of a checkpoint are the first slots of the schedule.
LEMMA CheckpointSlots ==
    ASSUME NEW rs \in Seq(RowType), NEW e, ValidCheckpoint(rs, e)
    PROVE  /\ Len(rs) <= NSlots
           /\ \A i \in DOMAIN rs : rs[i].slot = i /\ rs[i].env = e
           /\ Missing(rs) = (Len(rs) + 1)..NSlots
<1>1. Len(rs) <= NSlots /\ \A i \in DOMAIN rs : rs[i].slot = i /\ rs[i].env = e
  BY DEF ValidCheckpoint, ValidRow, InScope
<1>2. DOMAIN rs = 1..Len(rs) /\ Len(rs) \in Nat /\ NSlots \in Nat
  BY SlotsPositive
<1>3. ASSUME NEW s \in 1..NSlots
      PROVE  (\A i \in DOMAIN rs : rs[i].slot # s) <=> s \in (Len(rs) + 1)..NSlots
  BY <1>1, <1>2
<1> QED BY <1>1, <1>2, <1>3 DEF Missing

\* The slot after the last row is the next one.
LEMMA NextSlotIs ==
    ASSUME NEW rs \in Seq(RowType), NEW e, ValidCheckpoint(rs, e), Missing(rs) # {}
    PROVE  FirstOf(Missing(rs)) = Len(rs) + 1 /\ Len(rs) + 1 <= NSlots
<1>1. Missing(rs) = (Len(rs) + 1)..NSlots /\ Len(rs) \in Nat /\ NSlots \in Nat
  BY CheckpointSlots, SlotsPositive
<1>2. Len(rs) + 1 <= NSlots
  BY <1>1
<1>3. /\ Missing(rs) \in SUBSET Nat /\ Len(rs) + 1 \in Missing(rs)
      /\ \A y \in Missing(rs) : Len(rs) + 1 <= y
  BY <1>1, <1>2
<1> QED BY <1>2, <1>3, FirstIs

LEMMA NothingMissing ==
    ASSUME NEW rs \in Seq(RowType), NEW e, ValidCheckpoint(rs, e)
    PROVE  Missing(rs) = {} <=> Len(rs) = NSlots
BY CheckpointSlots, SlotsPositive

\* A valid checkpoint with a valid row more is one.
LEMMA AppendValid ==
    ASSUME NEW rs \in Seq(RowType), NEW e, ValidCheckpoint(rs, e), NEW row \in RowType,
           row.slot = Len(rs) + 1, Len(rs) + 1 <= NSlots, row.env = e,
           IF Blocked(rs, row.slot) THEN row.status = "not-run"
           ELSE row.status # "not-run" /\ row.parity = ExpectedParity(rs, row)
    PROVE  ValidCheckpoint(Append(rs, row), e)
<1> DEFINE ns == Append(rs, row)
<1>1. /\ ns \in Seq(RowType) /\ Len(ns) = Len(rs) + 1 /\ Len(rs) \in Nat
      /\ DOMAIN ns = 1..(Len(rs) + 1)
      /\ ns[Len(rs) + 1] = row /\ \A i \in 1..Len(rs) : ns[i] = rs[i]
  OBVIOUS
<1>2. \A i \in 1..(Len(rs) + 1) : SubSeq(ns, 1, i - 1) = SubSeq(rs, 1, i - 1)
  <2> SUFFICES ASSUME NEW i \in 1..(Len(rs) + 1)
               PROVE  SubSeq(ns, 1, i - 1) = SubSeq(rs, 1, i - 1)
    OBVIOUS
  <2>1. i - 1 \in 0..Len(rs)
    OBVIOUS
  <2> HIDE DEF ns
  <2> QED BY <1>1, <2>1
<1>3. SubSeq(rs, 1, (Len(rs) + 1) - 1) = rs
  OBVIOUS
<1> HIDE DEF ns
<1>4. ValidRow(ns, Len(rs) + 1, e)
  <2>1. SubSeq(ns, 1, (Len(rs) + 1) - 1) = rs
    BY <1>1, <1>2, <1>3
  <2> QED BY <1>1, <2>1 DEF ValidRow, InScope
<1>5. ASSUME NEW i \in 1..Len(rs) PROVE ValidRow(ns, i, e)
  <2>1. ValidRow(rs, i, e)
    BY DEF ValidCheckpoint
  <2>2. ns[i] = rs[i] /\ SubSeq(ns, 1, i - 1) = SubSeq(rs, 1, i - 1)
    BY <1>1, <1>2
  <2> QED BY <2>1, <2>2 DEF ValidRow
<1>6. \A i \in DOMAIN ns : i = Len(rs) + 1 \/ i \in 1..Len(rs)
  BY <1>1
<1> QED BY <1>1, <1>4, <1>5, <1>6 DEF ValidCheckpoint, ns

\* The rows before row i.
LEMMA BeforeFacts ==
    ASSUME NEW rs \in Seq(RowType), NEW i \in DOMAIN rs
    PROVE  LET before == SubSeq(rs, 1, i - 1)
           IN  /\ before \in Seq(RowType) /\ DOMAIN before = 1..(i - 1)
               /\ \A j \in 1..(i - 1) : before[j] = rs[j] /\ j \in DOMAIN rs
<1>1. i \in 1..Len(rs) /\ i - 1 \in 0..Len(rs) /\ Len(rs) \in Nat
  OBVIOUS
<1> QED BY <1>1

\* What the successes of an instance are.
LEMMA SucceededFacts ==
    ASSUME NEW rs, NEW slot
    PROVE  \A j : j \in Succeeded(rs, slot) <=>
                     /\ j \in DOMAIN rs
                     /\ InstanceAt(rs[j].slot) = InstanceAt(slot) /\ rs[j].status = "ok"
BY DEF Succeeded

\* The sums of the first element of a set of successes.
FirstSum(rs, T) == {rs[i].sum : i \in {j \in T : j = FirstOf(T)}}

LEMMA FirstSumEmpty ==
    ASSUME NEW rs, NEW T \in SUBSET Nat
    PROVE  FirstSum(rs, T) = {} <=> T = {}
<1>1. CASE T = {}
  BY <1>1 DEF FirstSum
<1>2. CASE T # {}
  <2>1. FirstOf(T) \in {j \in T : j = FirstOf(T)}
    BY <1>2, FirstIsLeast
  <2>2. rs[FirstOf(T)].sum \in FirstSum(rs, T)
    BY <2>1 DEF FirstSum
  <2> QED BY <1>2, <2>2
<1> QED BY <1>1, <1>2

\* The parity a comparison gives.
LEMMA ComparedFacts ==
    ASSUME NEW status, NEW sum, NEW base
    PROVE  /\ Compared(status, sum, base) \in {"unverified", "baseline", "ok", "mismatch"}
           /\ status # "ok" <=> Compared(status, sum, base) = "unverified"
           /\ status = "ok" => (Compared(status, sum, base) = "baseline" <=> base = {})
BY DEF Compared

\* The parity of a row of a valid checkpoint: it was compared with the first
\* success before it, unless it was not run.
LEMMA RowIsCompared ==
    ASSUME NEW rs \in Seq(RowType), NEW e, ValidCheckpoint(rs, e), NEW i \in DOMAIN rs
    PROVE  LET before == SubSeq(rs, 1, i - 1)
           IN  IF Blocked(before, i) THEN rs[i].status = "not-run"
               ELSE /\ rs[i].status # "not-run"
                    /\ rs[i].parity = Compared(rs[i].status, rs[i].sum,
                                               FirstSum(before, Succeeded(before, i)))
<1>1. ValidRow(rs, i, e) /\ rs[i].slot = i
  BY CheckpointSlots DEF ValidCheckpoint
<1> QED BY <1>1 DEF ValidRow, ExpectedParity, FirstSum

\* A row is blocked by an earlier failure of its cell.
LEMMA BlockedMeans ==
    ASSUME NEW rs \in Seq(RowType), NEW e, ValidCheckpoint(rs, e), NEW i \in DOMAIN rs
    PROVE  Blocked(SubSeq(rs, 1, i - 1), i) <=>
              \E j \in 1..(i - 1) : CellOf(j) = CellOf(i) /\ Fails(rs[j])
<1> DEFINE before == SubSeq(rs, 1, i - 1)
<1>1. /\ DOMAIN before = 1..(i - 1)
      /\ \A j \in 1..(i - 1) : before[j] = rs[j] /\ j \in DOMAIN rs
  BY BeforeFacts
<1>2. \A j \in DOMAIN rs : rs[j].slot = j
  BY CheckpointSlots
<1> HIDE DEF before
<1>3. \A j \in 1..(i - 1) : before[j] = rs[j] /\ before[j].slot = j /\ j < i
  BY <1>1, <1>2
<1>4. Blocked(before, i) <=> \E j \in 1..(i - 1) : CellOf(j) = CellOf(i) /\ Fails(rs[j])
  BY <1>1, <1>3 DEF Blocked
<1> QED BY <1>4 DEF before

\* The successes of an instance before row i.
LEMMA SucceededBefore ==
    ASSUME NEW rs \in Seq(RowType), NEW e, ValidCheckpoint(rs, e), NEW i \in DOMAIN rs, NEW s
    PROVE  \A j : j \in Succeeded(SubSeq(rs, 1, i - 1), s) <=>
                     /\ j \in 1..(i - 1) /\ InstanceAt(j) = InstanceAt(s) /\ rs[j].status = "ok"
<1> DEFINE before == SubSeq(rs, 1, i - 1)
<1>1. /\ DOMAIN before = 1..(i - 1)
      /\ \A j \in 1..(i - 1) : before[j] = rs[j] /\ j \in DOMAIN rs
  BY BeforeFacts
<1>2. \A j \in DOMAIN rs : rs[j].slot = j
  BY CheckpointSlots
<1> HIDE DEF before
<1>3. \A j : j \in Succeeded(before, s) <=>
                /\ j \in 1..(i - 1) /\ InstanceAt(j) = InstanceAt(s) /\ rs[j].status = "ok"
  BY <1>1, <1>2, SucceededFacts
<1> QED BY <1>3 DEF before

\* In a valid checkpoint the first accepted row of an instance is its first success:
\* the driver and the validation compare with the same sum.
LEMMA BaselineIsFirst ==
    ASSUME NEW rs \in Seq(RowType), NEW e, ValidCheckpoint(rs, e), NEW slot
    PROVE  Baseline(rs, slot) = FirstSum(rs, Succeeded(rs, slot))
<1> DEFINE known == Succeeded(rs, slot)
           accepted == {i \in known : rs[i].parity \in {"baseline", "ok"}}
<1>1. Baseline(rs, slot) = FirstSum(rs, accepted)
  BY DEF Baseline, FirstSum
<1>2. known \in SUBSET Nat /\ accepted \subseteq known
  BY DEF Succeeded
<1>3. CASE known = {}
  <2>1. accepted = known
    BY <1>3
  <2> QED BY <1>1, <2>1
<1>4. CASE known # {}
  <2> DEFINE f == FirstOf(known)
  <2>1. f \in known /\ \A y \in known : f <= y
    <3> HIDE DEF known
    <3> QED BY <1>2, <1>4, FirstIsLeast
  <2>2. f \in DOMAIN rs /\ InstanceAt(rs[f].slot) = InstanceAt(slot) /\ rs[f].status = "ok"
        /\ rs[f].slot = f
    BY <2>1, SucceededFacts, CheckpointSlots
  <2> HIDE DEF f
  <2> DEFINE before == SubSeq(rs, 1, f - 1)
             T == Succeeded(before, f)
  <2>3. T = {}
    <3> SUFFICES ASSUME NEW j \in T PROVE FALSE
      OBVIOUS
    <3>1. j \in 1..(f - 1) /\ InstanceAt(j) = InstanceAt(f) /\ rs[j].status = "ok"
      BY <2>2, SucceededBefore
    <3>2. j \in DOMAIN rs /\ rs[j].slot = j
      BY <2>2, <3>1, CheckpointSlots
    <3>3. j \in known
      BY <2>2, <3>1, <3>2, SucceededFacts
    <3>4. f <= j /\ f \in Nat /\ j \in Nat
      BY <1>2, <2>1, <3>3
    <3> QED BY <3>1, <3>4
  <2>4. FirstSum(before, T) = {}
    <3> HIDE DEF T, before
    <3> QED BY <2>3 DEF FirstSum
  <2>5. rs[f].parity = "baseline"
    <3>1. ~Blocked(before, f)
      BY <2>2, RowIsCompared
    <3>2. rs[f].parity = Compared(rs[f].status, rs[f].sum, FirstSum(before, T))
      BY <2>2, <3>1, RowIsCompared
    <3> HIDE DEF before, T
    <3> QED BY <2>2, <2>4, <3>2 DEF Compared
  <2>6. f \in accepted /\ \A y \in accepted : f <= y
    BY <2>1, <2>5
  <2> HIDE DEF accepted, known
  <2>7. FirstOf(accepted) = f
    BY <1>2, <2>6, FirstIs
  <2>8. FirstOf(known) = f
    BY DEF f
  <2>9. {j \in accepted : j = FirstOf(accepted)} = {j \in known : j = FirstOf(known)}
    BY <2>1, <2>6, <2>7, <2>8
  <2>10. FirstSum(rs, accepted) = FirstSum(rs, known)
    BY <2>9 DEF FirstSum
  <2> QED BY <1>1, <2>10 DEF accepted, known
<1> QED BY <1>3, <1>4

\* The prefix property of one log.
PrefixOf(rs) ==
  \A i \in DOMAIN rs :
    LET success == {j \in 1..i : rs[j].status = "ok" /\ InstanceAt(j) = InstanceAt(i)}
    IN /\ rs[i].slot = i /\ rs[i].env = rs[1].env
       /\ (rs[i].parity = "baseline") <=> (success = {i})
       /\ (rs[i].status = "not-run") <=>
            \E j \in 1..(i - 1) : CellOf(j) = CellOf(i) /\ Fails(rs[j])

LEMMA SoundMeansPrefix ==
    ASSUME NEW rs \in Seq(RowType), Sound(rs)
    PROVE  PrefixOf(rs)
<1> SUFFICES ASSUME NEW i \in DOMAIN rs
             PROVE  LET success == {j \in 1..i : /\ rs[j].status = "ok"
                                                 /\ InstanceAt(j) = InstanceAt(i)}
                    IN /\ rs[i].slot = i /\ rs[i].env = rs[1].env
                       /\ (rs[i].parity = "baseline") <=> (success = {i})
                       /\ (rs[i].status = "not-run") <=>
                            \E j \in 1..(i - 1) : CellOf(j) = CellOf(i) /\ Fails(rs[j])
  BY DEF PrefixOf
<1> DEFINE e == rs[1].env
           success == {j \in 1..i : rs[j].status = "ok" /\ InstanceAt(j) = InstanceAt(i)}
           before == SubSeq(rs, 1, i - 1)
           T == Succeeded(before, i)
<1>1. ValidCheckpoint(rs, e) /\ (rs[i].status # "ok" => rs[i].parity = "unverified")
  <2>1. rs # << >>
    OBVIOUS
  <2> QED BY <2>1 DEF Sound
<1>2. rs[i].slot = i /\ rs[i].env = e
  BY <1>1, CheckpointSlots
<1>3. (rs[i].status = "not-run") <=> Blocked(before, i)
  BY <1>1, RowIsCompared
<1>4. Blocked(before, i) <=> \E j \in 1..(i - 1) : CellOf(j) = CellOf(i) /\ Fails(rs[j])
  BY <1>1, BlockedMeans
<1>5. \A j : j \in T <=> /\ j \in 1..(i - 1) /\ InstanceAt(j) = InstanceAt(i)
                         /\ rs[j].status = "ok"
  BY <1>1, SucceededBefore
<1>6. (rs[i].parity = "baseline") <=> (success = {i})
  <2>1. CASE rs[i].status # "ok"
    BY <1>1, <2>1
  <2>2. CASE rs[i].status = "ok"
    <3>1. rs[i].parity = Compared(rs[i].status, rs[i].sum, FirstSum(before, T))
      BY <1>1, <1>3, <2>2, RowIsCompared
    <3>2. T \in SUBSET Nat
      BY <1>5
    <3>3. FirstSum(before, T) = {} <=> T = {}
      <4> HIDE DEF T, before
      <4> QED BY <3>2, FirstSumEmpty
    <3>4. i \in Nat \ {0}
      OBVIOUS
    <3> HIDE DEF T, before
    <3>5. success = {i} <=> T = {}
      <4>1. i \in success
        BY <2>2, <3>4
      <4>2. \A j : j \in success /\ j # i <=> j \in T
        BY <1>5, <3>4
      <4> HIDE DEF success
      <4> QED BY <1>5, <3>4, <4>1, <4>2
    <3> HIDE DEF success
    <3> QED BY <2>2, <3>1, <3>3, <3>5, ComparedFacts
  <2> QED BY <2>1, <2>2
<1> HIDE DEF success, before, T
<1> QED BY <1>2, <1>3, <1>4, <1>6 DEF success

\* When no row reports a fault or a mismatch, every attempt was run and agreed.
LEMMA OkMeansAllRan ==
    ASSUME NEW rs \in Seq(RowType), NEW e, ValidCheckpoint(rs, e), Verdict(rs) = "ok"
    PROVE  \A i \in DOMAIN rs : rs[i].status = "ok" /\ rs[i].parity \in {"baseline", "ok"}
<1>1. \A i \in DOMAIN rs : rs[i].parity # "mismatch" /\ rs[i].status \in {"ok", "not-run"}
  <2> DEFINE statuses == {rs[i].status : i \in DOMAIN rs}
  <2>1. /\ \A i \in DOMAIN rs : rs[i].parity # "mismatch"
        /\ statuses \ (Resource \cup {"ok", "not-run"}) = {} /\ statuses \cap Resource = {}
    BY DEF Verdict
  <2> QED BY <2>1
<1> DEFINE skipped == {i \in DOMAIN rs : rs[i].status = "not-run"}
<1>2. skipped = {}
  <2> SUFFICES ASSUME skipped # {} PROVE FALSE
    OBVIOUS
  <2>1. skipped \in SUBSET Nat
    OBVIOUS
  <2>2. PICK i \in skipped : \A y \in skipped : i <= y
    <3> HIDE DEF skipped
    <3> QED BY <2>1, NatMin
  <2>3. i \in DOMAIN rs /\ Blocked(SubSeq(rs, 1, i - 1), i)
    BY <2>2, RowIsCompared
  <2>4. PICK j \in 1..(i - 1) : Fails(rs[j])
    BY <2>3, BlockedMeans
  <2>5. j \in DOMAIN rs /\ j < i
    BY <2>3
  <2>6. j \in skipped
    BY <1>1, <2>4, <2>5 DEF Fails
  <2> QED BY <2>1, <2>2, <2>5, <2>6
<1>3. \A i \in DOMAIN rs : rs[i].status = "ok"
  BY <1>1, <1>2
<1>4. ASSUME NEW i \in DOMAIN rs PROVE rs[i].parity \in {"baseline", "ok"}
  <2>1. ~Blocked(SubSeq(rs, 1, i - 1), i)
    BY <1>3, RowIsCompared
  <2>2. rs[i].parity = Compared(rs[i].status, rs[i].sum,
                 FirstSum(SubSeq(rs, 1, i - 1), Succeeded(SubSeq(rs, 1, i - 1), i)))
    BY <2>1, RowIsCompared
  <2> QED BY <1>1, <1>3, <2>2 DEF Compared
<1> QED BY <1>3, <1>4

-----------------------------------------------------------------------------
(* What a step of one invocation leaves to the others                       *)

OthersKept(p) ==
  /\ \A q \in Invocations \ {p} :
       /\ pc'[q] = pc[q] /\ seen'[q] = seen[q] /\ rows'[q] = rows[q]
       /\ worker'[q] = worker[q] /\ cause'[q] = cause[q]
  /\ env' = env
  /\ \/ lock' = lock
     \/ lock = p /\ lock' = NoOne
     \/ lock = NoOne /\ lock' = p
  /\ (file' = file /\ sidecar' = sidecar) \/ lock = p
  /\ file.rows # << >> => file'.rows # << >> /\ file'.rows[1] = file.rows[1]
  /\ file.tail = "cr" => file'.tail = "cr"
  /\ sidecar.state = "linked" /\ pc[p] \notin Loaded =>
       sidecar'.state = "linked" /\ pc'[p] \notin Loaded

LEMMA OthersKeep ==
    ASSUME TypeOK, LogInv, NEW p \in Invocations, OthersKept(p), NEW q \in Invocations \ {p}
    PROVE  LockAt(q)' /\ MemoryAt(q)' /\ CauseAt(q)'
<1>1. /\ pc'[q] = pc[q] /\ seen'[q] = seen[q] /\ rows'[q] = rows[q]
      /\ worker'[q] = worker[q] /\ cause'[q] = cause[q] /\ env' = env
  BY DEF OthersKept
<1>2. LockAt(q) /\ MemoryAt(q) /\ CauseAt(q)
  BY DEF LogInv
<1>3. q # NoOne
  BY ExperimentAssumption
<1>4. lock = q => lock' = q /\ file' = file /\ sidecar' = sidecar
  BY <1>3 DEF OthersKept
<1>5. LockAt(q)'
  BY <1>1, <1>2, <1>4 DEF LockAt, Alive
<1>6. MemoryAt(q)'
  <2>1. CASE pc[q] \in Loaded
    <3>1. file' = file /\ sidecar' = sidecar
      BY <1>2, <1>4, <2>1 DEF LockAt
    <3> QED BY <1>1, <1>2, <3>1 DEF MemoryAt, Canonical, NextSlot
  <2>2. CASE pc[q] \notin Loaded
    BY <1>1, <2>2 DEF MemoryAt, Loaded
  <2> QED BY <2>1, <2>2
<1>7. CauseAt(q)'
  <2>1. cause[q] = "linked" =>
           sidecar'.state = "linked" /\ \A x \in Invocations : pc'[x] \notin Loaded
    <3> SUFFICES ASSUME cause[q] = "linked"
                 PROVE  sidecar'.state = "linked" /\ \A x \in Invocations : pc'[x] \notin Loaded
      OBVIOUS
    <3>1. sidecar.state = "linked" /\ \A x \in Invocations : pc[x] \notin Loaded
      BY <1>2 DEF CauseAt
    <3> QED BY <3>1 DEF OthersKept
  <2>2. cause[q] = "torn" => file'.tail = "cr"
    BY <1>2 DEF CauseAt, OthersKept
  <2>3. cause[q] = "scope" => file'.rows # << >> /\ seen[q] # file'.rows[1].env
    BY <1>2 DEF CauseAt, OthersKept
  <2> QED BY <1>1, <1>2, <2>1, <2>2, <2>3 DEF CauseAt
<1> QED BY <1>5, <1>6, <1>7

\* The binding stays where file and sidecar do and nobody newly reports ok.
LEMMA BindingKept ==
    ASSUME CompletionBindsTheLog, sidecar' = sidecar, file' = file \/ sidecar.state = "none",
           \A x \in Invocations : cause'[x] = "ok" => cause[x] = "ok"
    PROVE  CompletionBindsTheLog'
<1>1. CASE sidecar.state = "none"
  BY <1>1 DEF CompletionBindsTheLog
<1>2. CASE sidecar.state # "none"
  BY <1>2 DEF CompletionBindsTheLog, Canonical
<1> QED BY <1>1, <1>2

\* One step of p: its own part, the log and the completion document remain.
LEMMA Assembled ==
    ASSUME TypeOK, LogInv, NEW p \in Invocations, OthersKept(p),
           LockAt(p)', MemoryAt(p)', CauseAt(p)', Sound(file'.rows), CompletionBindsTheLog'
    PROVE  LogInv'
BY OthersKeep DEF LogInv

-----------------------------------------------------------------------------
(* Ending an invocation                                                     *)

\* An exception keeps the invariant when its cause is true and outside the driver.
LEMMA RaiseKeeps ==
    ASSUME TypeOK, LogInv, NEW p \in Invocations, NEW why, Raise(p, why), pc[p] \notin Ended,
           worker' = worker \/ worker' = [worker EXCEPT ![p] = "none"],
           worker'[p] = "running" => why = "interrupt",
           answer' \in [Invocations -> [status : AnswerStatus, sum : Sums \cup {0}]],
           stray' \in [Invocations -> BOOLEAN],
           file' \in FileType, file'.rows = file.rows, file.tail = "cr" => file'.tail = "cr",
           file' = file \/ (lock = p /\ sidecar.state = "none"),
           why \in {"lock", "interrupt", "linked", "torn", "scope", "evidence", "moved"},
           why = "torn" => file'.tail = "cr",
           why = "linked" =>
              sidecar.state = "linked" /\ \A q \in Invocations : pc[q] \notin Loaded,
           why = "scope" => file.rows # << >> /\ seen[p] # file.rows[1].env,
           why = "moved" => seen[p] < env
    PROVE  TypeOK' /\ LogInv'
<1>1. /\ pc' = [pc EXCEPT ![p] = "raised"] /\ cause' = [cause EXCEPT ![p] = why]
      /\ lock' = (IF lock = p THEN NoOne ELSE lock)
      /\ rows' = [rows EXCEPT ![p] = << >>]
      /\ timed' = timed /\ env' = env /\ sidecar' = sidecar /\ seen' = seen
  BY DEF Raise, Forget
<1>2. /\ pc'[p] = "raised" /\ cause'[p] = why /\ seen'[p] = seen[p]
      /\ \A q \in Invocations \ {p} :
            /\ pc'[q] = pc[q] /\ seen'[q] = seen[q] /\ rows'[q] = rows[q]
            /\ worker'[q] = worker[q] /\ cause'[q] = cause[q]
  BY <1>1 DEF TypeOK
<1>3. TypeOK'
  <2>1. << >> \in Seq(RowType)
    OBVIOUS
  <2>2. worker' \in [Invocations -> {"none", "running", "answered", "dead"}]
    BY DEF TypeOK
  <2> QED BY <1>1, <2>1, <2>2 DEF TypeOK
<1>4. OthersKept(p)
  BY <1>1, <1>2 DEF OthersKept, Loaded
<1>5. LockAt(p)'
  BY <1>2 DEF LockAt, Alive, Loaded
<1>6. MemoryAt(p)'
  BY <1>2 DEF MemoryAt, Loaded
<1>7. CauseAt(p)'
  <2>1. seen[p] <= env
    BY DEF LogInv, CauseAt
  <2>2. why = "linked" => \A q \in Invocations : pc'[q] \notin Loaded
    BY <1>2 DEF Loaded
  <2> QED BY <1>1, <1>2, <2>1, <2>2 DEF CauseAt
<1>8. Sound(file'.rows) /\ CompletionBindsTheLog'
  <2>1. \A x \in Invocations : cause'[x] = "ok" => cause[x] = "ok"
    BY <1>2
  <2> QED BY <1>1, <2>1, BindingKept DEF LogInv
<1> QED BY <1>3, <1>4, <1>5, <1>6, <1>7, <1>8, Assembled

LEMMA KillKeeps ==
    ASSUME TypeOK, LogInv, NEW p \in Invocations, Kill(p)
    PROVE  TypeOK' /\ LogInv'
<1>1. /\ pc' = [pc EXCEPT ![p] = "killed"] /\ cause' = cause /\ worker' = worker
      /\ pc[p] \notin Ended /\ rows' = [rows EXCEPT ![p] = << >>]
      /\ timed' = timed /\ env' = env /\ sidecar' = sidecar /\ seen' = seen /\ file' = file
      /\ answer' = answer /\ stray' = stray
  BY DEF Kill, Forget, process
<1>2. /\ lock' = lock \/ (lock = p /\ lock' = NoOne)
      /\ lock = p /\ Alive(p) => lock' = p
  BY DEF Kill, LockAfterKill
<1>3. /\ pc'[p] = "killed"
      /\ \A q \in Invocations \ {p} : pc'[q] = pc[q] /\ rows'[q] = rows[q]
  BY <1>1 DEF TypeOK
<1>4. TypeOK'
  <2>1. << >> \in Seq(RowType)
    OBVIOUS
  <2> QED BY <1>1, <1>2, <2>1 DEF TypeOK
<1>5. OthersKept(p)
  BY <1>1, <1>2, <1>3 DEF OthersKept, Loaded
<1>6. cause[p] = "none" /\ seen[p] <= env
  BY <1>1 DEF LogInv, CauseAt, Ended
<1>7. LockAt(p)' /\ MemoryAt(p)' /\ CauseAt(p)'
  <2>1. Alive(p) => lock = p
    BY <1>6 DEF LogInv, LockAt
  <2> QED BY <1>1, <1>2, <1>3, <1>6, <2>1 DEF LockAt, MemoryAt, CauseAt, Alive, Loaded
<1>8. Sound(file'.rows) /\ CompletionBindsTheLog'
  BY <1>1, BindingKept DEF LogInv
<1> QED BY <1>4, <1>5, <1>7, <1>8, Assembled

LEMMA InterruptKeeps ==
    ASSUME TypeOK, LogInv, NEW p \in Invocations, Interrupt(p)
    PROVE  TypeOK' /\ LogInv'
BY RaiseKeeps DEF Interrupt, process, Ended, TypeOK

LEMMA LockTimeoutKeeps ==
    ASSUME TypeOK, LogInv, NEW p \in Invocations, LockTimeout(p)
    PROVE  TypeOK' /\ LogInv'
<1>1. pc[p] = "waiting" /\ Raise(p, "lock") /\ file' = file /\ worker' = worker
      /\ answer' = answer /\ stray' = stray
  BY DEF LockTimeout, process
<1>2. worker[p] # "running"
  BY <1>1 DEF LogInv, LockAt, Alive
<1> QED BY <1>1, <1>2, RaiseKeeps DEF Ended, TypeOK

LEMMA EvidenceRefusedKeeps ==
    ASSUME TypeOK, LogInv, NEW p \in Invocations, EvidenceRefused(p)
    PROVE  TypeOK' /\ LogInv'
<1>1. /\ pc[p] = "attempt" /\ Raise(p, "evidence") /\ file' = file
      /\ worker' = [worker EXCEPT ![p] = "none"]
      /\ answer' = [answer EXCEPT ![p] = NoAnswer]
      /\ stray' = [stray EXCEPT ![p] = @ \/ ~TRUE]
  BY DEF EvidenceRefused, Reap, Leaves
<1>2. worker'[p] = "none"
  BY <1>1 DEF TypeOK
<1>3. answer' \in [Invocations -> [status : AnswerStatus, sum : Sums \cup {0}]]
  BY <1>1 DEF TypeOK, NoAnswer, AnswerStatus
<1>4. stray' \in [Invocations -> BOOLEAN]
  BY <1>1 DEF TypeOK
<1> QED BY <1>1, <1>2, <1>3, <1>4, RaiseKeeps DEF Ended, TypeOK

-----------------------------------------------------------------------------
(* Taking the lock and loading the log                                      *)

LEMMA AcquireKeeps ==
    ASSUME TypeOK, LogInv, NEW p \in Invocations, Acquire(p)
    PROVE  TypeOK' /\ LogInv'
<1>1. /\ pc[p] = "waiting" /\ lock = NoOne /\ lock' = p
      /\ seen' = [seen EXCEPT ![p] = env] /\ pc' = [pc EXCEPT ![p] = "loading"]
      /\ timed' = timed /\ env' = env /\ file' = file /\ sidecar' = sidecar /\ rows' = rows
      /\ worker' = worker /\ answer' = answer /\ stray' = stray /\ cause' = cause
  BY DEF Acquire, LockIsFree, Snapshot, Identity, process
<1>2. /\ pc'[p] = "loading" /\ seen'[p] = env
      /\ \A q \in Invocations \ {p} : pc'[q] = pc[q] /\ seen'[q] = seen[q]
  BY <1>1 DEF TypeOK
<1>3. TypeOK'
  BY <1>1 DEF TypeOK
<1>4. OthersKept(p)
  BY <1>1, <1>2 DEF OthersKept, Loaded
<1>5. cause[p] = "none" /\ ~Alive(p) /\ env \in Nat
  BY <1>1 DEF LogInv, CauseAt, LockAt, TypeOK
<1>6. LockAt(p)' /\ MemoryAt(p)' /\ CauseAt(p)'
  BY <1>1, <1>2, <1>5 DEF LockAt, MemoryAt, CauseAt, Alive, Loaded
<1>7. Sound(file'.rows) /\ CompletionBindsTheLog'
  BY <1>1, BindingKept DEF LogInv
<1> QED BY <1>3, <1>4, <1>6, <1>7, Assembled

\* The first row of a full log has the identity of the completion document.
LEMMA BoundIdentity ==
    ASSUME TypeOK, CompletionBindsTheLog, sidecar.state # "none",
           NEW e, ValidCheckpoint(file.rows, e)
    PROVE  /\ Len(file.rows) = NSlots /\ sidecar.rows = file.rows /\ sidecar.env = e
<1>1. /\ Len(file.rows) = NSlots /\ sidecar.rows = file.rows
      /\ \A i \in DOMAIN file.rows : file.rows[i].env = sidecar.env
  BY DEF CompletionBindsTheLog
<1>2. file.rows \in Seq(RowType)
  BY DEF TypeOK, FileType
<1>3. 1 \in DOMAIN file.rows
  BY <1>1, <1>2, SlotsPositive
<1>4. file.rows[1].env = e
  BY <1>2, <1>3, CheckpointSlots
<1> QED BY <1>1, <1>3, <1>4

LEMMA LoadKeeps ==
    ASSUME TypeOK, LogInv, NEW p \in Invocations, Load(p)
    PROVE  TypeOK' /\ LogInv'
<1> DEFINE f == IF sidecar.state = "none" THEN Repaired(file) ELSE file
<1>1. /\ pc[p] = "loading" /\ worker' = worker /\ answer' = answer /\ stray' = stray
      /\ pc[p] \notin Ended
  BY DEF Load, process, Ended
<1>2. lock = p /\ ~Alive(p) /\ cause[p] = "none" /\ seen[p] <= env
  BY <1>1 DEF LogInv, LockAt, CauseAt
<1>3. \A q \in Invocations : pc[q] \notin Loaded
  <2>1. ASSUME NEW q \in Invocations, pc[q] \in Loaded PROVE FALSE
    <3>1. lock = q
      BY <2>1 DEF LogInv, LockAt
    <3> QED BY <1>1, <1>2, <2>1, <3>1 DEF Loaded
  <2> QED BY <2>1
<1>4. /\ f \in FileType /\ f.rows = file.rows /\ f.tail \in {"none", "cr"}
      /\ file.tail = "cr" => f.tail = "cr"
      /\ f = file \/ sidecar.state = "none"
  <2>1. sidecar.state # "none" => file.tail = "none"
    BY DEF LogInv, CompletionBindsTheLog, Canonical
  <2> QED BY <2>1 DEF Repaired, TypeOK, FileType
<1>5. CASE sidecar.state = "linked"
  <2>1. Raise(p, "linked") /\ file' = file
    BY <1>5 DEF Load
  <2> QED BY <1>1, <1>2, <1>3, <1>5, <2>1, RaiseKeeps DEF Alive, TypeOK
<1>6. CASE sidecar.state # "linked"
  <2>1. /\ file' = f
        /\ IF Refusal(p, f) # "none" THEN Raise(p, Refusal(p, f))
           ELSE /\ rows' = [rows EXCEPT ![p] = f.rows]
                /\ pc' = [pc EXCEPT ![p] = "loop"]
                /\ UNCHANGED <<machine, seen, cause>>
    BY <1>6 DEF Load
  <2> HIDE DEF f
  <2>2. f.tail # "none" => f.tail = "cr"
    BY <1>4
  <2>3. ~ValidCheckpoint(f.rows, seen[p]) =>
           file.rows # << >> /\ seen[p] # file.rows[1].env
    <3>1. NSlots \in Nat /\ f.rows \in Seq(RowType)
      BY <1>4, SlotsPositive DEF FileType
    <3>2. f.rows = << >> => ValidCheckpoint(f.rows, seen[p])
      BY <3>1 DEF ValidCheckpoint
    <3>3. file.rows # << >> => ValidCheckpoint(file.rows, file.rows[1].env)
      BY DEF LogInv, Sound
    <3> QED BY <1>4, <3>2, <3>3
  <2>4. ValidCheckpoint(f.rows, seen[p]) => sidecar.state # "whole" \/ Binds(p, f)
    BY <1>4, BoundIdentity DEF Binds, LogInv
  <2>5. Refusal(p, f) # "none" => /\ Refusal(p, f) \in {"torn", "scope"}
                                  /\ Refusal(p, f) = "torn" => f.tail = "cr"
                                  /\ Refusal(p, f) = "scope" =>
                                       file.rows # << >> /\ seen[p] # file.rows[1].env
    BY <2>2, <2>3, <2>4 DEF Refusal, Canonical
  <2>6. CASE Refusal(p, f) # "none"
    BY <1>1, <1>2, <1>4, <2>1, <2>5, <2>6, RaiseKeeps DEF Alive, TypeOK
  <2>7. CASE Refusal(p, f) = "none"
    <3>1. /\ rows' = [rows EXCEPT ![p] = f.rows] /\ pc' = [pc EXCEPT ![p] = "loop"]
          /\ timed' = timed /\ env' = env /\ sidecar' = sidecar /\ lock' = lock
          /\ seen' = seen /\ cause' = cause
      BY <2>1, <2>7 DEF machine
    <3>2. f.tail = "none" /\ ValidCheckpoint(f.rows, seen[p])
      BY <2>7 DEF Refusal, Canonical
    <3>3. /\ pc'[p] = "loop" /\ rows'[p] = f.rows
          /\ \A q \in Invocations \ {p} : pc'[q] = pc[q] /\ rows'[q] = rows[q]
      BY <3>1 DEF TypeOK
    <3>4. TypeOK'
      BY <1>1, <1>4, <2>1, <3>1 DEF TypeOK, FileType
    <3>5. OthersKept(p)
      BY <1>1, <1>2, <1>4, <1>6, <2>1, <3>1, <3>3 DEF OthersKept
    <3>6. LockAt(p)' /\ CauseAt(p)'
      BY <1>1, <1>2, <3>1, <3>3 DEF LockAt, CauseAt, Alive, Loaded
    <3>7. MemoryAt(p)'
      BY <1>6, <2>1, <3>1, <3>2, <3>3 DEF MemoryAt, Canonical, Loaded
    <3>8. Sound(file'.rows) /\ CompletionBindsTheLog'
      BY <1>4, <2>1, <3>1, BindingKept DEF LogInv
    <3> QED BY <3>4, <3>5, <3>6, <3>7, <3>8, Assembled
  <2> QED BY <2>6, <2>7
<1> QED BY <1>5, <1>6

-----------------------------------------------------------------------------
(* One slot of the schedule                                                 *)

LEMMA RowTyped ==
    ASSUME TypeOK, NEW p \in Invocations, NEW slot \in Nat, NEW status \in RowStatus,
           NEW sum \in Sums \cup {0}
    PROVE  Row(p, slot, status, sum) \in RowType
<1>1. seen[p] \in Nat
  BY DEF TypeOK
<1>2. Compared(status, sum, Baseline(rows[p], slot))
         \in {"unverified", "baseline", "ok", "mismatch"}
  BY ComparedFacts
<1> QED BY <1>1, <1>2 DEF Row, RowType

\* What the driver that is about to run a slot knows of it.
LEMMA AtTheSlot ==
    ASSUME TypeOK, LogInv, NEW p \in Invocations, pc[p] \in {"loop", "attempt"},
           Missing(rows[p]) # {}
    PROVE  /\ rows[p] = file.rows /\ rows[p] \in Seq(RowType) /\ file.tail = "none"
           /\ ValidCheckpoint(rows[p], seen[p]) /\ lock = p
           /\ NextSlot(p) = Len(rows[p]) + 1 /\ Len(rows[p]) + 1 <= NSlots
           /\ NextSlot(p) \in Nat /\ sidecar.state = "none"
<1>1. /\ rows[p] = file.rows /\ file.tail = "none" /\ ValidCheckpoint(rows[p], seen[p])
      /\ lock = p
  BY DEF LogInv, MemoryAt, LockAt, Loaded, Canonical
<1>2. rows[p] \in Seq(RowType)
  BY DEF TypeOK
<1>3. NextSlot(p) = Len(rows[p]) + 1 /\ Len(rows[p]) + 1 <= NSlots
  BY <1>1, <1>2, NextSlotIs DEF NextSlot
<1>4. Len(rows[p]) \in Nat /\ NSlots \in Nat
  BY <1>2, SlotsPositive
<1>5. sidecar.state = "none"
  BY <1>1, <1>3, <1>4 DEF LogInv, CompletionBindsTheLog
<1> QED BY <1>1, <1>2, <1>3, <1>4, <1>5

\* A row that continues the schedule is never refused, and whatever the write of it
\* leaves is a log that the next invocation can continue.
LEMMA RecordKeeps ==
    ASSUME TypeOK, LogInv, NEW p \in Invocations, pc[p] \in {"loop", "attempt"},
           Missing(rows[p]) # {},
           NEW row \in RowType, Record(p, row), row.slot = NextSlot(p), row.env = seen[p],
           IF Blocked(rows[p], row.slot) THEN row.status = "not-run"
           ELSE row.status # "not-run" /\ row.parity = ExpectedParity(rows[p], row),
           row.status # "ok" => row.parity = "unverified",
           worker' = worker \/ worker' = [worker EXCEPT ![p] = "none"], worker'[p] # "running",
           answer' \in [Invocations -> [status : AnswerStatus, sum : Sums \cup {0}]],
           stray' \in [Invocations -> BOOLEAN]
    PROVE  TypeOK' /\ LogInv'
<1> DEFINE next == Append(rows[p], row)
<1>1. /\ rows[p] = file.rows /\ rows[p] \in Seq(RowType) /\ file.tail = "none"
      /\ ValidCheckpoint(rows[p], seen[p]) /\ lock = p
      /\ NextSlot(p) = Len(rows[p]) + 1 /\ Len(rows[p]) + 1 <= NSlots
      /\ sidecar.state = "none"
  BY AtTheSlot
<1>2. next \in Seq(RowType)
  BY <1>1
<1>3. ValidCheckpoint(next, seen[p])
  BY <1>1, AppendValid
<1>4. /\ next # << >> /\ next[1].env = seen[p] /\ next = Append(file.rows, row)
      /\ \A i \in DOMAIN next : next[i] = row \/ (i \in DOMAIN rows[p] /\ next[i] = rows[p][i])
  <2>1. next # << >> /\ 1 \in DOMAIN next
    BY <1>1
  <2>2. \A i \in DOMAIN next : next[i] = row \/ (i \in DOMAIN rows[p] /\ next[i] = rows[p][i])
    BY <1>1
  <2> HIDE DEF next
  <2>3. next[1].env = seen[p]
    BY <1>2, <1>3, <2>1, CheckpointSlots
  <2> QED BY <1>1, <2>1, <2>2, <2>3 DEF next
<1>5. file.rows # << >> => next[1] = file.rows[1]
  BY <1>1
<1>6. Sound(file.rows)
  BY DEF LogInv
<1>7. Sound(next)
  <2> HIDE DEF next
  <2> QED BY <1>1, <1>3, <1>4, <1>6 DEF Sound
<1>8. /\ timed' = timed /\ env' = env /\ sidecar' = sidecar /\ seen' = seen /\ cause' = cause
      /\ \/ /\ file' = Appended(file, row) /\ rows' = [rows EXCEPT ![p] = next]
            /\ pc' = [pc EXCEPT ![p] = "loop"] /\ lock' = lock
         \/ /\ file' \in TornWrites(Repaired(file), row) /\ rows' = [rows EXCEPT ![p] = << >>]
            /\ pc' = [pc EXCEPT ![p] = "killed"] /\ lock' = NoOne
  BY <1>1, <1>3 DEF Record, machine, Forget
<1>9. \A q \in Invocations \ {p} :
         pc'[q] = pc[q] /\ rows'[q] = rows[q] /\ worker'[q] = worker[q]
  BY <1>8 DEF TypeOK
<1>10. Repaired(file) = file /\ file \in FileType
  BY <1>1 DEF Repaired, TypeOK
<1> HIDE DEF next
<1>11. /\ file' \in FileType /\ file'.rows \in {file.rows, next}
       /\ pc' = [pc EXCEPT ![p] = "loop"] => file'.rows = next /\ file'.tail = "none"
  <2>1. CASE /\ file' = Appended(file, row) /\ pc' = [pc EXCEPT ![p] = "loop"]
    <3>1. file' = [file EXCEPT !.header = TRUE, !.rows = next]
      BY <1>4, <1>10, <2>1 DEF Appended
    <3> QED BY <1>1, <1>2, <1>10, <3>1 DEF FileType
  <2>2. CASE /\ file' \in TornWrites(Repaired(file), row)
             /\ pc' = [pc EXCEPT ![p] = "killed"]
    <3>1. pc' # [pc EXCEPT ![p] = "loop"]
      BY <2>2 DEF TypeOK
    <3>2. file' \in FileType /\ (file'.rows = file.rows \/ file'.rows = Append(file.rows, row))
      BY <1>1, <1>10, <2>2, TornWritesFacts
    <3> QED BY <1>4, <3>1, <3>2
  <2> QED BY <1>8, <2>1, <2>2
<1>12. TypeOK'
  <2>1. rows' \in [Invocations -> Seq(RowType)]
    <3>1. << >> \in Seq(RowType)
      OBVIOUS
    <3>2. PICK rs \in Seq(RowType) : rows' = [rows EXCEPT ![p] = rs]
      BY <1>2, <1>8, <3>1
    <3> QED BY <3>2 DEF TypeOK
  <2>2. pc' \in [Invocations -> {"waiting", "loading", "loop", "attempt", "publish", "unlink",
                                 "recheck", "done", "raised", "killed"}]
    BY <1>8 DEF TypeOK
  <2>3. worker' \in [Invocations -> {"none", "running", "answered", "dead"}]
    BY DEF TypeOK
  <2> QED BY <1>8, <1>11, <2>1, <2>2, <2>3 DEF TypeOK
<1>13. OthersKept(p)
  <2>1. file.rows # << >> => file'.rows # << >> /\ file'.rows[1] = file.rows[1]
    BY <1>4, <1>5, <1>11
  <2> QED BY <1>1, <1>8, <1>9, <2>1 DEF OthersKept, Loaded
<1>14. cause[p] = "none" /\ seen[p] <= env /\ sidecar.state # "linked"
  BY <1>1 DEF LogInv, CauseAt
<1>15. LockAt(p)' /\ MemoryAt(p)' /\ CauseAt(p)'
  <2>1. CASE pc' = [pc EXCEPT ![p] = "loop"]
    <3>1. pc'[p] = "loop" /\ rows'[p] = next /\ lock' = p
      BY <1>1, <1>8, <2>1 DEF TypeOK
    <3>2. LockAt(p)' /\ CauseAt(p)'
      BY <1>8, <1>14, <3>1 DEF LockAt, CauseAt, Alive
    <3>3. MemoryAt(p)'
      BY <1>3, <1>8, <1>11, <1>14, <2>1, <3>1 DEF MemoryAt, Canonical
    <3> QED BY <3>2, <3>3
  <2>2. CASE pc' = [pc EXCEPT ![p] = "killed"]
    <3>1. pc'[p] = "killed"
      BY <2>2 DEF TypeOK
    <3> QED BY <1>8, <1>14, <3>1 DEF LockAt, MemoryAt, CauseAt, Alive, Loaded
  <2> QED BY <1>8, <2>1, <2>2
<1>16. Sound(file'.rows) /\ CompletionBindsTheLog'
  BY <1>1, <1>6, <1>7, <1>8, <1>11, BindingKept DEF LogInv
<1> QED BY <1>12, <1>13, <1>15, <1>16, Assembled

LEMMA RecordNotRunKeeps ==
    ASSUME TypeOK, LogInv, NEW p \in Invocations, RecordNotRun(p)
    PROVE  TypeOK' /\ LogInv'
<1> DEFINE base == Row(p, NextSlot(p), "not-run", 0)
           row == [base EXCEPT !.parity = "unverified"]
<1>1. /\ pc[p] = "loop" /\ Missing(rows[p]) # {} /\ Blocked(rows[p], NextSlot(p))
      /\ Record(p, row) /\ worker' = worker /\ answer' = answer /\ stray' = stray
  BY DEF RecordNotRun, process
<1>2. base \in RowType
  BY <1>1, AtTheSlot, RowTyped DEF RowStatus
<1>3. base.slot = NextSlot(p) /\ base.env = seen[p] /\ base.status = "not-run"
  BY DEF Row
<1>4. worker[p] # "running"
  BY <1>1 DEF LogInv, LockAt, Alive
<1> HIDE DEF base
<1>5. /\ row \in RowType /\ row.slot = NextSlot(p) /\ row.env = seen[p]
      /\ row.status = "not-run" /\ row.parity = "unverified"
  BY <1>2, <1>3 DEF RowType
<1>6. /\ answer' \in [Invocations -> [status : AnswerStatus, sum : Sums \cup {0}]]
      /\ stray' \in [Invocations -> BOOLEAN] /\ worker'[p] # "running"
  BY <1>1, <1>4 DEF TypeOK
<1> HIDE DEF row
<1> QED BY <1>1, <1>5, <1>6, RecordKeeps

LEMMA CollectKeeps ==
    ASSUME TypeOK, LogInv, NEW p \in Invocations, Collect(p)
    PROVE  TypeOK' /\ LogInv'
<1>1. PICK timedOut \in BOOLEAN, reaped \in BOOLEAN :
        /\ LET status == IF reaped THEN StatusOf(p, timedOut) ELSE "cleanup-error"
               sum == IF status = "ok" THEN answer[p].sum ELSE 0
           IN Record(p, Row(p, NextSlot(p), status, sum))
        /\ Reap(p, reaped)
  BY DEF Collect
<1> DEFINE status == IF reaped THEN StatusOf(p, timedOut) ELSE "cleanup-error"
           sum == IF status = "ok" THEN answer[p].sum ELSE 0
           row == Row(p, NextSlot(p), status, sum)
<1>2. /\ pc[p] = "attempt" /\ Missing(rows[p]) # {} /\ ~Blocked(rows[p], NextSlot(p))
  BY DEF Collect, LogInv, MemoryAt
<1>3. /\ ValidCheckpoint(rows[p], seen[p]) /\ rows[p] \in Seq(RowType)
      /\ NextSlot(p) \in Nat
  BY <1>2, AtTheSlot
<1>4. status \in RowStatus \ {"not-run"} /\ sum \in Sums \cup {0}
  <2>1. answer[p].status \in AnswerStatus /\ answer[p].sum \in Sums \cup {0}
    BY DEF TypeOK
  <2>2. "not-run" \notin AnswerStatus
    BY ExperimentAssumption DEF AnswerStatus
  <2>3. status \in AnswerStatus \cup {"timeout", "cleanup-error", "worker-exit"}
    BY <2>1 DEF StatusOf
  <2> HIDE DEF status
  <2> QED BY <2>1, <2>2, <2>3 DEF RowStatus
<1>5. Record(p, row)
  BY <1>1
<1>6. /\ worker' = [worker EXCEPT ![p] = "none"]
      /\ answer' = [answer EXCEPT ![p] = NoAnswer]
      /\ stray' = [stray EXCEPT ![p] = @ \/ ~reaped]
  BY <1>1 DEF Reap, Leaves
<1> HIDE DEF status, sum
<1>7. row \in RowType
  BY <1>3, <1>4, RowTyped
<1>8. /\ row.slot = NextSlot(p) /\ row.env = seen[p] /\ row.status = status /\ row.sum = sum
      /\ row.parity = Compared(status, sum, Baseline(rows[p], NextSlot(p)))
  BY DEF Row
<1> HIDE DEF row
<1>9. row.parity = ExpectedParity(rows[p], row)
  <2>1. Baseline(rows[p], NextSlot(p)) = FirstSum(rows[p], Succeeded(rows[p], NextSlot(p)))
    BY <1>3, BaselineIsFirst
  <2> QED BY <1>8, <2>1 DEF ExpectedParity, FirstSum
<1>10. row.status # "ok" => row.parity = "unverified"
  BY <1>8, ComparedFacts
<1>11. /\ answer' \in [Invocations -> [status : AnswerStatus, sum : Sums \cup {0}]]
       /\ worker'[p] = "none"
  BY <1>6 DEF TypeOK, NoAnswer, AnswerStatus
<1>12. stray' \in [Invocations -> BOOLEAN]
  BY <1>6 DEF TypeOK
<1> QED BY <1>2, <1>4, <1>5, <1>6, <1>7, <1>8, <1>9, <1>10, <1>11, <1>12, RecordKeeps

LEMMA SpawnKeeps ==
    ASSUME TypeOK, LogInv, NEW p \in Invocations, Spawn(p)
    PROVE  TypeOK' /\ LogInv'
<1>1. /\ pc[p] = "loop" /\ Missing(rows[p]) # {} /\ ~Blocked(rows[p], NextSlot(p))
      /\ pc' = [pc EXCEPT ![p] = "attempt"] /\ worker' = [worker EXCEPT ![p] = "running"]
      /\ answer' = [answer EXCEPT ![p] = NoAnswer]
      /\ timed' = timed /\ env' = env /\ file' = file /\ sidecar' = sidecar /\ lock' = lock
      /\ seen' = seen /\ rows' = rows /\ stray' = stray /\ cause' = cause
  BY DEF Spawn, machine
<1>2. /\ pc'[p] = "attempt"
      /\ \A q \in Invocations \ {p} : pc'[q] = pc[q] /\ worker'[q] = worker[q]
  BY <1>1 DEF TypeOK
<1>3. TypeOK'
  BY <1>1 DEF TypeOK, NoAnswer, AnswerStatus
<1>4. OthersKept(p)
  BY <1>1, <1>2 DEF OthersKept, Loaded
<1>5. LockAt(p) /\ MemoryAt(p) /\ CauseAt(p)
  BY DEF LogInv
<1>6. LockAt(p)' /\ CauseAt(p)'
  BY <1>1, <1>2, <1>5 DEF LockAt, CauseAt, Loaded
<1>7. MemoryAt(p)'
  BY <1>1, <1>2, <1>5 DEF MemoryAt, Loaded, Canonical, NextSlot
<1>8. Sound(file'.rows) /\ CompletionBindsTheLog'
  BY <1>1, BindingKept DEF LogInv
<1> QED BY <1>3, <1>4, <1>6, <1>7, <1>8, Assembled

-----------------------------------------------------------------------------
(* The worker                                                               *)

\* A step of p's worker or of a stray of it changes what runs, and frees the lock of
\* a killed driver only.
LEMMA WorkerStepKeeps ==
    ASSUME TypeOK, LogInv, NEW p \in Invocations,
           worker' = worker \/ worker' \in {[worker EXCEPT ![p] = w] : w \in {"answered", "dead"}},
           lock' = lock \/ (lock = p /\ lock' = NoOne /\ pc[p] = "killed" /\ ~Alive(p)'),
           answer' \in [Invocations -> [status : AnswerStatus, sum : Sums \cup {0}]],
           stray' \in [Invocations -> BOOLEAN],
           UNCHANGED <<timed, env, file, sidecar, pc, seen, rows, cause>>
    PROVE  TypeOK' /\ LogInv'
<1>1. /\ worker' \in [Invocations -> {"none", "running", "answered", "dead"}]
      /\ \A q \in Invocations \ {p} : worker'[q] = worker[q]
      /\ Alive(p)' => Alive(p)
  <2>1. worker \in [Invocations -> {"none", "running", "answered", "dead"}]
    BY DEF TypeOK
  <2>2. CASE worker' = worker
    BY <2>1, <2>2 DEF Alive
  <2>3. ASSUME NEW w \in {"answered", "dead"}, worker' = [worker EXCEPT ![p] = w]
        PROVE  /\ worker' \in [Invocations -> {"none", "running", "answered", "dead"}]
               /\ \A q \in Invocations \ {p} : worker'[q] = worker[q]
               /\ Alive(p)' => Alive(p)
    <3>1. worker'[p] = w
      BY <2>1, <2>3
    <3> QED BY <2>1, <2>3, <3>1 DEF Alive
  <2> QED BY <2>2, <2>3
<1>2. TypeOK'
  BY <1>1 DEF TypeOK
<1>3. OthersKept(p)
  BY <1>1 DEF OthersKept
<1>4. LockAt(p) /\ MemoryAt(p) /\ CauseAt(p)
  BY DEF LogInv
<1>5. LockAt(p)'
  BY <1>1, <1>4 DEF LockAt, Loaded
<1>6. MemoryAt(p)' /\ CauseAt(p)'
  <2>1. \A q \in Invocations : pc'[q] = pc[q]
    OBVIOUS
  <2> QED BY <1>4, <2>1 DEF MemoryAt, CauseAt, Canonical, NextSlot
<1>7. Sound(file'.rows) /\ CompletionBindsTheLog'
  BY BindingKept DEF LogInv
<1> QED BY <1>2, <1>3, <1>5, <1>6, <1>7, Assembled

LEMMA AnswerKeeps ==
    ASSUME TypeOK, LogInv, NEW p \in Invocations,
           NEW a \in [status : AnswerStatus, sum : Sums \cup {0}], Answer(p, a)
    PROVE  TypeOK' /\ LogInv'
<1>1. /\ answer' = [answer EXCEPT ![p] = IF pc[p] = "attempt" THEN a ELSE NoAnswer]
      /\ worker' = [worker EXCEPT ![p] = "answered"] /\ lock' = FreedByWorker(p)
      /\ UNCHANGED <<timed, env, file, sidecar, pc, seen, rows, cause>> /\ stray' = stray
  BY DEF Answer
<1>2. ~Alive(p)'
  BY <1>1 DEF TypeOK, Alive
<1>3. lock' = lock \/ (lock = p /\ lock' = NoOne /\ pc[p] = "killed")
  BY <1>1 DEF FreedByWorker
<1>4. answer' \in [Invocations -> [status : AnswerStatus, sum : Sums \cup {0}]]
  BY <1>1 DEF TypeOK, NoAnswer, AnswerStatus
<1>5. stray' \in [Invocations -> BOOLEAN]
  BY <1>1 DEF TypeOK
<1> QED BY <1>1, <1>2, <1>3, <1>4, <1>5, WorkerStepKeeps

LEMMA WorkerEndKeeps ==
    ASSUME TypeOK, LogInv, NEW p \in Invocations, WorkerDies(p) \/ StrayExits(p)
    PROVE  TypeOK' /\ LogInv'
<1>1. CASE WorkerDies(p)
  <2>1. /\ worker' = [worker EXCEPT ![p] = "dead"] /\ lock' = FreedByWorker(p)
        /\ UNCHANGED <<timed, env, file, sidecar, pc, seen, rows, cause>>
        /\ answer' = answer /\ stray' = stray
    BY <1>1 DEF WorkerDies
  <2>2. ~Alive(p)'
    BY <2>1 DEF TypeOK, Alive
  <2>3. lock' = lock \/ (lock = p /\ lock' = NoOne /\ pc[p] = "killed")
    BY <2>1 DEF FreedByWorker
  <2> QED BY <2>1, <2>2, <2>3, WorkerStepKeeps DEF TypeOK
<1>2. CASE StrayExits(p)
  <2>1. /\ stray' = [stray EXCEPT ![p] = FALSE]
        /\ lock' = (IF lock = p /\ pc[p] = "killed" /\ ~Alive(p) THEN NoOne ELSE lock)
        /\ UNCHANGED <<timed, env, file, sidecar, pc, seen, rows, cause>>
        /\ worker' = worker /\ answer' = answer
    BY <1>2 DEF StrayExits
  <2>2. stray' \in [Invocations -> BOOLEAN]
    BY <2>1 DEF TypeOK
  <2>3. lock' = lock \/ (lock = p /\ lock' = NoOne /\ pc[p] = "killed" /\ ~Alive(p)')
    BY <2>1 DEF Alive
  <2> QED BY <2>1, <2>2, <2>3, WorkerStepKeeps DEF TypeOK
<1> QED BY <1>1, <1>2

-----------------------------------------------------------------------------
(* Completion                                                               *)

\* A driver at the end of the schedule has the lock, and the log is whole.
LEMMA AtTheEnd ==
    ASSUME TypeOK, LogInv, NEW p \in Invocations, pc[p] \in Loaded \ {"attempt"},
           Missing(rows[p]) = {}
    PROVE  /\ rows[p] = file.rows /\ file.rows \in Seq(RowType) /\ Canonical(file)
           /\ Len(file.rows) = NSlots /\ ValidCheckpoint(file.rows, seen[p])
           /\ lock = p /\ ~Alive(p) /\ cause[p] = "none" /\ seen[p] <= env
           /\ seen[p] \in Nat /\ env \in Nat
<1>1. /\ rows[p] = file.rows /\ Canonical(file) /\ ValidCheckpoint(file.rows, seen[p])
      /\ lock = p /\ ~Alive(p) /\ cause[p] = "none" /\ seen[p] <= env
  BY DEF LogInv, MemoryAt, LockAt, CauseAt, Loaded
<1>2. file.rows \in Seq(RowType) /\ seen[p] \in Nat /\ env \in Nat
  BY DEF TypeOK, FileType
<1> QED BY <1>1, <1>2, NothingMissing

LEMMA FinalCheckKeeps ==
    ASSUME TypeOK, LogInv, NEW p \in Invocations, FinalCheck(p)
    PROVE  TypeOK' /\ LogInv'
<1>1. /\ pc[p] = "loop" /\ Missing(rows[p]) = {} /\ file' = file
      /\ worker' = worker /\ answer' = answer /\ stray' = stray
  BY DEF FinalCheck, process
<1>2. /\ Canonical(file) /\ Len(file.rows) = NSlots /\ ValidCheckpoint(file.rows, seen[p])
      /\ lock = p /\ ~Alive(p) /\ cause[p] = "none" /\ seen[p] <= env
      /\ seen[p] \in Nat /\ env \in Nat
  BY <1>1, AtTheEnd DEF Loaded
<1>3. CASE ~SnapshotsHold(p)
  <2>1. Raise(p, "moved")
    BY <1>2, <1>3 DEF FinalCheck
  <2>2. seen[p] < env
    BY <1>2, <1>3 DEF SnapshotsHold, Identity
  <2> QED BY <1>1, <1>2, <2>1, <2>2, RaiseKeeps DEF Alive, Ended, TypeOK
<1>4. CASE SnapshotsHold(p)
  <2>1. /\ pc' = [pc EXCEPT ![p] = "publish"] /\ seen' = seen /\ rows' = rows /\ cause' = cause
        /\ timed' = timed /\ env' = env /\ sidecar' = sidecar /\ lock' = lock
    BY <1>2, <1>4 DEF FinalCheck, machine
  <2>2. pc'[p] = "publish" /\ \A q \in Invocations \ {p} : pc'[q] = pc[q]
    BY <2>1 DEF TypeOK
  <2>3. TypeOK'
    BY <1>1, <2>1 DEF TypeOK
  <2>4. OthersKept(p)
    BY <1>1, <2>1, <2>2 DEF OthersKept, Loaded
  <2>5. MemoryAt(p)
    BY DEF LogInv
  <2>6. LockAt(p)' /\ MemoryAt(p)' /\ CauseAt(p)'
    BY <1>1, <1>2, <2>1, <2>2, <2>5
       DEF LockAt, MemoryAt, CauseAt, Alive, Loaded, Canonical
  <2>7. Sound(file'.rows) /\ CompletionBindsTheLog'
    BY <1>1, <2>1, BindingKept DEF LogInv
  <2> QED BY <2>3, <2>4, <2>6, <2>7, Assembled
<1> QED BY <1>3, <1>4

\* p goes on to pc[p]' = to, with a completion document that binds the log.
LEMMA CompletionStepKeeps ==
    ASSUME TypeOK, LogInv, NEW p \in Invocations, pc[p] \in {"publish", "unlink"},
           NEW to \in {"unlink", "recheck"}, pc' = [pc EXCEPT ![p] = to],
           UNCHANGED <<timed, env, file, lock, seen, rows, worker, answer, stray, cause>>,
           sidecar'.state = IF to = "unlink" THEN "linked" ELSE "whole",
           sidecar'.rows = file.rows, sidecar'.env = seen[p],
           sidecar' \in [state : {"none", "linked", "whole"}, rows : Seq(RowType), env : Nat],
           sidecar.state # "whole" \/ sidecar' = sidecar
    PROVE  TypeOK' /\ LogInv'
<1>1. Missing(rows[p]) = {}
  BY DEF LogInv, MemoryAt
<1>2. /\ rows[p] = file.rows /\ file.rows \in Seq(RowType) /\ Canonical(file)
      /\ Len(file.rows) = NSlots /\ ValidCheckpoint(file.rows, seen[p])
      /\ lock = p /\ ~Alive(p) /\ cause[p] = "none" /\ seen[p] <= env
  BY <1>1, AtTheEnd DEF Loaded
<1>3. pc'[p] = to /\ \A q \in Invocations \ {p} : pc'[q] = pc[q]
  BY DEF TypeOK
<1>4. TypeOK'
  BY DEF TypeOK
<1>5. OthersKept(p)
  BY <1>2, <1>3 DEF OthersKept, Loaded
<1>6. LockAt(p)' /\ MemoryAt(p)' /\ CauseAt(p)'
  BY <1>1, <1>2, <1>3 DEF LockAt, MemoryAt, CauseAt, Alive, Loaded, Canonical
<1>7. CompletionBindsTheLog'
  <2>1. \A i \in DOMAIN file.rows : file.rows[i].env = seen[p]
    BY <1>2, CheckpointSlots
  <2>2. (\E x \in Invocations : cause[x] = "ok") =>
           /\ sidecar.state = "whole"
           /\ \A i \in 1..NSlots :
                file.rows[i].status = "ok" /\ file.rows[i].parity \in {"baseline", "ok"}
    BY DEF LogInv, CompletionBindsTheLog
  <2> QED BY <1>2, <2>1, <2>2 DEF CompletionBindsTheLog, Canonical
<1>8. Sound(file'.rows)
  BY DEF LogInv
<1> QED BY <1>4, <1>5, <1>6, <1>7, <1>8, Assembled

LEMMA PublishKeeps ==
    ASSUME TypeOK, LogInv, NEW p \in Invocations, Publish(p)
    PROVE  TypeOK' /\ LogInv'
<1>1. /\ pc[p] = "publish" /\ file' = file
      /\ worker' = worker /\ answer' = answer /\ stray' = stray
  BY DEF Publish, process
<1>2. sidecar.state # "linked" /\ Missing(rows[p]) = {}
  BY <1>1 DEF LogInv, MemoryAt
<1>3. ValidCheckpoint(file.rows, seen[p]) /\ file.rows \in Seq(RowType) /\ seen[p] \in Nat
  BY <1>1, <1>2, AtTheEnd DEF Loaded
<1>4. sidecar.state \in {"none", "whole"}
  BY <1>2 DEF TypeOK
<1>5. CASE sidecar.state = "none"
  <2>1. /\ Link(p) \/ Replace(p)
        /\ UNCHANGED <<timed, env, lock, seen, rows, cause>>
    BY <1>5 DEF Publish
  <2>2. CASE Link(p)
    BY <1>1, <1>3, <1>5, <2>1, <2>2, CompletionStepKeeps DEF Link
  <2>3. CASE Replace(p)
    BY <1>1, <1>3, <1>5, <2>1, <2>3, CompletionStepKeeps DEF Replace
  <2> QED BY <2>1, <2>2, <2>3
<1>6. CASE sidecar.state = "whole"
  <2>1. Binds(p, file)
    BY <1>3, <1>6, BoundIdentity DEF Binds, LogInv
  <2>2. pc' = [pc EXCEPT ![p] = "recheck"] /\ UNCHANGED <<machine, seen, rows, cause>>
    BY <1>6, <2>1 DEF Publish
  <2> QED BY <1>1, <1>6, <2>1, <2>2, CompletionStepKeeps DEF Binds, machine, TypeOK
<1> QED BY <1>4, <1>5, <1>6

LEMMA UnlinkTemporaryKeeps ==
    ASSUME TypeOK, LogInv, NEW p \in Invocations, UnlinkTemporary(p)
    PROVE  TypeOK' /\ LogInv'
<1>1. /\ pc[p] = "unlink" /\ sidecar' = [sidecar EXCEPT !.state = "whole"]
      /\ pc' = [pc EXCEPT ![p] = "recheck"]
      /\ UNCHANGED <<timed, env, file, lock, seen, rows, worker, answer, stray, cause>>
  BY DEF UnlinkTemporary, process
<1>2. sidecar.state = "linked" /\ Missing(rows[p]) = {}
  BY <1>1 DEF LogInv, MemoryAt
<1>3. ValidCheckpoint(file.rows, seen[p])
  BY <1>1, <1>2, AtTheEnd DEF Loaded
<1>4. sidecar.rows = file.rows /\ sidecar.env = seen[p]
  BY <1>2, <1>3, BoundIdentity DEF LogInv
<1>5. /\ sidecar'.state = "whole" /\ sidecar'.rows = file.rows /\ sidecar'.env = seen[p]
      /\ sidecar' \in [state : {"none", "linked", "whole"}, rows : Seq(RowType), env : Nat]
  BY <1>1, <1>4 DEF TypeOK
<1> QED BY <1>1, <1>2, <1>5, CompletionStepKeeps

LEMMA RecheckKeeps ==
    ASSUME TypeOK, LogInv, NEW p \in Invocations, Recheck(p)
    PROVE  TypeOK' /\ LogInv'
<1>1. /\ pc[p] = "recheck" /\ file' = file
      /\ worker' = worker /\ answer' = answer /\ stray' = stray
  BY DEF Recheck, process
<1>2. sidecar.state = "whole" /\ Missing(rows[p]) = {}
  BY <1>1 DEF LogInv, MemoryAt
<1>3. /\ rows[p] = file.rows /\ file.rows \in Seq(RowType) /\ Canonical(file)
      /\ Len(file.rows) = NSlots /\ ValidCheckpoint(file.rows, seen[p])
      /\ lock = p /\ ~Alive(p) /\ cause[p] = "none" /\ seen[p] <= env
      /\ seen[p] \in Nat /\ env \in Nat
  BY <1>1, <1>2, AtTheEnd DEF Loaded
<1>4. CASE ~SnapshotsHold(p)
  <2>1. Raise(p, "moved")
    BY <1>4 DEF Recheck
  <2>2. seen[p] < env
    BY <1>3, <1>4 DEF SnapshotsHold, Identity
  <2> QED BY <1>1, <1>3, <2>1, <2>2, RaiseKeeps DEF Alive, Ended, TypeOK
<1>5. CASE SnapshotsHold(p)
  <2>1. /\ pc' = [pc EXCEPT ![p] = "done"] /\ seen' = seen
        /\ cause' = [cause EXCEPT ![p] = Verdict(rows[p])] /\ lock' = NoOne
        /\ rows' = [rows EXCEPT ![p] = << >>]
        /\ timed' = timed /\ env' = env /\ sidecar' = sidecar
    BY <1>5 DEF Recheck, Forget
  <2>2. Verdict(rows[p]) \in {"failed", "resource-boundary", "ok"}
    BY DEF Verdict
  <2>3. /\ pc'[p] = "done" /\ cause'[p] = Verdict(rows[p])
        /\ \A q \in Invocations \ {p} :
              pc'[q] = pc[q] /\ cause'[q] = cause[q] /\ rows'[q] = rows[q]
    BY <2>1 DEF TypeOK
  <2>4. TypeOK'
    <3>1. << >> \in Seq(RowType)
      OBVIOUS
    <3>2. cause' \in [Invocations -> {"none", "lock", "interrupt", "linked", "torn", "scope",
                                      "completion", "invalid", "evidence", "moved",
                                      "failed", "resource-boundary", "ok"}]
      BY <2>1, <2>2 DEF TypeOK
    <3> QED BY <1>1, <2>1, <3>1, <3>2 DEF TypeOK
  <2>5. OthersKept(p)
    BY <1>1, <1>3, <2>1, <2>3 DEF OthersKept, Loaded
  <2>6. LockAt(p)' /\ MemoryAt(p)' /\ CauseAt(p)'
    BY <1>1, <1>3, <2>1, <2>2, <2>3 DEF LockAt, MemoryAt, CauseAt, Alive, Loaded
  <2>7. (\E x \in Invocations : cause'[x] = "ok") =>
           \A i \in 1..NSlots :
             file.rows[i].status = "ok" /\ file.rows[i].parity \in {"baseline", "ok"}
    <3>1. ASSUME Verdict(rows[p]) = "ok"
          PROVE  \A i \in 1..NSlots :
                   file.rows[i].status = "ok" /\ file.rows[i].parity \in {"baseline", "ok"}
      <4>1. DOMAIN file.rows = 1..NSlots
        BY <1>3
      <4> QED BY <1>3, <3>1, <4>1, OkMeansAllRan
    <3>2. (\E x \in Invocations : cause[x] = "ok") =>
             \A i \in 1..NSlots :
               file.rows[i].status = "ok" /\ file.rows[i].parity \in {"baseline", "ok"}
      BY DEF LogInv, CompletionBindsTheLog
    <3> QED BY <2>3, <3>1, <3>2
  <2>8. CompletionBindsTheLog'
    <3>1. CompletionBindsTheLog
      BY DEF LogInv
    <3> QED BY <1>1, <1>2, <2>1, <2>7, <3>1 DEF CompletionBindsTheLog, Canonical
  <2>9. Sound(file'.rows)
    BY <1>1 DEF LogInv
  <2> QED BY <2>4, <2>5, <2>6, <2>8, <2>9, Assembled
<1> QED BY <1>4, <1>5

\* The identity only grows, so that what an invocation found is of the past.
LEMMA EnvMovesKeeps ==
    ASSUME TypeOK, LogInv, EnvMoves
    PROVE  TypeOK' /\ LogInv'
<1>1. /\ env' = env + 1
      /\ UNCHANGED <<timed, sidecar, lock, file, pc, seen, rows, worker, answer, stray, cause>>
  BY DEF EnvMoves, process
<1>2. TypeOK'
  BY <1>1 DEF TypeOK
<1>3. ASSUME NEW p \in Invocations PROVE LockAt(p)' /\ MemoryAt(p)' /\ CauseAt(p)'
  <2>1. LockAt(p) /\ MemoryAt(p) /\ CauseAt(p) /\ seen[p] \in Nat /\ env \in Nat
    BY DEF LogInv, TypeOK
  <2>2. LockAt(p)' /\ MemoryAt(p)'
    BY <1>1, <2>1 DEF LockAt, MemoryAt, Alive, Canonical, NextSlot
  <2>3. CauseAt(p)'
    BY <1>1, <2>1 DEF CauseAt
  <2> QED BY <2>2, <2>3
<1>4. Sound(file'.rows) /\ CompletionBindsTheLog'
  BY <1>1, BindingKept DEF LogInv
<1> QED BY <1>2, <1>3, <1>4 DEF LogInv

-----------------------------------------------------------------------------
(* The theorems                                                             *)

LEMMA LogInit == ASSUME Init PROVE TypeOK /\ LogInv
<1>1. << >> \in Seq(RowType)
  OBVIOUS
<1>2. TypeOK
  BY <1>1 DEF Init, TypeOK, FileType, NoSidecar, NoAnswer, AnswerStatus
<1>3. ASSUME NEW p \in Invocations PROVE LockAt(p) /\ MemoryAt(p) /\ CauseAt(p)
  <2>1. pc[p] = "waiting" /\ worker[p] = "none" /\ cause[p] = "none" /\ seen[p] <= env
    BY DEF Init
  <2> QED BY <2>1 DEF LockAt, MemoryAt, CauseAt, Alive, Loaded
<1>4. Sound(file.rows)
  BY DEF Init, Sound
<1>5. CompletionBindsTheLog
  BY DEF Init, CompletionBindsTheLog, NoSidecar
<1> QED BY <1>2, <1>3, <1>4, <1>5 DEF LogInv

LEMMA LogStep == ASSUME TypeOK, LogInv, [Next]_vars PROVE TypeOK' /\ LogInv'
<1>1. CASE UNCHANGED vars
  <2>1. /\ UNCHANGED <<timed, env, sidecar, lock, file, pc, seen, rows, worker, answer,
                       stray, cause>>
    BY <1>1 DEF vars
  <2>2. TypeOK'
    BY <2>1 DEF TypeOK
  <2>3. ASSUME NEW p \in Invocations PROVE LockAt(p)' /\ MemoryAt(p)' /\ CauseAt(p)'
    BY <2>1 DEF LogInv, LockAt, MemoryAt, CauseAt, Alive, Canonical, NextSlot
  <2>4. Sound(file'.rows) /\ CompletionBindsTheLog'
    BY <2>1, BindingKept DEF LogInv
  <2> QED BY <2>2, <2>3, <2>4 DEF LogInv
<1>2. CASE EnvMoves
  BY <1>2, EnvMovesKeeps
<1>3. ASSUME NEW p \in Invocations, Driver(p) PROVE TypeOK' /\ LogInv'
  <2>1. CASE Acquire(p)
    BY <2>1, AcquireKeeps
  <2>2. CASE LockTimeout(p)
    BY <2>2, LockTimeoutKeeps
  <2>3. CASE Load(p)
    BY <2>3, LoadKeeps
  <2>4. CASE RecordNotRun(p)
    BY <2>4, RecordNotRunKeeps
  <2>5. CASE Spawn(p)
    BY <2>5, SpawnKeeps
  <2>6. CASE Collect(p)
    BY <2>6, CollectKeeps
  <2>7. CASE EvidenceRefused(p)
    BY <2>7, EvidenceRefusedKeeps
  <2>8. CASE FinalCheck(p)
    BY <2>8, FinalCheckKeeps
  <2>9. CASE Publish(p)
    BY <2>9, PublishKeeps
  <2>10. CASE UnlinkTemporary(p)
    BY <2>10, UnlinkTemporaryKeeps
  <2>11. CASE Recheck(p)
    BY <2>11, RecheckKeeps
  <2> QED BY <1>3, <2>1, <2>2, <2>3, <2>4, <2>5, <2>6, <2>7, <2>8, <2>9, <2>10, <2>11
       DEF Driver
<1>4. ASSUME NEW p \in Invocations,
             WorkerSucceeds(p) \/ WorkerFails(p) \/ WorkerMismatches(p)
      PROVE  TypeOK' /\ LogInv'
  <2>1. PICK a \in [status : AnswerStatus, sum : Sums \cup {0}] : Answer(p, a)
    <3>1. CASE WorkerSucceeds(p)
      BY <3>1 DEF WorkerSucceeds, AnswerStatus
    <3>2. CASE WorkerFails(p)
      BY <3>2 DEF WorkerFails, AnswerStatus
    <3>3. CASE WorkerMismatches(p)
      BY <3>3 DEF WorkerMismatches, NumericalStatus, AnswerStatus
    <3> QED BY <1>4, <3>1, <3>2, <3>3
  <2> QED BY <2>1, AnswerKeeps
<1>5. ASSUME NEW p \in Invocations, Kill(p) PROVE TypeOK' /\ LogInv'
  BY <1>5, KillKeeps
<1>6. ASSUME NEW p \in Invocations, Interrupt(p) PROVE TypeOK' /\ LogInv'
  BY <1>6, InterruptKeeps
<1>7. ASSUME NEW p \in Invocations, WorkerDies(p) \/ StrayExits(p) PROVE TypeOK' /\ LogInv'
  BY <1>7, WorkerEndKeeps
<1> QED BY <1>1, <1>2, <1>3, <1>4, <1>5, <1>6, <1>7 DEF Next

\* The files, the lock, the memories and the workers have the shapes the code gives them,
\* and the parts of the invariant that tie them together hold throughout.
THEOREM LogInvariant == Spec => [](TypeOK /\ LogInv)
<1>1. Init => TypeOK /\ LogInv
  BY LogInit
<1>2. TypeOK /\ LogInv /\ [Next]_vars => (TypeOK /\ LogInv)'
  BY LogStep
<1> QED BY <1>1, <1>2, PTL DEF Spec

\* Whatever invocations wrote, died, were interrupted and resumed, the whole rows of the
\* CSV are the schedule up to some slot, of one identity, with the baseline of an
\* instance at its first success and the slots after a failure of a cell not run.
THEOREM LogIsThePrefix == Spec => []LogIsASchedulePrefix
<1>1. TypeOK /\ LogInv => LogIsASchedulePrefix
  <2> SUFFICES ASSUME TypeOK, LogInv PROVE LogIsASchedulePrefix
    OBVIOUS
  <2>1. file.rows \in Seq(RowType) /\ Sound(file.rows)
    BY DEF TypeOK, FileType, LogInv
  <2>2. PrefixOf(file.rows)
    BY <2>1, SoundMeansPrefix
  <2> QED BY <2>2 DEF PrefixOf, LogIsASchedulePrefix
<1> QED BY <1>1, LogInvariant, PTL

\* A completion document binds every byte of a full CSV from the moment it has a name,
\* and an invocation that reports ok leaves a log in which every attempt was run,
\* succeeded and agreed.
THEOREM CompletionBinds == Spec => []CompletionBindsTheLog
<1>1. LogInv => CompletionBindsTheLog
  BY DEF LogInv
<1> QED BY <1>1, LogInvariant, PTL

\* Two attempts of any two invocations are measured at once only if a driver was
\* interrupted: the flock that a worker inherits outlives a killed driver.
THEOREM OneMeasurementAtATime == Spec => []MeasurementsDoNotOverlap
<1>1. TypeOK /\ LogInv => MeasurementsDoNotOverlap
  <2> SUFFICES ASSUME LogInv, NEW p \in Invocations, NEW q \in Invocations,
                      p # q, Alive(p), Alive(q)
               PROVE  "interrupt" \in {cause[p], cause[q]}
    BY DEF MeasurementsDoNotOverlap
  <2> QED BY DEF LogInv, LockAt
<1> QED BY <1>1, LogInvariant, PTL

\* An invocation refuses a log only for another identity, a lone CR at its end, a
\* publication cut in two, contradictory metrics or a held lock, and never the rows
\* that invocations wrote: no order of resumptions makes a log that none accepts
\* without one of these.
THEOREM RefusalsAreJustified == Spec => []RefusalHasCause
<1>1. TypeOK /\ LogInv => RefusalHasCause
  <2> SUFFICES ASSUME TypeOK, LogInv, NEW p \in Invocations
               PROVE  CASE cause[p] = "torn" -> file.tail = "cr"
                        [] cause[p] = "linked" -> sidecar.state = "linked"
                        [] cause[p] = "scope" -> seen[p] # file.rows[1].env
                        [] cause[p] = "moved" -> seen[p] # env
                        [] OTHER -> cause[p] \notin {"invalid", "completion"}
    BY DEF RefusalHasCause
  <2>1. CauseAt(p) /\ seen[p] \in Nat /\ env \in Nat
    BY DEF LogInv, TypeOK
  <2>2. seen[p] < env => seen[p] # env
    BY <2>1
  <2> QED BY <2>1, <2>2 DEF CauseAt
<1> QED BY <1>1, LogInvariant, PTL

=============================================================================
