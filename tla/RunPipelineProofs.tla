--------------------------- MODULE RunPipelineProofs ---------------------------
(***************************************************************************)
(* Theorems about RunPipeline, for every set of responses and every limit:   *)
(* what is recorded of a run is true of the response, of the store and of    *)
(* the stage that was at work, wherever a chunk ends and whoever is killed.  *)
(***************************************************************************)
EXTENDS RunPipeline, FiniteSetTheorems, SequenceTheorems, WellFoundedInduction, TLAPS

-----------------------------------------------------------------------------
(* Maxima                                                                   *)

LEMMA NatOrder ==
    \E R : IsWellFoundedOn(R, Nat) /\ \A x, y \in Nat : (<<y, x>> \in R) <=> y < x
<1> DEFINE Less(a, b) == a < b
           R == OpToRel(Less, Nat)
<1>1. IsWellFoundedOn(R, Nat)
  BY NatLessThanWellFounded
<1>2. \A x, y \in Nat : (<<y, x>> \in R) <=> y < x
  BY DEF OpToRel
<1> HIDE DEF R
<1> QED BY <1>1, <1>2

LEMMA NatMin ==
    ASSUME NEW T \in SUBSET Nat, T # {}
    PROVE  \E x \in T : \A y \in T : x <= y
<1>1. PICK R : IsWellFoundedOn(R, Nat) /\ \A x, y \in Nat : (<<y, x>> \in R) <=> y < x
  BY NatOrder
<1>2. \E x \in T : \A y \in T : ~(<<y, x>> \in R)
  BY <1>1, WFMin
<1>3. PICK x \in T : \A y \in T : ~(<<y, x>> \in R)
  BY <1>2
<1>4. ASSUME NEW y \in T PROVE x <= y
  <2>1. x \in Nat /\ y \in Nat /\ ~(y < x)
    BY <1>1, <1>3
  <2> QED BY <2>1
<1> QED BY <1>4

LEMMA MaxIs ==
    ASSUME NEW S \in SUBSET Int, NEW x \in S, \A y \in S : y <= x
    PROVE  Max(S) = x
<1>1. \A y \in S : x >= y
  OBVIOUS
<1>2. Max(S) \in S /\ \A y \in S : Max(S) >= y
  BY <1>1 DEF Max
<1>3. Max(S) >= x /\ x >= Max(S) /\ Max(S) \in Int /\ x \in Int
  BY <1>1, <1>2
<1> QED BY <1>3

LEMMA MaxOfPositions ==
    ASSUME NEW n \in Nat, NEW S \in SUBSET (1 .. n), S # {}
    PROVE  Max(S) \in S /\ \A y \in S : y <= Max(S)
<1> DEFINE T == {n - x : x \in S}
<1>1. T \in SUBSET Nat /\ T # {}
  <2>1. \A x \in S : n - x \in Nat
    OBVIOUS
  <2> QED BY <2>1
<1>2. PICK t \in T : \A u \in T : t <= u
  <2> HIDE DEF T
  <2> QED BY <1>1, NatMin
<1>3. PICK x \in S : t = n - x
  BY <1>2
<1>4. ASSUME NEW y \in S PROVE y <= x
  <2>1. n - y \in T
    OBVIOUS
  <2>2. n - x <= n - y
    BY <1>2, <1>3, <2>1
  <2> QED BY <2>2
<1>5. Max(S) = x
  <2>1. S \in SUBSET Int
    OBVIOUS
  <2> QED BY <1>4, <2>1, MaxIs
<1> QED BY <1>4, <1>5

-----------------------------------------------------------------------------
(* The journal                                                              *)

StageNames == {"circuit_decode", "answer_index", "answer_record_persist", "reachable_circuit_stats",
               "probability_load", "pqe_compile", "pqe_wmc", "pqe_artifact_persist", "metrics",
               "extract", "raw_provenance", "dag_artifact_persist", "answers"}
Events == [event : {"start", "complete", "torn"}, stage : StageNames \cup {"none"}]
Started(j) == {i \in DOMAIN j : j[i].event = "start"}
Closed(j) == \E i \in Max(Started(j)) .. Len(j) :
                j[i] = [event |-> "complete", stage |-> j[Max(Started(j))].stage]

LEMMA ActiveIs ==
    ASSUME NEW j
    PROVE  ActiveStage(j) = IF Started(j) = {} \/ Closed(j) THEN "none"
                            ELSE j[Max(Started(j))].stage
BY DEF ActiveStage, Started, Closed

LEMMA NothingActive == ActiveStage(<< >>) = "none"
<1>1. Started(<< >>) = {}
  BY DEF Started
<1> QED BY <1>1, ActiveIs

LEMMA StartedIsActive ==
    ASSUME NEW j \in Seq(Events), NEW s \in StageNames
    PROVE  ActiveStage(Append(j, [event |-> "start", stage |-> s])) = s
<1> DEFINE e == [event |-> "start", stage |-> s]
           k == Append(j, e)
           n == Len(j) + 1
<1>1. k \in Seq(Events) /\ Len(k) = n /\ n \in Nat /\ k[n] = e
  BY DEF Events
<1> HIDE DEF k
<1>2. n \in Started(k) /\ Started(k) \in SUBSET (1 .. n)
  BY <1>1 DEF Started
<1>3. Max(Started(k)) = n
  <2>1. Started(k) \in SUBSET Int /\ \A y \in Started(k) : y <= n
    BY <1>1, <1>2
  <2> QED BY <1>2, <2>1, MaxIs
<1>4. ~Closed(k)
  BY <1>1, <1>3 DEF Closed
<1>5. ActiveStage(k) = s
  BY <1>1, <1>2, <1>3, <1>4, ActiveIs
<1> QED BY <1>5 DEF k

\* What is appended, if it is no start, leaves the last start where it is.
LEMMA StartsStay ==
    ASSUME NEW j \in Seq(Events), NEW e \in Events, e.event # "start"
    PROVE  LET k == Append(j, e)
           IN /\ Started(k) = Started(j)
              /\ Len(k) = Len(j) + 1 /\ Len(j) \in Nat /\ k[Len(j) + 1] = e
              /\ \A i \in 1 .. Len(j) : k[i] = j[i]
              /\ Started(j) # {} => Max(Started(j)) \in 1 .. Len(j)
<1> DEFINE k == Append(j, e)
<1>1. /\ Len(k) = Len(j) + 1 /\ Len(j) \in Nat /\ k[Len(j) + 1] = e
      /\ \A i \in 1 .. Len(j) : k[i] = j[i]
      /\ DOMAIN k = 1 .. Len(j) + 1 /\ DOMAIN j = 1 .. Len(j)
  OBVIOUS
<1> HIDE DEF k
<1>2. Started(k) = Started(j)
  BY <1>1 DEF Started
<1>3. Started(j) # {} => Max(Started(j)) \in 1 .. Len(j)
  <2>1. Started(j) \in SUBSET (1 .. Len(j))
    BY <1>1 DEF Started
  <2> QED BY <1>1, <2>1, MaxOfPositions
<1> QED BY <1>1, <1>2, <1>3 DEF k

LEMMA CompletedIsNotActive ==
    ASSUME NEW j \in Seq(Events), NEW s \in StageNames, ActiveStage(j) = s
    PROVE  ActiveStage(Append(j, [event |-> "complete", stage |-> s])) = "none"
<1> DEFINE e == [event |-> "complete", stage |-> s]
           k == Append(j, e)
<1>1. Started(j) # {} /\ j[Max(Started(j))].stage = s
  <2>1. s # "none"
    BY DEF StageNames
  <2> QED BY <2>1, ActiveIs
<1>2. e \in Events /\ e.event # "start"
  BY DEF Events
<1>3. /\ Started(k) = Started(j)
      /\ Len(k) = Len(j) + 1 /\ Len(j) \in Nat /\ k[Len(j) + 1] = e
      /\ \A i \in 1 .. Len(j) : k[i] = j[i]
      /\ Max(Started(j)) \in 1 .. Len(j)
  <2> HIDE DEF e
  <2> QED BY <1>1, <1>2, StartsStay
<1> HIDE DEF k
<1>4. Closed(k)
  BY <1>1, <1>3 DEF Closed
<1> QED BY <1>4, ActiveIs DEF k

LEMMA TornIsNothing ==
    ASSUME NEW j \in Seq(Events)
    PROVE  ActiveStage(Append(j, Torn)) = ActiveStage(j)
<1> DEFINE k == Append(j, Torn)
<1>1. Torn \in Events /\ Torn.event # "start" /\ Torn.event # "complete"
  BY DEF Torn, Events
<1>2. /\ Started(k) = Started(j)
      /\ Len(k) = Len(j) + 1 /\ Len(j) \in Nat /\ k[Len(j) + 1] = Torn
      /\ \A i \in 1 .. Len(j) : k[i] = j[i]
      /\ Started(j) # {} => Max(Started(j)) \in 1 .. Len(j)
  BY <1>1, StartsStay
<1> HIDE DEF k
<1>3. CASE Started(j) = {}
  BY <1>2, <1>3, ActiveIs DEF k
<1>4. CASE Started(j) # {}
  <2>1. Max(Started(j)) \in 1 .. Len(j) /\ k[Max(Started(j))] = j[Max(Started(j))]
    BY <1>2, <1>4
  <2>2. Closed(k) <=> Closed(j)
    BY <1>1, <1>2, <2>1 DEF Closed
  <2> QED BY <1>2, <2>1, <2>2, ActiveIs DEF k
<1> QED BY <1>3, <1>4

-----------------------------------------------------------------------------
(* Files                                                                    *)

Holds(name, content) == Has(name) /\ files[name] = content

LEMMA Written ==
    ASSUME NEW name, NEW content, WithFile(name, content)
    PROVE  /\ Holds(name, content)'
           /\ \A other : other # name => (Has(other)' <=> Has(other))
           /\ \A other : other # name /\ Has(other) => files'[other] = files[other]
<1> DEFINE all == {name} \cup DOMAIN files
<1>1. files' = [x \in all |-> IF x \in {name} THEN content ELSE files[x]]
  BY DEF WithFile
<1> QED BY <1>1 DEF Holds, Has

-----------------------------------------------------------------------------
(* The invariant                                                            *)

AtWork == {"start", "wait", "reap", "request", "drain", "finish", "rows", "evidence", "check", "result"}
Failures == {"offline-timeout", "offline-crash", "offline-error"}
Status == {"none", "ok", "rewrite-error", "c-execution-error", "c-protocol-error", "c-mode-error",
           "c-cleanup-error", "timeout", "http-error", "network-error", "runner-error",
           "invalid-response"}

TypeOK ==
  /\ config \in Configs /\ transport \in Transports /\ terminated \in BOOLEAN
  /\ rows \in Responses \cup {<< >>}
  /\ runner \in {"endpoint", "offline", "answers", "recorded"}
  /\ expired \in BOOLEAN /\ dirty \in BOOLEAN
  /\ worker \in AtWork \cup {"ended", "killed"}
  /\ engine \in {"none", "running", "stopping", "ended"}
  /\ report \in [exit : {0, 1}, marked : BOOLEAN, mode : {"honoured", "fallback", "other"},
                 events : BOOLEAN, cleanup : BOOLEAN]
  /\ sent \in 0 .. Len(Body)
  /\ status \in Status
  /\ result \in [status : Status, recovery : BOOLEAN]
  /\ offline \in [state : {"none", "running", "failed", "crashed", "timeout", "done"},
                  stage : 1 .. Len(Stages), at : {"start", "work", "complete"}]
  /\ journal \in Seq(Events)
  /\ verdict \in [status : Failures \cup {"none", "ok"}, substage : StageNames \cup {"none"}]

\* The worker has a verdict on itself when it writes it, and the runner takes it or times
\* out; from then on the worker is gone.
WorkerInv ==
  /\ worker \in AtWork \ {"result"} => status = "none"
  /\ worker \in {"result", "ended"} => status # "none"
  /\ worker = "ended" => Has("endpoint-result.json")
  /\ Has("endpoint-result.json") => worker = "ended" /\ files["endpoint-result.json"] = status
  /\ runner # "endpoint" => worker \in {"ended", "killed"}
  /\ (runner = "endpoint") <=> (result.status = "none")
  /\ result.status = "ok" => status = "ok"
  /\ result.recovery <=> (result.status \notin {"none", "ok"} /\ IsCircuit)

\* An engine that ended well under the eyes of its worker has cleaned up.
EngineInv ==
  IsCircuit =>
    /\ worker \notin {"request", "drain", "finish", "rows", "evidence"}
    /\ engine = "none" => worker \in {"start", "killed"} /\ status = "none" /\ ~dirty
    /\ worker = "wait" /\ engine = "ended" /\ report.exit = 0 /\ report.cleanup => ~dirty
    /\ worker = "check" \/ status = "ok" => engine = "ended" /\ ~dirty

\* The runner judges an offline worker that has ended, and one that was done is ok.
OfflineInv ==
  /\ runner = "endpoint" => offline = [state |-> "none", stage |-> 1, at |-> "start"]
  /\ (offline.state # "none") <=> (result.status = "ok")
  /\ runner \in {"endpoint", "offline"} => verdict = [status |-> "none", substage |-> "none"]
  /\ runner = "answers" => verdict.status = "ok" /\ config.method = "N"
  /\ verdict.status # "none" => offline.state \notin {"none", "running"}
  /\ verdict.status = "ok" => offline.state = "done" /\ verdict.substage = "none"
  /\ offline.state = "done" => offline.stage = Len(Stages) /\ offline.at = "complete"

\* The journal names the stage at work, and no other.
JournalInv ==
  /\ ~IsCircuit => journal = << >>
  /\ ActiveStage(journal) = IF Journaled /\ offline.at # "start" THEN StageName ELSE "none"
  /\ verdict.status \in Failures => verdict.substage = ActiveStage(journal)

\* What the collector holds of the rows after so many lines.
TakenOf(n) == IF CountsRows /\ ~Exact(n) THEN << >> ELSE SubSeq(rows, 1, n - 1)

\* The m bytes from the first of line k.
Bytes(k, m) == [i \in 1 .. m |-> <<k + ((i - 1) \div 3), (i - 1) % 3>>]

\* A response whose loss of bytes would be noticed.
Vouched == ~IsCircuit /\ config.stream /\ transport # "length"

\* The collector is where the bytes are, and ends with every row.
StreamInv ==
  /\ worker \in {"start", "wait", "reap", "request"} =>
       sent = 0 /\ pending = << >> /\ lines = 0 /\ taken = << >>
  /\ worker \in {"drain", "finish"} /\ config.stream =>
       /\ lines = sent \div 3
       /\ taken = TakenOf(lines)
       /\ pending = Bytes(lines, sent % 3)
  /\ worker = "finish" /\ transport # "length" => sent = Len(Body)
  /\ Vouched /\ (worker \in {"rows", "evidence", "check"} \/ status = "ok") =>
       lines = Len(rows) + 1 /\ taken = TakenOf(lines)

\* The files of the endpoint phase hold what the collector held, or the circuit.
ResponseInv ==
  /\ Vouched /\ (worker \in {"evidence", "check"} \/ status = "ok") =>
       /\ Evidence = "provenance" => Holds("response/npcs-provenance.jsonl", taken)
       /\ Evidence = "exact" => Holds("response/answer-records.jsonl", Multiset(taken))
  /\ Vouched /\ (worker = "check" \/ status = "ok") =>
       Holds("response/evidence.json", [mode |-> Evidence, rows |-> lines - 1])
  /\ IsCircuit /\ (worker = "check" \/ status = "ok") => Holds("circuit.nt", "circuit")

\* The offline worker has left the artifact of stage k.
Past(k) == offline.stage > k \/ (offline.stage = k /\ offline.at = "complete")

Trusted == Vouched \/ ~config.stream
Summarised == config.stream /\ Len(rows) > ExactRowLimit

\* Its artifacts are those of all rows.
ArtifactInv ==
  /\ IsCircuit /\ Past(3) => Holds("offline/answer-records.jsonl", "circuit")
  /\ config.method = "N" /\ Trusted =>
       /\ Past(2) => Holds("pp/npcs-provenance.jsonl", rows)
       /\ Past(3) => Holds("pp/npcs-hc-dag.json", Derivations(rows))
       /\ runner = "recorded" /\ verdict.status = "ok" => Holds("pp/answer-records.jsonl", Keys(rows))
  /\ CountsRows /\ ~Past(1) => ~Has("offline/answer-records.jsonl")
  /\ CountsRows /\ Trusted /\ Past(1) =>
       /\ Summarised => /\ Holds("offline/answer-summary.json", Len(rows))
                        /\ ~Has("offline/answer-records.jsonl")
       /\ ~Summarised => Holds("offline/answer-records.jsonl", Multiset(rows))

-----------------------------------------------------------------------------
(* The bytes of a response and its lines                                    *)

LEMMA SameList ==
    ASSUME NEW S, NEW u \in Seq(S), NEW v \in Seq(S), Len(u) = Len(v),
           \A i \in 1 .. Len(u) : u[i] = v[i]
    PROVE  u = v
OBVIOUS

LEMMA DivMod ==
    ASSUME NEW n \in Nat
    PROVE  n \div 3 \in Nat /\ n % 3 \in 0 .. 2 /\ n = 3 * (n \div 3) + (n % 3)
OBVIOUS

LEMMA DivIs ==
    ASSUME NEW q \in Nat, NEW r \in 0 .. 2
    PROVE  (3 * q + r) \div 3 = q /\ (3 * q + r) % 3 = r
OBVIOUS

LEMMA ByteOf ==
    ASSUME NEW k \in Nat, NEW m \in Nat
    PROVE  /\ Bytes(k, m) \in Seq(Nat \X (0 .. 2)) /\ Len(Bytes(k, m)) = m
           /\ DOMAIN Bytes(k, m) = 1 .. m
           /\ \A i \in 1 .. m : Bytes(k, m)[i] = <<k + ((i - 1) \div 3), (i - 1) % 3>>
           /\ \A q \in Nat, r \in 0 .. 2 : 3 * q + r < m => Bytes(k, m)[3 * q + r + 1] = <<k + q, r>>
<1>1. \A i \in 1 .. m : k + ((i - 1) \div 3) \in Nat /\ (i - 1) % 3 \in 0 .. 2
  <2> SUFFICES ASSUME NEW i \in 1 .. m PROVE k + ((i - 1) \div 3) \in Nat /\ (i - 1) % 3 \in 0 .. 2
    OBVIOUS
  <2>1. i - 1 \in Nat
    OBVIOUS
  <2> QED BY <2>1, DivMod
<1>2. Bytes(k, m) \in Seq(Nat \X (0 .. 2)) /\ Len(Bytes(k, m)) = m /\ DOMAIN Bytes(k, m) = 1 .. m
  BY <1>1 DEF Bytes
<1>3. \A i \in 1 .. m : Bytes(k, m)[i] = <<k + ((i - 1) \div 3), (i - 1) % 3>>
  BY DEF Bytes
<1>4. ASSUME NEW q \in Nat, NEW r \in 0 .. 2, 3 * q + r < m
      PROVE  Bytes(k, m)[3 * q + r + 1] = <<k + q, r>>
  <2>1. 3 * q + r + 1 \in 1 .. m
    BY <1>4
  <2>2. PICK i \in 1 .. m : i = 3 * q + r + 1
    BY <2>1
  <2>3. i - 1 = 3 * q + r
    BY <2>2
  <2>4. (i - 1) \div 3 = q /\ (i - 1) % 3 = r
    BY <2>3, DivIs
  <2>5. Bytes(k, m)[i] = <<k + q, r>>
    BY <1>3, <2>4
  <2> QED BY <2>2, <2>5
<1> QED BY <1>2, <1>3, <1>4

\* Where lines end.
LEMMA EndsOf ==
    ASSUME NEW k \in Nat, NEW m \in Nat
    PROVE  /\ \A i \in 1 .. m : Newline(Bytes(k, m)[i]) <=> i % 3 = 0
           /\ Ends(Bytes(k, m)) = {i \in 1 .. m : i % 3 = 0}
<1>1. ASSUME NEW i \in 1 .. m PROVE Newline(Bytes(k, m)[i]) <=> i % 3 = 0
  <2>1. Bytes(k, m)[i] = <<k + ((i - 1) \div 3), (i - 1) % 3>>
    BY ByteOf
  <2>2. (i - 1) % 3 = 2 <=> i % 3 = 0
    OBVIOUS
  <2> QED BY <2>1, <2>2 DEF Newline
<1> QED BY <1>1, ByteOf DEF Ends

LEMMA StartOf ==
    ASSUME NEW k \in Nat, NEW m \in Nat, NEW q \in Nat, 3 * q + 3 <= m
    PROVE  LineStart(Bytes(k, m), 3 * q + 3) = 3 * q + 1
<1> DEFINE S == {0} \cup {j \in Ends(Bytes(k, m)) : j < 3 * q + 3}
<1>1. S \in SUBSET Int /\ \A j \in S : j <= 3 * q
  <2>1. \A j \in S : j = 0 \/ (j \in 1 .. m /\ j % 3 = 0 /\ j < 3 * q + 3)
    BY EndsOf
  <2>2. ASSUME NEW j \in 1 .. m, j % 3 = 0, j < 3 * q + 3 PROVE j <= 3 * q
    BY <2>2
  <2> HIDE DEF S
  <2> QED BY <2>1, <2>2
<1>2. 3 * q \in S
  <2>1. CASE q = 0
    BY <2>1
  <2>2. CASE q # 0
    <3>1. 3 * q \in 1 .. m /\ (3 * q) % 3 = 0 /\ 3 * q < 3 * q + 3
      BY <2>2, DivIs
    <3> QED BY <3>1, EndsOf
  <2> QED BY <2>1, <2>2
<1>3. Max(S) = 3 * q
  <2> HIDE DEF S
  <2> QED BY <1>1, <1>2, MaxIs
<1> QED BY <1>3 DEF LineStart

\* A line, without its newline, is two halves.
LEMMA LineOf ==
    ASSUME NEW k \in Nat, NEW m \in Nat, NEW q \in Nat, 3 * q + 3 <= m
    PROVE  SubSeq(Bytes(k, m), LineStart(Bytes(k, m), 3 * q + 3), 3 * q + 2)
             = <<<<k + q, 0>>, <<k + q, 1>>>>
<1> DEFINE b == Bytes(k, m)
<1>1. b \in Seq(Nat \X (0 .. 2)) /\ Len(b) = m
      /\ b[3 * q + 1] = <<k + q, 0>> /\ b[3 * q + 2] = <<k + q, 1>>
  <2>1. /\ \A r \in 0 .. 2 : 3 * q + r < m => b[3 * q + r + 1] = <<k + q, r>>
        /\ b \in Seq(Nat \X (0 .. 2)) /\ Len(b) = m
    BY ByteOf
  <2> HIDE DEF b
  <2>2. 3 * q + 0 < m /\ 3 * q + 1 < m /\ 0 \in 0 .. 2 /\ 1 \in 0 .. 2
    OBVIOUS
  <2>3. b[3 * q + 0 + 1] = <<k + q, 0>> /\ b[3 * q + 1 + 1] = <<k + q, 1>>
    BY <2>1, <2>2
  <2>4. 3 * q + 0 + 1 = 3 * q + 1 /\ 3 * q + 1 + 1 = 3 * q + 2
    OBVIOUS
  <2> QED BY <2>1, <2>3, <2>4
<1>2. LineStart(b, 3 * q + 3) = 3 * q + 1
  BY StartOf
<1> HIDE DEF b
<1>3. SubSeq(b, 3 * q + 1, 3 * q + 2) = <<b[3 * q + 1], b[3 * q + 2]>>
  <2> DEFINE u == SubSeq(b, 3 * q + 1, 3 * q + 2)
             v == <<b[3 * q + 1], b[3 * q + 2]>>
  <2>1. u \in Seq(Nat \X (0 .. 2)) /\ Len(u) = 2 /\ u[1] = b[3 * q + 1] /\ u[2] = b[3 * q + 2]
    BY <1>1
  <2>2. v \in Seq(Nat \X (0 .. 2)) /\ Len(v) = 2 /\ v[1] = b[3 * q + 1] /\ v[2] = b[3 * q + 2]
    BY <1>1
  <2> HIDE DEF u, v
  <2>3. \A i \in 1 .. 2 : u[i] = v[i]
    BY <2>1, <2>2
  <2>4. u = v
    BY <2>1, <2>2, <2>3, SameList
  <2> QED BY <2>4 DEF u, v
<1> QED BY <1>1, <1>2, <1>3 DEF b

\* What follows the last newline.
LEMMA RestOf ==
    ASSUME NEW k \in Nat, NEW m \in Nat
    PROVE  Rest(Bytes(k, m)) = Bytes(k + (m \div 3), m % 3)
<1> DEFINE b == Bytes(k, m)
           q == m \div 3
           r == m % 3
           S == {0} \cup Ends(b)
<1>1. q \in Nat /\ r \in 0 .. 2 /\ m = 3 * q + r
  BY DivMod
<1> HIDE DEF q, r
<1>2. S \in SUBSET Int /\ \A j \in S : j <= 3 * q
  <2>1. \A j \in S : j = 0 \/ (j \in 1 .. m /\ j % 3 = 0)
    BY EndsOf
  <2>2. ASSUME NEW j \in 1 .. m, j % 3 = 0 PROVE j <= 3 * q
    BY <1>1, <2>2
  <2> HIDE DEF S
  <2> QED BY <1>1, <2>1, <2>2
<1>3. 3 * q \in S
  <2>1. CASE q = 0
    BY <2>1
  <2>2. CASE q # 0
    <3>1. 3 * q \in 1 .. m /\ (3 * q) % 3 = 0
      BY <1>1, <2>2, DivIs
    <3> QED BY <3>1, EndsOf
  <2> QED BY <2>1, <2>2
<1>4. Max(S) = 3 * q
  <2> HIDE DEF S
  <2> QED BY <1>2, <1>3, MaxIs
<1>5. Rest(b) = SubSeq(b, 1 + 3 * q, Len(b))
  BY <1>4 DEF Rest
<1>6. b \in Seq(Nat \X (0 .. 2)) /\ Len(b) = m
      /\ \A p \in Nat, t \in 0 .. 2 : 3 * p + t < m => b[3 * p + t + 1] = <<k + p, t>>
  BY ByteOf
<1>7. k + q \in Nat /\ r \in Nat
  BY <1>1
<1>8. Bytes(k + q, r) \in Seq(Nat \X (0 .. 2)) /\ Len(Bytes(k + q, r)) = r
      /\ \A i \in 1 .. r : Bytes(k + q, r)[i] = <<(k + q) + ((i - 1) \div 3), (i - 1) % 3>>
  BY <1>1, <1>7, ByteOf
<1> HIDE DEF b
<1>9. SubSeq(b, 1 + 3 * q, m) \in Seq(Nat \X (0 .. 2)) /\ Len(SubSeq(b, 1 + 3 * q, m)) = r
      /\ \A i \in 1 .. r : SubSeq(b, 1 + 3 * q, m)[i] = b[3 * q + i]
  BY <1>1, <1>6
<1>10. ASSUME NEW i \in 1 .. r PROVE b[3 * q + i] = Bytes(k + q, r)[i]
  <2>1. i - 1 \in 0 .. 2 /\ 3 * q + (i - 1) < m /\ 3 * q + (i - 1) + 1 = 3 * q + i
    BY <1>1
  <2>2. b[3 * q + i] = <<k + q, i - 1>>
    BY <1>1, <1>6, <2>1
  <2>3. (i - 1) \div 3 = 0 /\ (i - 1) % 3 = i - 1
    BY <2>1
  <2>4. Bytes(k + q, r)[i] = <<(k + q) + ((i - 1) \div 3), (i - 1) % 3>>
    BY <1>8
  <2>5. (k + q) + ((i - 1) \div 3) = k + q
    BY <1>7, <2>3
  <2> QED BY <2>2, <2>3, <2>4, <2>5
<1>11. SubSeq(b, 1 + 3 * q, m) = Bytes(k + q, r)
  <2> DEFINE u == SubSeq(b, 1 + 3 * q, m)
             v == Bytes(k + q, r)
  <2>1. u \in Seq(Nat \X (0 .. 2)) /\ v \in Seq(Nat \X (0 .. 2)) /\ Len(u) = r /\ Len(v) = r
        /\ \A i \in 1 .. r : u[i] = v[i]
    BY <1>8, <1>9, <1>10
  <2> HIDE DEF u, v
  <2>2. u = v
    BY <2>1
  <2> QED BY <2>2 DEF u, v
<1> QED BY <1>5, <1>6, <1>11 DEF b, q, r

LEMMA RowsFacts ==
    ASSUME TypeOK
    PROVE  /\ Len(rows) \in Nat /\ DOMAIN rows = 1 .. Len(rows)
           /\ \E R : rows \in Seq(R)
           /\ ExactRowLimit \in Nat
<1>1. \E R : rows \in Seq(R)
  <2>1. CASE rows \in Responses
    BY <2>1, PipelineAssumption
  <2>2. CASE rows = << >>
    <3>1. << >> \in Seq({})
      OBVIOUS
    <3> QED BY <2>2, <3>1
  <2> QED BY <2>1, <2>2 DEF TypeOK
<1> QED BY <1>1, PipelineAssumption

\* The bytes of the body, from anywhere.
LEMMA BodyIs ==
    ASSUME TypeOK
    PROVE  /\ Len(Body) \in Nat
           /\ Len(Body) = 3 * Len(rows) + (IF terminated THEN 3 ELSE 2)
           /\ Body \in Seq(Nat \X (0 .. 2))
           /\ \A i \in 1 .. Len(Body) : Body[i] = <<(i - 1) \div 3, (i - 1) % 3>>
<1> DEFINE m == 3 * (Len(rows) + 1) - (IF terminated THEN 0 ELSE 1)
<1>1. m \in Nat /\ m = 3 * Len(rows) + (IF terminated THEN 3 ELSE 2)
  BY RowsFacts
<1>2. Body = Bytes(0, m)
  <2>1. \A i \in 1 .. m : (i - 1) \div 3 \in Nat
    BY <1>1, DivMod
  <2> HIDE DEF m
  <2>2. \A i \in 1 .. m : 0 + ((i - 1) \div 3) = (i - 1) \div 3
    BY <2>1
  <2>3. Body = [i \in 1 .. m |-> <<(i - 1) \div 3, (i - 1) % 3>>]
    BY DEF Body, m
  <2> QED BY <2>2, <2>3 DEF Bytes
<1> HIDE DEF m
<1>3. Body \in Seq(Nat \X (0 .. 2)) /\ Len(Body) = m
      /\ \A i \in 1 .. m : Body[i] = <<0 + ((i - 1) \div 3), (i - 1) % 3>>
  BY <1>1, <1>2, ByteOf
<1>4. \A i \in 1 .. m : Body[i] = <<(i - 1) \div 3, (i - 1) % 3>>
  BY <1>2, <1>3 DEF Body, m
<1> QED BY <1>1, <1>3, <1>4

\* What is pending and what is read next are bytes of the body in one piece.
LEMMA NextBytes ==
    ASSUME TypeOK, NEW n \in 1 .. Len(Body) - sent
    PROVE  Bytes(sent \div 3, sent % 3) \o SubSeq(Body, sent + 1, sent + n)
             = Bytes(sent \div 3, (sent % 3) + n)
<1> DEFINE k == sent \div 3
           r == sent % 3
           u == Bytes(k, r)
           v == SubSeq(Body, sent + 1, sent + n)
           w == Bytes(k, r + n)
           B == Nat \X (0 .. 2)
<1>1. sent \in Nat /\ n \in Nat /\ sent + n <= Len(Body)
  BY BodyIs DEF TypeOK
<1>2. k \in Nat /\ r \in 0 .. 2 /\ sent = 3 * k + r
  BY <1>1, DivMod
<1>3. r \in Nat /\ r + n \in Nat
  BY <1>1, <1>2
<1> HIDE DEF k, r
<1>4. u \in Seq(B) /\ Len(u) = r /\ \A i \in 1 .. r : u[i] = <<k + ((i - 1) \div 3), (i - 1) % 3>>
  BY <1>2, <1>3, ByteOf
<1>5. w \in Seq(B) /\ Len(w) = r + n
      /\ \A i \in 1 .. r + n : w[i] = <<k + ((i - 1) \div 3), (i - 1) % 3>>
  BY <1>2, <1>3, ByteOf
<1>6. v \in Seq(B) /\ Len(v) = n /\ \A i \in 1 .. n : v[i] = Body[sent + i]
  <2> HIDE DEF B
  <2>1. Body \in Seq(B)
    BY BodyIs DEF B
  <2> QED BY <1>1, <2>1
<1>7. ASSUME NEW i \in 1 .. n PROVE v[i] = w[r + i]
  <2>1. \A p \in 1 .. Len(Body) : Body[p] = <<(p - 1) \div 3, (p - 1) % 3>>
    BY BodyIs
  <2>2. v[i] = <<(sent + i - 1) \div 3, (sent + i - 1) % 3>>
    <3>1. PICK p \in 1 .. Len(Body) : p = sent + i
      BY <1>1
    <3>2. Body[p] = <<(p - 1) \div 3, (p - 1) % 3>>
      BY <2>1
    <3>3. v[i] = Body[p]
      BY <1>6, <3>1
    <3> QED BY <1>1, <3>1, <3>2, <3>3
  <2>3. w[r + i] = <<k + ((r + i - 1) \div 3), (r + i - 1) % 3>>
    <3>1. PICK p \in 1 .. r + n : p = r + i
      BY <1>1, <1>3
    <3> HIDE DEF w
    <3>2. w[p] = <<k + ((p - 1) \div 3), (p - 1) % 3>>
      BY <1>5
    <3> QED BY <1>1, <1>3, <3>1, <3>2
  <2>4. (sent + i - 1) \div 3 = k + ((r + i - 1) \div 3) /\ (sent + i - 1) % 3 = (r + i - 1) % 3
    BY <1>1, <1>2
  <2> QED BY <2>2, <2>3, <2>4
<1> HIDE DEF u, v, w, B
<1>8. u \o v \in Seq(B) /\ Len(u \o v) = r + n
      /\ \A i \in 1 .. r + n : (u \o v)[i] = IF i <= r THEN u[i] ELSE v[i - r]
  <2>1. /\ u \o v \in Seq(B) /\ Len(u \o v) = Len(u) + Len(v)
        /\ \A i \in 1 .. Len(u) + Len(v) : (u \o v)[i] = IF i <= Len(u) THEN u[i] ELSE v[i - Len(u)]
    BY <1>4, <1>6, ConcatProperties
  <2> QED BY <1>4, <1>6, <2>1
<1>9. \A i \in 1 .. r + n : (u \o v)[i] = w[i]
  <2> SUFFICES ASSUME NEW i \in 1 .. r + n PROVE (u \o v)[i] = w[i]
    OBVIOUS
  <2>1. CASE i <= r
    <3>1. i \in 1 .. r /\ i \in 1 .. r + n
      BY <1>1, <1>3, <2>1
    <3> QED BY <1>4, <1>5, <1>8, <2>1, <3>1
  <2>2. CASE ~(i <= r)
    <3>1. i - r \in 1 .. n /\ r + (i - r) = i
      BY <1>1, <1>3, <2>2
    <3> QED BY <1>7, <1>8, <2>2, <3>1
  <2> QED BY <2>1, <2>2
<1>10. u \o v = w
  <2> DEFINE x == u \o v
  <2>1. x \in Seq(B) /\ w \in Seq(B) /\ Len(x) = Len(w) /\ \A i \in 1 .. Len(x) : x[i] = w[i]
    BY <1>5, <1>8, <1>9
  <2> HIDE DEF x
  <2>2. x = w
    BY <2>1, SameList
  <2> QED BY <2>2 DEF x
<1> QED BY <1>10 DEF u, v, w, k, r

-----------------------------------------------------------------------------
(* The collector                                                            *)

Collecting(t, l) == [taken |-> t, lines |-> l, malformed |-> FALSE]
StateAt(n) == Collecting(TakenOf(n), n)

LEMMA TakenStep ==
    ASSUME TypeOK, NEW n \in 1 .. Len(rows)
    PROVE  SubSeq(rows, 1, n) = Append(SubSeq(rows, 1, n - 1), rows[n])
<1>1. PICK R : rows \in Seq(R)
  BY RowsFacts
<1> DEFINE u == SubSeq(rows, 1, n)
           v == SubSeq(rows, 1, n - 1)
           w == Append(v, rows[n])
<1>2. n \in Nat /\ n <= Len(rows) /\ 1 <= n /\ Len(rows) \in Nat
  BY RowsFacts
<1>3. u \in Seq(R) /\ Len(u) = n /\ \A i \in 1 .. n : u[i] = rows[i]
  BY <1>1, <1>2
<1>4. v \in Seq(R) /\ Len(v) = n - 1 /\ \A i \in 1 .. n - 1 : v[i] = rows[i]
  BY <1>1, <1>2
<1>5. rows[n] \in R
  BY <1>1, <1>2
<1> HIDE DEF u, v
<1>6. w \in Seq(R) /\ Len(w) = n /\ \A i \in 1 .. n : w[i] = rows[i]
  BY <1>2, <1>4, <1>5
<1> HIDE DEF w
<1>7. u = w
  BY <1>3, <1>6
<1> QED BY <1>7 DEF u, v, w

LEMMA SameState ==
    ASSUME NEW u, NEW v,
           DOMAIN u = {"taken", "lines", "malformed"}, u = [x \in DOMAIN u |-> u[x]],
           DOMAIN v = {"taken", "lines", "malformed"}, v = [x \in DOMAIN v |-> v[x]],
           u.taken = v.taken, u.lines = v.lines, u.malformed = v.malformed
    PROVE  u = v
<1>1. \A x \in DOMAIN u : u[x] = v[x]
  OBVIOUS
<1> QED BY <1>1, Zenon

\* A whole line, or one whose newline is missing at the end of the response.
LEMMA Consume ==
    ASSUME TypeOK, NEW n \in 0 .. Len(rows)
    PROVE  Consumed(StateAt(n), <<<<n, 0>>, <<n, 1>>>>) = StateAt(n + 1)
<1> DEFINE line == <<<<n, 0>>, <<n, 1>>>>
<1>1. Len(line) = 2 /\ line[1][1] = n /\ Parses(line) /\ (Header(line) <=> n = 0)
      /\ Text(line) = rows[n]
  BY DEF Parses, Header, Text, RowOf
<1> HIDE DEF line
<1>2. n \in Nat /\ n <= Len(rows) /\ Len(rows) \in Nat /\ ExactRowLimit \in Nat
  BY RowsFacts
<1> DEFINE t == TakenOf(n)
           state == Collecting(t, n)
           next == StateAt(n + 1)
           no == FALSE
           v == Consumed(state, line)
<1>3. /\ state.taken = t /\ state.lines = n /\ state.malformed = no
      /\ DOMAIN state = {"taken", "lines", "malformed"} /\ state = [x \in DOMAIN state |-> state[x]]
  <2> HIDE DEF t
  <2> QED BY DEF Collecting
<1>4. /\ next.taken = TakenOf(n + 1) /\ next.lines = n + 1 /\ next.malformed = no
      /\ DOMAIN next = {"taken", "lines", "malformed"} /\ next = [x \in DOMAIN next |-> next[x]]
  BY DEF Collecting, StateAt
<1>n. ~no
  OBVIOUS
<1> HIDE DEF state, next, no
<1>5. CASE CountsRows /\ ~Exact(n + 1)
  <2>1. v = [state EXCEPT !.taken = << >>, !.lines = @ + 1]
    BY <1>n, <1>3, <1>5 DEF Consumed
  <2>2. /\ v.taken = << >> /\ v.lines = n + 1 /\ v.malformed = no
        /\ DOMAIN v = {"taken", "lines", "malformed"} /\ v = [x \in DOMAIN v |-> v[x]]
    <3> HIDE DEF v
    <3> QED BY <1>3, <2>1
  <2>3. TakenOf(n + 1) = << >>
    BY <1>5 DEF TakenOf
  <2> HIDE DEF v
  <2>4. v = next
    <3>1. v.taken = next.taken /\ v.lines = next.lines /\ v.malformed = next.malformed
      BY <1>4, <2>2, <2>3
    <3> QED BY <1>4, <2>2, <3>1, SameState
  <2> QED BY <2>4 DEF v, next, state, t, line, StateAt
<1>6. CASE ~(CountsRows /\ ~Exact(n + 1)) /\ n = 0
  <2>1. v = [state EXCEPT !.lines = 1]
    BY <1>n, <1>1, <1>3, <1>6 DEF Consumed
  <2>2. /\ v.taken = t /\ v.lines = 1 /\ v.malformed = no
        /\ DOMAIN v = {"taken", "lines", "malformed"} /\ v = [x \in DOMAIN v |-> v[x]]
    <3> HIDE DEF v, t
    <3> QED BY <1>3, <2>1
  <2>3. t = << >> /\ TakenOf(n + 1) = << >> /\ n + 1 = 1
    <3>1. PICK R : rows \in Seq(R)
      BY RowsFacts
    <3>2. SubSeq(rows, 1, 0 - 1) = << >> /\ SubSeq(rows, 1, 1 - 1) = << >>
      BY <3>1
    <3> QED BY <1>6, <3>2 DEF TakenOf
  <2> HIDE DEF v
  <2>4. v = next
    <3>1. v.taken = next.taken /\ v.lines = next.lines /\ v.malformed = next.malformed
      BY <1>4, <2>2, <2>3
    <3> QED BY <1>4, <2>2, <3>1, SameState
  <2> QED BY <2>4 DEF v, next, state, t, line, StateAt
<1>7. CASE ~(CountsRows /\ ~Exact(n + 1)) /\ n # 0
  <2>1. v = [state EXCEPT !.taken = Append(@, rows[n]), !.lines = @ + 1]
    BY <1>n, <1>1, <1>3, <1>7 DEF Consumed
  <2>2. /\ v.taken = Append(t, rows[n]) /\ v.lines = n + 1 /\ v.malformed = no
        /\ DOMAIN v = {"taken", "lines", "malformed"} /\ v = [x \in DOMAIN v |-> v[x]]
    <3> HIDE DEF v, t
    <3> QED BY <1>3, <2>1
  <2>3. ~(CountsRows /\ ~Exact(n))
    BY <1>2, <1>7 DEF Exact
  <2>4. t = SubSeq(rows, 1, n - 1) /\ TakenOf(n + 1) = SubSeq(rows, 1, n + 1 - 1)
    BY <1>7, <2>3 DEF TakenOf
  <2>5. TakenOf(n + 1) = Append(t, rows[n])
    <3>1. n \in 1 .. Len(rows) /\ n + 1 - 1 = n
      BY <1>2, <1>7
    <3> QED BY <2>4, <3>1, TakenStep
  <2> HIDE DEF v
  <2>6. v = next
    <3>1. v.taken = next.taken /\ v.lines = next.lines /\ v.malformed = next.malformed
      BY <1>4, <2>2, <2>5
    <3> QED BY <1>4, <2>2, <3>1, SameState
  <2> QED BY <2>6 DEF v, next, state, t, line, StateAt
<1> QED BY <1>5, <1>6, <1>7

\* Wherever reads end, the collector has consumed the lines that are whole.
LEMMA FedBytes ==
    ASSUME TypeOK, NEW k \in Nat, NEW m \in Nat, k + (m \div 3) <= Len(rows) + 1
    PROVE  Fed(Bytes(k, m), StateAt(k)) = StateAt(k + (m \div 3))
<1> DEFINE b == Bytes(k, m)
           g == [i \in 0 .. m |-> StateAt(k + (i \div 3))]
<1>1. Len(b) = m
  BY ByteOf
<1>2. \A i \in 0 .. m : g[i] = StateAt(k + (i \div 3))
  OBVIOUS
<1>3. g[0] = StateAt(k)
  <2>1. 0 \div 3 = 0 /\ k + 0 = k /\ 0 \in 0 .. m
    OBVIOUS
  <2> QED BY <1>2, <2>1
<1>4. ASSUME NEW i \in 1 .. m
      PROVE  g[i] = IF Newline(b[i]) THEN Consumed(g[i - 1], SubSeq(b, LineStart(b, i), i - 1))
                    ELSE g[i - 1]
  <2>1. i \in 0 .. m /\ i - 1 \in 0 .. m /\ i \in Nat /\ i - 1 \in Nat
    OBVIOUS
  <2>2. g[i] = StateAt(k + (i \div 3)) /\ g[i - 1] = StateAt(k + ((i - 1) \div 3))
    BY <1>2, <2>1
  <2>3. Newline(b[i]) <=> i % 3 = 0
    BY EndsOf
  <2> HIDE DEF g
  <2>4. CASE i % 3 = 0
    <3> DEFINE q == (i - 1) \div 3
    <3>1. q \in Nat /\ i = 3 * q + 3 /\ i \div 3 = q + 1 /\ 3 * q + 3 <= m /\ i - 1 = 3 * q + 2
      BY <2>4, DivMod, DivIs
    <3>2. q + 1 <= m \div 3
      BY <3>1
    <3> HIDE DEF q
    <3>3. k + q \in 0 .. Len(rows) /\ k + q + 1 = k + (q + 1)
      <4>1. Len(rows) \in Nat /\ m \div 3 \in Nat
        BY RowsFacts, DivMod
      <4>2. PICK d \in Nat : d = m \div 3
        BY <4>1
      <4>3. q + 1 <= d /\ k + d <= Len(rows) + 1 /\ q \in Nat
        BY <3>1, <3>2, <4>2
      <4> QED BY <4>1, <4>3
    <3>4. SubSeq(b, LineStart(b, i), i - 1) = <<<<k + q, 0>>, <<k + q, 1>>>>
      <4>1. SubSeq(b, LineStart(b, 3 * q + 3), 3 * q + 2) = <<<<k + q, 0>>, <<k + q, 1>>>>
        BY <3>1, LineOf
      <4> HIDE DEF b
      <4> QED BY <3>1, <4>1
    <3>5. Consumed(StateAt(k + q), <<<<k + q, 0>>, <<k + q, 1>>>>) = StateAt(k + q + 1)
      BY <3>3, Consume
    <3>6. g[i - 1] = StateAt(k + q) /\ g[i] = StateAt(k + (q + 1))
      BY <2>2, <3>1 DEF q
    <3> QED BY <2>3, <2>4, <3>3, <3>4, <3>5, <3>6
  <2>5. CASE i % 3 # 0
    <3>1. i \div 3 = (i - 1) \div 3
      BY <2>5
    <3> QED BY <2>2, <2>3, <2>5, <3>1
  <2> QED BY <2>4, <2>5
<1>5. g = [i \in 0 .. m |->
             IF i = 0 THEN StateAt(k)
             ELSE IF Newline(b[i]) THEN Consumed(g[i - 1], SubSeq(b, LineStart(b, i), i - 1))
             ELSE g[i - 1]]
  <2> DEFINE h == [i \in 0 .. m |->
                     IF i = 0 THEN StateAt(k)
                     ELSE IF Newline(b[i])
                          THEN Consumed(g[i - 1], SubSeq(b, LineStart(b, i), i - 1))
                     ELSE g[i - 1]]
  <2>1. g = [i \in 0 .. m |-> g[i]]
    OBVIOUS
  <2> HIDE DEF g
  <2>2. \A i \in 0 .. m : g[i] = h[i]
    BY <1>3, <1>4
  <2>3. g = h
    <3> DEFINE D == 0 .. m
    <3>1. h = [i \in D |-> h[i]]
      OBVIOUS
    <3> HIDE DEF h
    <3> QED BY <2>1, <2>2, <3>1
  <2> QED BY <2>3
<1> HIDE DEF g, b
<1>6. Fed(b, StateAt(k)) = g[m]
  <2>1. \A f : f = [i \in 0 .. Len(b) |->
                      IF i = 0 THEN StateAt(k)
                      ELSE IF Newline(b[i])
                           THEN Consumed(f[i - 1], SubSeq(b, LineStart(b, i), i - 1))
                      ELSE f[i - 1]] => f = g
    <3> SUFFICES ASSUME NEW f,
                        f = [i \in 0 .. Len(b) |->
                               IF i = 0 THEN StateAt(k)
                               ELSE IF Newline(b[i])
                                    THEN Consumed(f[i - 1], SubSeq(b, LineStart(b, i), i - 1))
                               ELSE f[i - 1]]
                 PROVE  f = g
      OBVIOUS
    <3>1. \A i \in 0 .. m :
            f[i] = IF i = 0 THEN StateAt(k)
                   ELSE IF Newline(b[i]) THEN Consumed(f[i - 1], SubSeq(b, LineStart(b, i), i - 1))
                   ELSE f[i - 1]
      BY <1>1
    <3>2. DOMAIN f = 0 .. m /\ f = [i \in DOMAIN f |-> f[i]]
      BY <1>1
    <3> DEFINE T == {i \in 0 .. m : f[i] # g[i]}
    <3>3. T = {}
      <4> SUFFICES ASSUME T # {} PROVE FALSE
        OBVIOUS
      <4>1. PICK i \in T : \A j \in T : i <= j
        <5>1. T \in SUBSET Nat
          OBVIOUS
        <5> HIDE DEF T
        <5> QED BY <5>1, NatMin
      <4>2. i \in 0 .. m /\ f[i] # g[i]
        BY <4>1
      <4>3. i # 0
        BY <1>3, <3>1, <4>2
      <4>4. i - 1 \in 0 .. m /\ ~(i <= i - 1) /\ i \in 1 .. m
        BY <4>2, <4>3
      <4>5. f[i - 1] = g[i - 1]
        BY <4>1, <4>4
      <4>6. f[i] = IF Newline(b[i]) THEN Consumed(f[i - 1], SubSeq(b, LineStart(b, i), i - 1))
                   ELSE f[i - 1]
        BY <3>1, <4>2, <4>3
      <4>7. g[i] = IF Newline(b[i]) THEN Consumed(g[i - 1], SubSeq(b, LineStart(b, i), i - 1))
                   ELSE g[i - 1]
        BY <1>4, <4>4
      <4> QED BY <4>2, <4>5, <4>6, <4>7
    <3>4. \A i \in 0 .. m : f[i] = g[i]
      BY <3>3
    <3>5. DOMAIN g = 0 .. m /\ g = [i \in DOMAIN g |-> g[i]]
      BY DEF g
    <3> QED BY <3>2, <3>4, <3>5
  <2>2. g = [i \in 0 .. Len(b) |->
               IF i = 0 THEN StateAt(k)
               ELSE IF Newline(b[i]) THEN Consumed(g[i - 1], SubSeq(b, LineStart(b, i), i - 1))
               ELSE g[i - 1]]
    BY <1>1, <1>5
  <2>3. Fed(b, StateAt(k)) = g[Len(b)]
    BY <1>1, <2>1, <2>2 DEF Fed
  <2> QED BY <1>1, <2>3
<1>7. m \in 0 .. m
  OBVIOUS
<1> QED BY <1>2, <1>6, <1>7 DEF b

-----------------------------------------------------------------------------
(* Type correctness                                                         *)

\* The case of a run stays.
LEMMA SameCase ==
    ASSUME Next
    PROVE  /\ config' = config /\ rows' = rows /\ transport' = transport /\ terminated' = terminated
           /\ Body' = Body /\ Stages' = Stages
<1>1. config' = config /\ rows' = rows /\ transport' = transport /\ terminated' = terminated
  <2>1. CASE ReadQuery \/ RewriterCollected \/ CircuitCollected \/ EngineStopped \/ EngineReaped \/ Connect \/ Chunk \/ ChunkOfJson \/ ConnectionLost
    BY <2>1 DEF ReadQuery, RewriterCollected, CircuitCollected, EngineStopped, EngineReaped, Connect, Chunk, ChunkOfJson, ConnectionLost, case
  <2>2. CASE Drained \/ FinishJson \/ Finish \/ PersistRows \/ PersistEvidence \/ Check \/ WriteResult \/ WorkerCrash
    BY <2>2 DEF Drained, FinishJson, Finish, PersistRows, PersistEvidence, Check, WriteResult, WorkerCrash, case
  <2>3. CASE EngineWrites \/ EngineEnds \/ Expire \/ OuterTimeout \/ WorkerJudged \/ OfflineJudged \/ PersistNpcsAnswers
    BY <2>3 DEF EngineWrites, EngineEnds, Expire, OuterTimeout, WorkerJudged, OfflineJudged, PersistNpcsAnswers, case
  <2>4. CASE StageStart \/ StageWork \/ StageComplete \/ OfflineFails \/ OfflineCrash \/ OfflineTimeout \/ Idle
    BY <2>4 DEF StageStart, StageWork, StageComplete, OfflineFails, OfflineCrash, OfflineTimeout, Idle, case, vars, OfflineEnds
  <2> QED BY <2>1, <2>2, <2>3, <2>4 DEF Next, WorkerStep, RunnerStep, OfflineStep
<1> QED BY <1>1 DEF Body, Stages, IsCircuit

LEMMA MethodFacts ==
    ASSUME TypeOK
    PROVE  /\ config.method \in {"B", "R", "N", "C-flat", "C-factorised", "C-path"}
           /\ config.stream \in BOOLEAN
BY PipelineAssumption DEF TypeOK

LEMMA StageFacts ==
    ASSUME TypeOK
    PROVE  /\ Stages \in Seq(StageNames) /\ Len(Stages) \in Nat /\ 1 \in 1 .. Len(Stages)
           /\ StageName \in StageNames /\ Stages[Len(Stages)] = "metrics"
           /\ \A k \in 1 .. Len(Stages) : Stages[k] = "metrics" => k = Len(Stages)
           /\ IsCircuit => /\ Len(Stages) = 9 /\ Stages[3] = "answer_record_persist"
                           /\ \A k \in 1 .. 9 : Stages[k] = "answer_record_persist" => k = 3
           /\ config.method = "N" => Len(Stages) = 4 /\ Stages[2] = "raw_provenance"
                                     /\ Stages[3] = "dag_artifact_persist"
           /\ CountsRows => Len(Stages) = 2 /\ Stages[1] = "answers"
<1> DEFINE s == <<"circuit_decode", "answer_index", "answer_record_persist",
                  "reachable_circuit_stats", "probability_load", "pqe_compile", "pqe_wmc",
                  "pqe_artifact_persist", "metrics">>
           n == <<"extract", "raw_provenance", "dag_artifact_persist", "metrics">>
           b == <<"answers", "metrics">>
<1>1. /\ IsCircuit => Stages = s
      /\ config.method = "N" => Stages = n
      /\ CountsRows => Stages = b
      /\ IsCircuit \/ config.method = "N" \/ CountsRows
  BY MethodFacts DEF Stages, IsCircuit, CountsRows
<1>2. /\ s \in Seq(StageNames) /\ Len(s) = 9 /\ s[9] = "metrics" /\ s[3] = "answer_record_persist"
      /\ \A k \in 1 .. 9 : s[k] = "metrics" => k = 9
      /\ \A k \in 1 .. 9 : s[k] = "answer_record_persist" => k = 3
  BY DEF StageNames
<1>3. /\ n \in Seq(StageNames) /\ Len(n) = 4 /\ n[4] = "metrics" /\ n[2] = "raw_provenance"
      /\ n[3] = "dag_artifact_persist"
      /\ \A k \in 1 .. 4 : n[k] = "metrics" => k = 4
  BY DEF StageNames
<1>4. /\ b \in Seq(StageNames) /\ Len(b) = 2 /\ b[2] = "metrics" /\ b[1] = "answers"
      /\ \A k \in 1 .. 2 : b[k] = "metrics" => k = 2
  BY DEF StageNames
<1> HIDE DEF s, n, b
<1>5. /\ IsCircuit => ~CountsRows /\ config.method # "N"
      /\ CountsRows => config.method # "N"
  BY DEF IsCircuit, CountsRows
<1>6. Stages \in Seq(StageNames) /\ Len(Stages) \in Nat /\ 1 \in 1 .. Len(Stages)
  <2>1. Stages = s \/ Stages = n \/ Stages = b
    BY <1>1
  <2>2. \A k \in {2, 4, 9} : k \in Nat /\ 1 \in 1 .. k
    OBVIOUS
  <2>3. Stages \in Seq(StageNames) /\ Len(Stages) \in {2, 4, 9}
    BY <1>2, <1>3, <1>4, <2>1
  <2> QED BY <2>2, <2>3
<1>7. StageName \in StageNames
  BY <1>6 DEF StageName, TypeOK
<1>8. CASE IsCircuit
  BY <1>1, <1>2, <1>5, <1>6, <1>7, <1>8
<1>9. CASE config.method = "N"
  BY <1>1, <1>3, <1>5, <1>6, <1>7, <1>9
<1>10. CASE CountsRows
  BY <1>1, <1>4, <1>5, <1>6, <1>7, <1>10
<1> QED BY <1>1, <1>8, <1>9, <1>10

LEMMA ActiveType ==
    ASSUME NEW j \in Seq(Events)
    PROVE  ActiveStage(j) \in StageNames \cup {"none"}
<1>1. CASE Started(j) = {} \/ Closed(j)
  BY <1>1, ActiveIs
<1>2. CASE ~(Started(j) = {} \/ Closed(j))
  <2>1. Len(j) \in Nat /\ Started(j) \in SUBSET (1 .. Len(j)) /\ Started(j) # {}
    BY <1>2 DEF Started
  <2>2. Max(Started(j)) \in 1 .. Len(j)
    BY <2>1, MaxOfPositions
  <2>3. j[Max(Started(j))] \in Events
    BY <2>2
  <2> QED BY <1>2, <2>3, ActiveIs DEF Events
<1> QED BY <1>1, <1>2

LEMMA EventType ==
    ASSUME TypeOK, NEW kind \in {"start", "complete"}
    PROVE  Append(journal, Event(kind)) \in Seq(Events) /\ Append(journal, Torn) \in Seq(Events)
<1>1. Event(kind) \in Events /\ Torn \in Events
  BY StageFacts DEF Event, Torn, Events
<1> QED BY <1>1 DEF TypeOK

LEMMA TypeKept ==
    ASSUME TypeOK, WorkerInv, Next
    PROVE  TypeOK'
<1>c. /\ config' = config /\ rows' = rows /\ transport' = transport /\ terminated' = terminated
      /\ Body' = Body /\ Stages' = Stages
  BY SameCase
<1> USE DEF AtWork, Status, Failures
<1>1. CASE ReadQuery
  BY <1>c, <1>1 DEF ReadQuery, TypeOK, Raise, aftermath, wire
<1>2. CASE RewriterCollected
  BY <1>c, <1>2 DEF RewriterCollected, TypeOK, Raise, aftermath, wire
<1>3. CASE CircuitCollected
  BY <1>c, <1>3 DEF CircuitCollected, TypeOK, Raise, aftermath, wire, ProtocolStatus, CleanupStatus
<1>4. CASE EngineStopped
  BY <1>c, <1>4 DEF EngineStopped, TypeOK, Raise, aftermath, wire
<1>5. CASE EngineReaped
  BY <1>c, <1>5 DEF EngineReaped, TypeOK, Raise, aftermath, wire
<1>6. CASE Connect
  BY <1>c, <1>6 DEF Connect, TypeOK, Raise, aftermath, wire
<1>7. CASE Chunk
  <2>1. PICK n \in 1 .. Len(Body) - sent : sent' = sent + n
    BY <1>7 DEF Chunk
  <2>2. sent' \in 0 .. Len(Body)
    BY <2>1, BodyIs DEF TypeOK
  <2>3. worker' \in {"drain", "result"} /\ status' \in Status
    BY <1>7 DEF Chunk, Raise, TypeOK
  <2> QED BY <1>c, <1>7, <2>2, <2>3 DEF Chunk, TypeOK, aftermath
<1>8. CASE ChunkOfJson
  <2>1. PICK n \in 1 .. Len(Body) - sent : sent' = sent + n
    BY <1>8 DEF ChunkOfJson
  <2>2. sent' \in 0 .. Len(Body)
    BY <2>1, BodyIs DEF TypeOK
  <2>3. worker' \in {"drain", "result"} /\ status' \in Status
    BY <1>8 DEF ChunkOfJson, Raise, TypeOK
  <2> QED BY <1>c, <1>8, <2>2, <2>3 DEF ChunkOfJson, TypeOK, aftermath
<1>9. CASE ConnectionLost
  BY <1>c, <1>9 DEF ConnectionLost, TypeOK, Raise, aftermath, wire
<1>10. CASE Drained
  BY <1>c, <1>10 DEF Drained, TypeOK, Raise, aftermath, wire
<1>11. CASE FinishJson
  BY <1>c, <1>11 DEF FinishJson, TypeOK, Raise, aftermath, wire
<1>12. CASE Finish
  BY <1>c, <1>12 DEF Finish, TypeOK, Raise, aftermath, wire
<1>13. CASE PersistRows
  BY <1>c, <1>13 DEF PersistRows, TypeOK, Raise, aftermath, wire
<1>14. CASE PersistEvidence
  BY <1>c, <1>14 DEF PersistEvidence, TypeOK, Raise, aftermath, wire
<1>15. CASE Check
  BY <1>c, <1>15 DEF Check, TypeOK, Raise, aftermath, wire
<1>16. CASE WriteResult
  BY <1>c, <1>16 DEF WriteResult, TypeOK, Raise, aftermath, wire
<1>17. CASE WorkerCrash
  BY <1>c, <1>17 DEF WorkerCrash, TypeOK, Raise, aftermath, wire
<1>18. CASE EngineWrites
  BY <1>c, <1>18 DEF EngineWrites, TypeOK, NoReport, aftermath, wire, process
<1>19. CASE EngineEnds
  <2>1. report' \in [exit : {0, 1}, marked : BOOLEAN, mode : {"honoured", "fallback", "other"},
                       events : BOOLEAN, cleanup : BOOLEAN] /\ engine' = "ended"
    BY <1>19 DEF EngineEnds
  <2>2. dirty' \in BOOLEAN
    <3>1. dirty' = FALSE \/ dirty' = dirty
      BY <1>19 DEF EngineEnds
    <3> QED BY <3>1, Zenon DEF TypeOK
  <2> QED BY <1>c, <1>19, <2>1, <2>2 DEF EngineEnds, TypeOK, aftermath, wire
<1>20. CASE Expire
  BY <1>c, <1>20 DEF Expire, TypeOK, NoReport, aftermath, wire, process
<1>21. CASE OuterTimeout
  <2>1. PICK s \in Status : Recorded(s)
    BY <1>21 DEF OuterTimeout, TypeOK, WorkerInv
  <2>2. /\ result' \in [status : Status, recovery : BOOLEAN]
        /\ runner' \in {"endpoint", "offline", "answers", "recorded"} /\ expired' \in BOOLEAN
    <3>1. NeedsRecovery(s) \in BOOLEAN
      BY DEF NeedsRecovery
    <3> QED BY <2>1, <3>1 DEF Recorded
  <2>3. offline' \in [state : {"none", "running", "failed", "crashed", "timeout", "done"},
                     stage : 1 .. Len(Stages), at : {"start", "work", "complete"}]
    BY <2>1 DEF Recorded, TypeOK
  <2> QED BY <1>c, <1>21, <2>2, <2>3 DEF OuterTimeout, TypeOK, aftermath, wire, process
<1>22. CASE WorkerJudged
  <2>1. PICK s \in Status : Recorded(s)
    BY <1>22 DEF WorkerJudged, TypeOK, WorkerInv
  <2>2. /\ result' \in [status : Status, recovery : BOOLEAN]
        /\ runner' \in {"endpoint", "offline", "answers", "recorded"} /\ expired' \in BOOLEAN
    <3>1. NeedsRecovery(s) \in BOOLEAN
      BY DEF NeedsRecovery
    <3> QED BY <2>1, <3>1 DEF Recorded
  <2>3. offline' \in [state : {"none", "running", "failed", "crashed", "timeout", "done"},
                     stage : 1 .. Len(Stages), at : {"start", "work", "complete"}]
    BY <2>1 DEF Recorded, TypeOK
  <2> QED BY <1>c, <1>22, <2>2, <2>3 DEF WorkerJudged, TypeOK, aftermath, wire, process
<1>23. CASE OfflineJudged
  BY <1>c, <1>23, ActiveType DEF OfflineJudged, TypeOK, OfflineStatus, wire, process
<1>24. CASE PersistNpcsAnswers
  BY <1>c, <1>24 DEF PersistNpcsAnswers, TypeOK, wire, process
<1>25. CASE StageStart
  BY <1>c, <1>25, EventType, StageFacts DEF StageStart, TypeOK, wire, process
<1>26. CASE StageWork
  BY <1>c, <1>26, EventType, StageFacts DEF StageWork, TypeOK, wire, process
<1>27. CASE StageComplete
  <2>1. journal' \in Seq(Events)
    BY <1>27, EventType DEF StageComplete, TypeOK
  <2>2. offline' \in [state : {"none", "running", "failed", "crashed", "timeout", "done"},
                     stage : 1 .. Len(Stages), at : {"start", "work", "complete"}]
    <3>1. CASE offline.stage = Len(Stages)
      BY <1>27, <3>1 DEF StageComplete, TypeOK
    <3>2. CASE offline.stage # Len(Stages)
      <4>1. offline.stage + 1 \in 1 .. Len(Stages)
        BY <3>2, StageFacts DEF TypeOK
      <4>2. offline' = [offline EXCEPT !.stage = @ + 1, !.at = "start"]
        BY <1>27, <3>2 DEF StageComplete
      <4> QED BY <4>1, <4>2 DEF TypeOK
    <3> QED BY <3>1, <3>2
  <2> QED BY <1>c, <1>27, <2>1, <2>2 DEF StageComplete, TypeOK, wire, process
<1>28. CASE OfflineFails
  <2>1. PICK state \in {"failed", "crashed", "timeout"} : OfflineEnds(state)
    BY <1>28 DEF OfflineFails
  <2>2. journal' \in Seq(Events)
    <3>1. journal' = journal \/ journal' = Append(journal, Torn)
      BY <2>1 DEF OfflineEnds
    <3> QED BY <3>1, EventType DEF TypeOK
  <2>3. offline' \in [state : {"none", "running", "failed", "crashed", "timeout", "done"},
                     stage : 1 .. Len(Stages), at : {"start", "work", "complete"}]
    BY <2>1 DEF OfflineEnds, TypeOK
  <2> QED BY <1>c, <2>1, <2>2, <2>3 DEF OfflineEnds, TypeOK, wire, process
<1>29. CASE OfflineCrash
  <2>1. PICK state \in {"failed", "crashed", "timeout"} : OfflineEnds(state)
    BY <1>29 DEF OfflineCrash
  <2>2. journal' \in Seq(Events)
    <3>1. journal' = journal \/ journal' = Append(journal, Torn)
      BY <2>1 DEF OfflineEnds
    <3> QED BY <3>1, EventType DEF TypeOK
  <2>3. offline' \in [state : {"none", "running", "failed", "crashed", "timeout", "done"},
                     stage : 1 .. Len(Stages), at : {"start", "work", "complete"}]
    BY <2>1 DEF OfflineEnds, TypeOK
  <2> QED BY <1>c, <2>1, <2>2, <2>3 DEF OfflineEnds, TypeOK, wire, process
<1>30. CASE OfflineTimeout
  <2>1. PICK state \in {"failed", "crashed", "timeout"} : OfflineEnds(state)
    BY <1>30 DEF OfflineTimeout
  <2>2. journal' \in Seq(Events)
    <3>1. journal' = journal \/ journal' = Append(journal, Torn)
      BY <2>1 DEF OfflineEnds
    <3> QED BY <3>1, EventType DEF TypeOK
  <2>3. offline' \in [state : {"none", "running", "failed", "crashed", "timeout", "done"},
                     stage : 1 .. Len(Stages), at : {"start", "work", "complete"}]
    BY <2>1 DEF OfflineEnds, TypeOK
  <2> QED BY <1>c, <2>1, <2>2, <2>3 DEF OfflineEnds, TypeOK, wire, process
<1>31. CASE Idle
  BY <1>c, <1>31 DEF Idle, vars, wire, process, aftermath, TypeOK
<1> QED BY <1>1, <1>2, <1>3, <1>4, <1>5, <1>6, <1>7, <1>8, <1>9, <1>10, <1>11, <1>12, <1>13, <1>14, <1>15, <1>16, <1>17, <1>18, <1>19, <1>20, <1>21, <1>22, <1>23, <1>24, <1>25, <1>26, <1>27, <1>28, <1>29, <1>30, <1>31 DEF Next, WorkerStep, RunnerStep, OfflineStep

-----------------------------------------------------------------------------
(* What a step does to the files                                            *)

Kept(name) == (Has(name)' <=> Has(name)) /\ (Has(name) => files'[name] = files[name])

OfflineFiles == {"offline/answer-records.jsonl", "offline/probabilities.jsonl",
                 "pp/npcs-provenance.jsonl", "pp/npcs-hc-dag.json", "offline/answer-summary.json",
                 "offline/metrics.json"}

LEMMA OthersKept ==
    ASSUME NEW name, NEW content, WithFile(name, content), NEW other, other # name
    PROVE  Kept(other)
BY Written DEF Kept

\* Each file has its writer.
LEMMA FilesKept ==
    ASSUME Next, NEW name
    PROVE  /\ (name = "endpoint-result.json" => ~WriteResult) /\ (name = "circuit.nt" => ~CircuitCollected)
           /\ (name \in {"response/npcs-provenance.jsonl", "response/answer-records.jsonl"} => ~PersistRows)
           /\ (name = "response/evidence.json" => ~PersistEvidence) /\ (name = "raw-response.json" => ~FinishJson)
           /\ (name \in OfflineFiles => ~StageWork) /\ (name = "pp/answer-records.jsonl" => ~PersistNpcsAnswers)
           /\ name \in OfflineFiles \cup {"endpoint-result.json", "circuit.nt", "raw-response.json",
                         "response/npcs-provenance.jsonl", "response/answer-records.jsonl",
                         "response/evidence.json", "pp/answer-records.jsonl"}
           => Kept(name)
<1> SUFFICES ASSUME name \in OfflineFiles \cup {"endpoint-result.json", "circuit.nt", "raw-response.json",
                         "response/npcs-provenance.jsonl", "response/answer-records.jsonl",
                         "response/evidence.json", "pp/answer-records.jsonl"},
                    name = "endpoint-result.json" => ~WriteResult, name = "circuit.nt" => ~CircuitCollected,
                    name \in {"response/npcs-provenance.jsonl", "response/answer-records.jsonl"} => ~PersistRows,
                    name = "response/evidence.json" => ~PersistEvidence,
                    name = "raw-response.json" => ~FinishJson,
                    name \in OfflineFiles => ~StageWork, name = "pp/answer-records.jsonl" => ~PersistNpcsAnswers
             PROVE  Kept(name)
  OBVIOUS
<1>u. UNCHANGED files => Kept(name)
  BY DEF Kept, Has
<1>1. CASE ReadQuery \/ RewriterCollected \/ EngineStopped \/ EngineReaped \/ Connect \/ Chunk \/ ChunkOfJson \/ ConnectionLost \/ Drained \/ Finish \/ Check \/ WorkerCrash
  BY <1>u, <1>1 DEF ReadQuery, RewriterCollected, EngineStopped, EngineReaped, Connect, Chunk, ChunkOfJson, ConnectionLost, Drained, Finish, Check, WorkerCrash
<1>2. CASE EngineWrites \/ EngineEnds \/ Expire \/ OuterTimeout \/ WorkerJudged \/ OfflineJudged
  BY <1>u, <1>2 DEF EngineWrites, EngineEnds, Expire, OuterTimeout, WorkerJudged, OfflineJudged
<1>3. CASE StageStart \/ StageComplete \/ OfflineFails \/ OfflineCrash \/ OfflineTimeout \/ Idle
  BY <1>u, <1>3 DEF StageStart, StageComplete, OfflineFails, OfflineCrash, OfflineTimeout, Idle, vars, OfflineEnds
<1>4. CASE CircuitCollected
  <2>1. UNCHANGED files \/ \E other, content : other # name /\ WithFile(other, content)
    BY <1>4 DEF CircuitCollected, OfflineFiles
  <2> QED BY <1>u, <2>1, OthersKept
<1>5. CASE FinishJson
  <2>1. UNCHANGED files \/ \E other, content : other # name /\ WithFile(other, content)
    BY <1>5 DEF FinishJson, OfflineFiles
  <2> QED BY <1>u, <2>1, OthersKept
<1>6. CASE PersistRows
  <2>1. UNCHANGED files \/ \E other, content : other # name /\ WithFile(other, content)
    BY <1>6 DEF PersistRows, OfflineFiles
  <2> QED BY <1>u, <2>1, OthersKept
<1>7. CASE PersistEvidence
  <2>1. UNCHANGED files \/ \E other, content : other # name /\ WithFile(other, content)
    BY <1>7 DEF PersistEvidence, OfflineFiles
  <2> QED BY <1>u, <2>1, OthersKept
<1>8. CASE WriteResult
  <2>1. UNCHANGED files \/ \E other, content : other # name /\ WithFile(other, content)
    BY <1>8 DEF WriteResult, OfflineFiles
  <2> QED BY <1>u, <2>1, OthersKept
<1>9. CASE PersistNpcsAnswers
  <2>1. UNCHANGED files \/ \E other, content : other # name /\ WithFile(other, content)
    BY <1>9 DEF PersistNpcsAnswers, OfflineFiles
  <2> QED BY <1>u, <2>1, OthersKept
<1>10. CASE StageWork
  <2>1. UNCHANGED files \/ \E other, content : other # name /\ WithFile(other, content)
    BY <1>10 DEF StageWork, StageEffect, OfflineFiles
  <2> QED BY <1>u, <2>1, OthersKept
<1> QED BY <1>1, <1>2, <1>3, <1>4, <1>5, <1>6, <1>7, <1>8, <1>9, <1>10 DEF Next, WorkerStep, RunnerStep, OfflineStep

-----------------------------------------------------------------------------
(* The worker and its engine                                                *)

\* The offline worker, and the rest of the runner's work, come after the worker.
LEMMA AfterTheWorker ==
    ASSUME OfflineStep \/ OfflineJudged \/ PersistNpcsAnswers
    PROVE  worker' = worker /\ engine' = engine /\ dirty' = dirty /\ report' = report
           /\ status' = status /\ result' = result /\ sent' = sent /\ pending' = pending
           /\ taken' = taken /\ lines' = lines /\ config' = config
BY DEF OfflineStep, StageStart, StageWork, StageComplete, OfflineFails, OfflineCrash, OfflineTimeout,
       OfflineEnds, OfflineJudged, PersistNpcsAnswers, process, wire, case

LEMMA WorkerKept ==
    ASSUME TypeOK, WorkerInv, OfflineInv, Next
    PROVE  WorkerInv'
<1>c. config' = config
  BY SameCase
<1>f. ~WriteResult => Kept("endpoint-result.json")
  BY FilesKept DEF OfflineFiles
<1> USE DEF AtWork
<1>1. CASE ReadQuery
  <2>1. ~WriteResult
    BY <1>1 DEF ReadQuery, WriteResult, Raise
  <2> QED BY <1>c, <1>f, <1>1, <2>1 DEF ReadQuery, WorkerInv, Raise, IsCircuit, Kept
<1>2. CASE RewriterCollected
  <2>1. ~WriteResult
    BY <1>2 DEF RewriterCollected, WriteResult, Raise
  <2> QED BY <1>c, <1>f, <1>2, <2>1 DEF RewriterCollected, WorkerInv, Raise, IsCircuit, Kept
<1>3. CASE CircuitCollected
  <2>1. ~WriteResult
    BY <1>3 DEF CircuitCollected, WriteResult, Raise
  <2> QED BY <1>c, <1>f, <1>3, <2>1 DEF CircuitCollected, WorkerInv, Raise, IsCircuit, Kept, ProtocolStatus, CleanupStatus
<1>4. CASE EngineStopped
  <2>1. ~WriteResult
    BY <1>4 DEF EngineStopped, WriteResult, Raise
  <2> QED BY <1>c, <1>f, <1>4, <2>1 DEF EngineStopped, WorkerInv, Raise, IsCircuit, Kept
<1>5. CASE EngineReaped
  <2>1. ~WriteResult
    BY <1>5 DEF EngineReaped, WriteResult, Raise
  <2> QED BY <1>c, <1>f, <1>5, <2>1 DEF EngineReaped, WorkerInv, Raise, IsCircuit, Kept
<1>6. CASE Connect
  <2>1. ~WriteResult
    BY <1>6 DEF Connect, WriteResult, Raise
  <2> QED BY <1>c, <1>f, <1>6, <2>1 DEF Connect, WorkerInv, Raise, IsCircuit, Kept
<1>7. CASE Chunk
  <2>1. ~WriteResult
    BY <1>7 DEF Chunk, WriteResult, Raise
  <2> QED BY <1>c, <1>f, <1>7, <2>1 DEF Chunk, WorkerInv, Raise, IsCircuit, Kept
<1>8. CASE ChunkOfJson
  <2>1. ~WriteResult
    BY <1>8 DEF ChunkOfJson, WriteResult, Raise
  <2> QED BY <1>c, <1>f, <1>8, <2>1 DEF ChunkOfJson, WorkerInv, Raise, IsCircuit, Kept
<1>9. CASE ConnectionLost
  <2>1. ~WriteResult
    BY <1>9 DEF ConnectionLost, WriteResult, Raise
  <2> QED BY <1>c, <1>f, <1>9, <2>1 DEF ConnectionLost, WorkerInv, Raise, IsCircuit, Kept
<1>10. CASE Drained
  <2>1. ~WriteResult
    BY <1>10 DEF Drained, WriteResult, Raise
  <2> QED BY <1>c, <1>f, <1>10, <2>1 DEF Drained, WorkerInv, Raise, IsCircuit, Kept
<1>11. CASE FinishJson
  <2>1. ~WriteResult
    BY <1>11 DEF FinishJson, WriteResult, Raise
  <2> QED BY <1>c, <1>f, <1>11, <2>1 DEF FinishJson, WorkerInv, Raise, IsCircuit, Kept
<1>12. CASE Finish
  <2>1. ~WriteResult
    BY <1>12 DEF Finish, WriteResult, Raise
  <2> QED BY <1>c, <1>f, <1>12, <2>1 DEF Finish, WorkerInv, Raise, IsCircuit, Kept
<1>13. CASE PersistRows
  <2>1. ~WriteResult
    BY <1>13 DEF PersistRows, WriteResult, Raise
  <2> QED BY <1>c, <1>f, <1>13, <2>1 DEF PersistRows, WorkerInv, Raise, IsCircuit, Kept
<1>14. CASE PersistEvidence
  <2>1. ~WriteResult
    BY <1>14 DEF PersistEvidence, WriteResult, Raise
  <2> QED BY <1>c, <1>f, <1>14, <2>1 DEF PersistEvidence, WorkerInv, Raise, IsCircuit, Kept
<1>15. CASE Check
  <2>1. ~WriteResult
    BY <1>15 DEF Check, WriteResult, Raise
  <2> QED BY <1>c, <1>f, <1>15, <2>1 DEF Check, WorkerInv, Raise, IsCircuit, Kept
<1>16. CASE WorkerCrash
  <2>1. ~WriteResult
    BY <1>16 DEF WorkerCrash, WriteResult, Raise
  <2> QED BY <1>c, <1>f, <1>16, <2>1 DEF WorkerCrash, WorkerInv, Raise, IsCircuit, Kept
<1>17. CASE EngineWrites
  BY <1>c, <1>17 DEF EngineWrites, WorkerInv, IsCircuit, Has, process
<1>18. CASE EngineEnds
  BY <1>c, <1>18 DEF EngineEnds, WorkerInv, IsCircuit, Has, process
<1>19. CASE Expire
  BY <1>c, <1>19 DEF Expire, WorkerInv, IsCircuit, Has, process
<1>20. CASE WriteResult
  <2>1. Has("endpoint-result.json")' /\ files'["endpoint-result.json"] = status
    BY <1>20, Written DEF WriteResult, Holds
  <2> QED BY <1>c, <1>20, <2>1 DEF WriteResult, WorkerInv, IsCircuit
<1>21. CASE OuterTimeout
  <2>1. PICK s \in Status : /\ Recorded(s) /\ s # "none" /\ (s = "ok" => status = "ok")
    BY <1>21 DEF OuterTimeout, TypeOK, WorkerInv, Status
  <2>2. /\ result'.status = s /\ (result'.recovery <=> (s # "ok" /\ IsCircuit))
        /\ runner' # "endpoint"
    BY <2>1 DEF Recorded, NeedsRecovery
  <2>3. files' = files /\ status' = status /\ worker' \in {"ended", "killed"}
        /\ (worker = "ended" <=> worker' = "ended")
    BY <1>21 DEF OuterTimeout, process, TypeOK, WorkerInv
  <2> QED BY <1>c, <2>1, <2>2, <2>3 DEF WorkerInv, IsCircuit, Has
<1>22. CASE WorkerJudged
  <2>1. PICK s \in Status : /\ Recorded(s) /\ s # "none" /\ (s = "ok" => status = "ok")
    BY <1>22 DEF WorkerJudged, TypeOK, WorkerInv, Status
  <2>2. /\ result'.status = s /\ (result'.recovery <=> (s # "ok" /\ IsCircuit))
        /\ runner' # "endpoint"
    BY <2>1 DEF Recorded, NeedsRecovery
  <2>3. files' = files /\ status' = status /\ worker' \in {"ended", "killed"}
        /\ (worker = "ended" <=> worker' = "ended")
    BY <1>22 DEF WorkerJudged, process, TypeOK, WorkerInv
  <2> QED BY <1>c, <2>1, <2>2, <2>3 DEF WorkerInv, IsCircuit, Has
<1>23. CASE OfflineStep \/ OfflineJudged \/ PersistNpcsAnswers
  <2>1. /\ worker' = worker /\ status' = status /\ result' = result
        /\ (runner' = "endpoint" <=> runner = "endpoint")
    BY <1>23, AfterTheWorker DEF OfflineStep, StageStart, StageWork, StageComplete, OfflineFails,
       OfflineCrash, OfflineTimeout, OfflineEnds, OfflineJudged, PersistNpcsAnswers
  <2>2. Kept("endpoint-result.json")
    <3>1. runner # "endpoint"
      BY <1>23 DEF OfflineStep, StageStart, StageWork, StageComplete, OfflineFails, OfflineCrash,
         OfflineTimeout, OfflineEnds, OfflineJudged, PersistNpcsAnswers, OfflineInv
    <3> QED BY <1>f, <3>1 DEF WorkerInv, WriteResult
  <2> QED BY <1>c, <2>1, <2>2 DEF WorkerInv, IsCircuit, Kept
<1>24. CASE Idle
  BY <1>24 DEF Idle, vars, process, WorkerInv, IsCircuit, case, Has
<1> QED BY <1>1, <1>2, <1>3, <1>4, <1>5, <1>6, <1>7, <1>8, <1>9, <1>10, <1>11, <1>12, <1>13, <1>14, <1>15, <1>16, <1>17, <1>18, <1>19, <1>20, <1>21, <1>22, <1>23, <1>24 DEF Next, WorkerStep, RunnerStep

LEMMA EngineKept ==
    ASSUME TypeOK, WorkerInv, EngineInv, Next
    PROVE  EngineInv'
<1>c. config' = config
  BY SameCase
<1> USE DEF AtWork, IsCircuit
<1>1. CASE ReadQuery
  BY <1>c, <1>1 DEF ReadQuery, EngineInv, WorkerInv, Raise, process, TypeOK
<1>2. CASE RewriterCollected
  BY <1>c, <1>2 DEF RewriterCollected, EngineInv, WorkerInv, Raise, process
<1>3. CASE CircuitCollected
  BY <1>c, <1>3 DEF CircuitCollected, EngineInv, WorkerInv, Raise, process, ProtocolStatus, CleanupStatus
<1>4. CASE EngineStopped
  BY <1>c, <1>4 DEF EngineStopped, EngineInv, WorkerInv, Raise, process
<1>5. CASE EngineReaped
  BY <1>c, <1>5 DEF EngineReaped, EngineInv, WorkerInv, Raise, process
<1>6. CASE Connect
  BY <1>c, <1>6 DEF Connect, EngineInv, WorkerInv, Raise, process
<1>7. CASE Chunk
  BY <1>c, <1>7 DEF Chunk, EngineInv, WorkerInv, Raise, process
<1>8. CASE ChunkOfJson
  BY <1>c, <1>8 DEF ChunkOfJson, EngineInv, WorkerInv, Raise, process
<1>9. CASE ConnectionLost
  BY <1>c, <1>9 DEF ConnectionLost, EngineInv, WorkerInv, Raise, process
<1>10. CASE Drained
  BY <1>c, <1>10 DEF Drained, EngineInv, WorkerInv, Raise, process
<1>11. CASE FinishJson
  BY <1>c, <1>11 DEF FinishJson, EngineInv, WorkerInv, Raise, process
<1>12. CASE Finish
  BY <1>c, <1>12 DEF Finish, EngineInv, WorkerInv, Raise, process
<1>13. CASE PersistRows
  BY <1>c, <1>13 DEF PersistRows, EngineInv, WorkerInv, Raise, process
<1>14. CASE PersistEvidence
  BY <1>c, <1>14 DEF PersistEvidence, EngineInv, WorkerInv, Raise, process
<1>15. CASE Check
  BY <1>c, <1>15 DEF Check, EngineInv, WorkerInv, Raise, process
<1>16. CASE WorkerCrash
  BY <1>c, <1>16 DEF WorkerCrash, EngineInv, WorkerInv, Raise, process
<1>17. CASE WriteResult
  BY <1>c, <1>17 DEF WriteResult, EngineInv, WorkerInv, Raise, process
<1>18. CASE EngineWrites
  BY <1>c, <1>18 DEF EngineWrites, EngineInv, WorkerInv, Raise, process
<1>19. CASE EngineEnds
  BY <1>c, <1>19 DEF EngineEnds, EngineInv, WorkerInv, Raise, process
<1>20. CASE Expire
  BY <1>c, <1>20 DEF Expire, EngineInv, WorkerInv, Raise, process
<1>21. CASE OuterTimeout
  BY <1>c, <1>21 DEF OuterTimeout, EngineInv, WorkerInv, Raise, process
<1>22. CASE WorkerJudged
  BY <1>c, <1>22 DEF WorkerJudged, EngineInv, WorkerInv, Raise, process
<1>23. CASE OfflineStep \/ OfflineJudged \/ PersistNpcsAnswers
  BY <1>23, AfterTheWorker DEF EngineInv
<1>24. CASE Idle
  BY <1>24 DEF Idle, vars, process, EngineInv, case
<1> QED BY <1>1, <1>2, <1>3, <1>4, <1>5, <1>6, <1>7, <1>8, <1>9, <1>10, <1>11, <1>12, <1>13, <1>14, <1>15, <1>16, <1>17, <1>18, <1>19, <1>20, <1>21, <1>22, <1>23, <1>24 DEF Next, WorkerStep, RunnerStep

-----------------------------------------------------------------------------
(* The offline worker and its journal                                       *)

\* Until the runner has a result the offline worker does not move.
LEMMA BeforeTheOfflineWorker ==
    ASSUME WorkerStep \/ EngineWrites \/ EngineEnds \/ Expire \/ Idle
    PROVE  runner' = runner /\ offline' = offline /\ journal' = journal /\ verdict' = verdict
           /\ result' = result
<1>1. CASE ReadQuery \/ RewriterCollected \/ CircuitCollected \/ EngineStopped \/ EngineReaped
  BY <1>1 DEF ReadQuery, RewriterCollected, CircuitCollected, EngineStopped, EngineReaped, aftermath
<1>2. CASE Connect \/ Chunk \/ ChunkOfJson \/ ConnectionLost \/ Drained \/ FinishJson \/ Finish
  BY <1>2 DEF Connect, Chunk, ChunkOfJson, ConnectionLost, Drained, FinishJson, Finish, aftermath
<1>3. CASE PersistRows \/ PersistEvidence \/ Check \/ WriteResult \/ WorkerCrash
  BY <1>3 DEF PersistRows, PersistEvidence, Check, WriteResult, WorkerCrash, aftermath
<1>4. CASE EngineWrites \/ EngineEnds \/ Expire \/ Idle
  BY <1>4 DEF EngineWrites, EngineEnds, Expire, Idle, vars, aftermath
<1> QED BY <1>1, <1>2, <1>3, <1>4 DEF WorkerStep

\* The runner takes the worker's word, or its own.
LEMMA ResultTaken ==
    ASSUME TypeOK, WorkerInv, OuterTimeout \/ WorkerJudged
    PROVE  /\ runner = "endpoint" /\ runner' \in {"offline", "recorded"}
           /\ (runner' = "offline" <=> result'.status = "ok")
           /\ result'.status \in Status \ {"none"}
           /\ offline' = [offline EXCEPT !.state = IF result'.status = "ok" THEN "running" ELSE "none"]
           /\ journal' = journal /\ verdict' = verdict /\ files' = files
<1>1. PICK s \in Status : Recorded(s) /\ s # "none"
  BY DEF WorkerJudged, OuterTimeout, TypeOK, WorkerInv, Status
<1>2. result'.status = s
  BY <1>1 DEF Recorded
<1> QED BY <1>1, <1>2 DEF Recorded, OuterTimeout, WorkerJudged

LEMMA OfflineKept ==
    ASSUME TypeOK, WorkerInv, OfflineInv, Next
    PROVE  OfflineInv'
<1>c. config' = config /\ Stages' = Stages
  BY SameCase
<1>t. offline \in [state : {"none", "running", "failed", "crashed", "timeout", "done"},
                   stage : 1 .. Len(Stages), at : {"start", "work", "complete"}]
  BY DEF TypeOK
<1>1. CASE WorkerStep \/ EngineWrites \/ EngineEnds \/ Expire \/ Idle
  BY <1>c, <1>1, BeforeTheOfflineWorker DEF OfflineInv
<1>2. CASE OuterTimeout \/ WorkerJudged
  <2>1. /\ runner = "endpoint" /\ runner' \in {"offline", "recorded"}
        /\ result'.status \in Status \ {"none"}
        /\ offline' = [offline EXCEPT !.state = IF result'.status = "ok" THEN "running" ELSE "none"]
        /\ verdict' = verdict
    BY <1>2, ResultTaken
  <2>2. verdict'.status = "none" /\ offline'.state = (IF result'.status = "ok" THEN "running" ELSE "none")
    BY <1>t, <2>1 DEF OfflineInv
  <2> QED BY <1>c, <2>1, <2>2 DEF OfflineInv
<1>3. CASE OfflineJudged
  <2>1. /\ runner = "offline" /\ offline' = offline /\ result' = result
        /\ runner' = (IF OfflineStatus = "ok" /\ config.method = "N" THEN "answers" ELSE "recorded")
        /\ verdict'.status = OfflineStatus
        /\ OfflineStatus = "ok" => verdict'.substage = "none"
        /\ offline.state \in {"timeout", "crashed", "failed", "done"}
    BY <1>3 DEF OfflineJudged
  <2>2. OfflineStatus # "none" /\ (OfflineStatus = "ok" => offline.state = "done")
    BY <2>1 DEF OfflineStatus
  <2> QED BY <1>c, <2>1, <2>2 DEF OfflineInv
<1>4. CASE PersistNpcsAnswers
  <2>1. /\ runner = "answers" /\ runner' = "recorded" /\ offline' = offline /\ result' = result
        /\ verdict' = verdict \/ verdict' = [verdict EXCEPT !.status = "offline-error"]
    BY <1>4 DEF PersistNpcsAnswers
  <2>2. verdict'.status # "none" /\ (verdict'.status = "ok" => verdict' = verdict)
    BY <2>1 DEF OfflineInv, TypeOK
  <2> QED BY <1>c, <2>1, <2>2 DEF OfflineInv
<1>5. CASE OfflineStep
  <2>1. /\ runner' = runner /\ verdict' = verdict /\ result' = result
        /\ offline.state = "running" /\ offline'.state # "none"
        /\ offline'.state = "done" =>
             offline'.stage = Len(Stages) /\ offline'.at = "complete"
    <3>1. CASE StageStart \/ StageWork
      BY <1>t, <3>1 DEF StageStart, StageWork
    <3>2. CASE StageComplete
      BY <1>t, <3>2 DEF StageComplete
    <3>3. CASE OfflineFails \/ OfflineCrash \/ OfflineTimeout
      BY <1>t, <3>3 DEF OfflineFails, OfflineCrash, OfflineTimeout, OfflineEnds
    <3> QED BY <1>5, <3>1, <3>2, <3>3 DEF OfflineStep
  <2>2. runner # "endpoint" /\ verdict.status = "none" /\ verdict.status # "ok"
    <3>1. runner # "endpoint"
      BY <2>1 DEF OfflineInv
    <3>2. verdict.status \in Failures \cup {"none", "ok"}
      BY DEF TypeOK
    <3> QED BY <2>1, <3>1, <3>2 DEF OfflineInv
  <2> QED BY <1>c, <2>1, <2>2 DEF OfflineInv
<1> QED BY <1>1, <1>2, <1>3, <1>4, <1>5 DEF Next, RunnerStep

LEMMA JournalKept ==
    ASSUME TypeOK, WorkerInv, OfflineInv, JournalInv, Next
    PROVE  JournalInv'
<1>c. config' = config /\ Stages' = Stages
  BY SameCase
<1>t. offline \in [state : {"none", "running", "failed", "crashed", "timeout", "done"},
                   stage : 1 .. Len(Stages), at : {"start", "work", "complete"}]
      /\ journal \in Seq(Events)
  BY DEF TypeOK
<1>s. ASSUME journal' = journal, offline'.stage = offline.stage,
             (offline'.at = "start") <=> (offline.at = "start"),
             verdict' = verdict
      PROVE  JournalInv'
  BY <1>c, <1>s DEF JournalInv, Journaled, StageName, IsCircuit
<1>1. CASE WorkerStep \/ EngineWrites \/ EngineEnds \/ Expire \/ Idle
  BY <1>1, <1>s, BeforeTheOfflineWorker
<1>2. CASE OuterTimeout \/ WorkerJudged
  <2>1. /\ offline' = [offline EXCEPT !.state = IF result'.status = "ok" THEN "running" ELSE "none"]
        /\ verdict' = verdict /\ journal' = journal
    BY <1>2, ResultTaken
  <2>2. offline'.stage = offline.stage /\ offline'.at = offline.at
    BY <1>t, <2>1
  <2> QED BY <1>s, <2>1, <2>2
<1>3. CASE OfflineJudged
  <2>1. /\ offline' = offline /\ journal' = journal
        /\ verdict'.status = OfflineStatus
        /\ OfflineStatus # "ok" => verdict'.substage = ActiveStage(journal)
    BY <1>3 DEF OfflineJudged
  <2> QED BY <1>c, <2>1 DEF JournalInv, Journaled, StageName, IsCircuit, Failures
<1>4. CASE PersistNpcsAnswers
  <2>1. /\ offline' = offline /\ journal' = journal
        /\ verdict' = verdict \/ verdict' = [verdict EXCEPT !.status = "offline-error"]
    BY <1>4 DEF PersistNpcsAnswers
  <2>2. verdict'.substage = "none" /\ ActiveStage(journal) = "none"
    <3>1. verdict.substage = "none" /\ offline.state = "done" /\ config.method = "N"
      BY <1>4 DEF PersistNpcsAnswers, OfflineInv
    <3>2. ~Journaled
      BY <3>1 DEF Journaled, IsCircuit
    <3> QED BY <2>1, <3>1, <3>2 DEF JournalInv, TypeOK
  <2> QED BY <1>c, <2>1, <2>2 DEF JournalInv, Journaled, StageName, IsCircuit
<1>5. CASE OfflineStep
  <2>v. verdict' = verdict /\ verdict.status = "none"
    <3>1. verdict' = verdict /\ offline.state = "running"
      BY <1>5 DEF OfflineStep, StageStart, StageWork, StageComplete, OfflineFails, OfflineCrash,
         OfflineTimeout, OfflineEnds
    <3> QED BY <3>1 DEF OfflineInv
  <2>1. CASE StageStart
    <3>1. /\ offline'.stage = offline.stage /\ offline'.at = "work" /\ offline.at = "start"
          /\ journal' = IF Journaled THEN Append(journal, Event("start")) ELSE journal
      BY <1>t, <2>1 DEF StageStart
    <3>2. CASE Journaled
      <4>1. ActiveStage(journal') = StageName
        BY <1>t, <3>1, <3>2, StartedIsActive, StageFacts DEF Event
      <4> QED BY <1>c, <2>v, <3>1, <3>2, <4>1 DEF JournalInv, Journaled, StageName, IsCircuit, Failures
    <3>3. CASE ~Journaled
      BY <1>c, <2>v, <3>1, <3>3 DEF JournalInv, Journaled, StageName, IsCircuit, Failures
    <3> QED BY <3>2, <3>3
  <2>2. CASE StageWork
    BY <1>s, <1>t, <2>2 DEF StageWork
  <2>3. CASE StageComplete
    <3>1. /\ offline.at = "complete"
          /\ journal' = IF Journaled THEN Append(journal, Event("complete")) ELSE journal
      BY <2>3 DEF StageComplete
    <3>2. CASE offline.stage = Len(Stages)
      <4>1. offline'.stage = offline.stage /\ offline'.at = offline.at
        BY <1>t, <2>3, <3>2 DEF StageComplete
      <4>2. ~Journaled
        BY <3>2, StageFacts DEF Journaled, StageName
      <4> QED BY <1>s, <2>v, <3>1, <4>1, <4>2
    <3>3. CASE offline.stage # Len(Stages)
      <4>1. offline'.at = "start"
        BY <1>t, <2>3, <3>3 DEF StageComplete
      <4>2. ActiveStage(journal') = "none"
        <5>1. CASE Journaled
          <6>1. ActiveStage(journal) = StageName
            BY <3>1, <5>1 DEF JournalInv
          <6> QED BY <1>t, <3>1, <5>1, <6>1, CompletedIsNotActive, StageFacts DEF Event
        <5>2. CASE ~Journaled
          BY <3>1, <5>2 DEF JournalInv
        <5> QED BY <5>1, <5>2
      <4>3. ~IsCircuit => journal' = << >>
        BY <3>1 DEF Journaled, JournalInv
      <4> QED BY <1>c, <2>v, <4>1, <4>2, <4>3 DEF JournalInv, IsCircuit, Failures
    <3> QED BY <3>2, <3>3
  <2>4. CASE OfflineFails \/ OfflineCrash \/ OfflineTimeout
    <3>1. /\ offline'.stage = offline.stage /\ offline'.at = offline.at
          /\ journal' = journal \/ (journal' = Append(journal, Torn) /\ IsCircuit)
      BY <1>t, <2>4 DEF OfflineFails, OfflineCrash, OfflineTimeout, OfflineEnds, Journaled
    <3>2. ActiveStage(journal') = ActiveStage(journal)
      BY <1>t, <3>1, TornIsNothing
    <3> QED BY <1>c, <2>v, <3>1, <3>2 DEF JournalInv, Journaled, StageName, IsCircuit
  <2> QED BY <1>5, <2>1, <2>2, <2>3, <2>4 DEF OfflineStep
<1> QED BY <1>1, <1>2, <1>3, <1>4, <1>5 DEF Next, RunnerStep

-----------------------------------------------------------------------------
(* The response                                                             *)

LEMMA StateFields ==
    ASSUME NEW n
    PROVE  StateAt(n).taken = TakenOf(n) /\ StateAt(n).lines = n /\ ~StateAt(n).malformed
<1> DEFINE no == FALSE
           t == TakenOf(n)
           state == Collecting(t, n)
<1>1. state.taken = t /\ state.lines = n /\ state.malformed = no
  <2> HIDE DEF t
  <2> QED BY DEF Collecting
<1> QED BY <1>1 DEF StateAt

LEMMA CollectedIs ==
    ASSUME taken = TakenOf(lines)
    PROVE  Collected = StateAt(lines)
BY DEF Collected, StateAt, Collecting

LEMMA NothingYet ==
    ASSUME TypeOK
    PROVE  TakenOf(0) = << >> /\ \A k : Bytes(k, 0) = << >>
<1>1. PICK R : rows \in Seq(R)
  BY RowsFacts
<1>2. SubSeq(rows, 1, 0 - 1) = << >>
  BY <1>1
<1>3. \A k : Bytes(k, 0) = << >>
  BY DEF Bytes
<1> QED BY <1>2, <1>3 DEF TakenOf

\* One read takes the collector to where the bytes are.
LEMMA ChunkCollects ==
    ASSUME TypeOK, StreamInv, Chunk
    PROVE  /\ sent' \in Nat /\ lines' = sent' \div 3 /\ taken' = TakenOf(lines')
           /\ pending' = Bytes(lines', sent' % 3)
<1>1. PICK n \in 1 .. Len(Body) - sent :
        LET bytes == pending \o SubSeq(Body, sent + 1, sent + n)
            after == Fed(bytes, Collected)
        IN  /\ sent' = sent + n
            /\ pending' = Rest(bytes)
            /\ ~after.malformed => taken' = after.taken /\ lines' = after.lines
  BY DEF Chunk
<1> DEFINE k == sent \div 3
           r == sent % 3
           b == Bytes(k, r + n)
           d == (r + n) \div 3
<1>2. sent \in Nat /\ n \in Nat /\ sent + n <= 3 * Len(rows) + 3 /\ Len(rows) \in Nat
  BY BodyIs, RowsFacts DEF TypeOK
<1>3. k \in Nat /\ r \in 0 .. 2 /\ sent = 3 * k + r
  BY <1>2, DivMod
<1>4. lines = k /\ taken = TakenOf(lines) /\ pending = Bytes(k, r)
  BY DEF Chunk, StreamInv
<1>5. pending \o SubSeq(Body, sent + 1, sent + n) = b
  BY <1>4, NextBytes
<1> HIDE DEF k, r
<1>6. /\ r + n \in Nat /\ d \in Nat /\ (sent + n) \div 3 = k + d
      /\ (sent + n) % 3 = (r + n) % 3 /\ k + d <= Len(rows) + 1
  BY <1>2, <1>3
<1>7. Collected = StateAt(k)
  BY <1>4, CollectedIs
<1>8. Fed(b, Collected) = StateAt(k + d)
  BY <1>3, <1>6, <1>7, FedBytes
<1>9. Rest(b) = Bytes(k + d, (r + n) % 3)
  BY <1>3, <1>6, RestOf
<1> HIDE DEF b, d
<1>10. /\ sent' = sent + n /\ pending' = Rest(b)
       /\ ~Fed(b, Collected).malformed =>
            taken' = Fed(b, Collected).taken /\ lines' = Fed(b, Collected).lines
  BY <1>1, <1>5
<1>11. taken' = TakenOf(k + d) /\ lines' = k + d
  BY <1>8, <1>10, StateFields
<1> QED BY <1>2, <1>6, <1>9, <1>10, <1>11

\* At the end of a response that was not lost, the collector has every line.
LEMMA FinishCollects ==
    ASSUME TypeOK, StreamInv, Finish, transport # "length"
    PROVE  FinalLine = StateAt(Len(rows) + 1) /\ Len(rows) \in Nat
<1> DEFINE N == Len(rows)
<1>1. N \in Nat /\ sent = 3 * N + (IF terminated THEN 3 ELSE 2) /\ terminated \in BOOLEAN
  BY RowsFacts, BodyIs DEF Finish, StreamInv, TypeOK
<1>2. lines = sent \div 3 /\ taken = TakenOf(lines) /\ pending = Bytes(lines, sent % 3)
  BY DEF Finish, StreamInv
<1>3. Collected = StateAt(lines)
  BY <1>2, CollectedIs
<1>4. CASE terminated
  <2>1. sent = 3 * (N + 1) + 0 /\ N + 1 \in Nat
    BY <1>1, <1>4
  <2>2. lines = N + 1 /\ sent % 3 = 0
    BY <1>2, <2>1, DivIs
  <2>3. pending = << >>
    BY <1>2, <2>2, NothingYet
  <2> QED BY <1>1, <1>3, <2>2, <2>3 DEF FinalLine
<1>5. CASE ~terminated
  <2>1. lines = N /\ sent % 3 = 2
    BY <1>1, <1>2, <1>5, DivIs
  <2>2. pending = <<<<N, 0>>, <<N, 1>>>>
    <3> DEFINE u == <<<<N, 0>>, <<N, 1>>>>
    <3>1. /\ pending \in Seq(Nat \X (0 .. 2)) /\ Len(pending) = 2
          /\ \A i \in 1 .. 2 : pending[i] = <<N + ((i - 1) \div 3), (i - 1) % 3>>
      <4>1. pending = Bytes(N, 2) /\ 2 \in Nat
        BY <1>2, <2>1
      <4> QED BY <1>1, <4>1, ByteOf
    <3>2. u \in Seq(Nat \X (0 .. 2)) /\ Len(u) = 2 /\ u[1] = <<N, 0>> /\ u[2] = <<N, 1>>
      BY <1>1
    <3>3. pending[1] = <<N, 0>> /\ pending[2] = <<N, 1>>
      <4>1. /\ 1 \in 1 .. 2 /\ (1 - 1) % 3 = 0 /\ N + ((1 - 1) \div 3) = N
            /\ 2 \in 1 .. 2 /\ (2 - 1) % 3 = 1 /\ N + ((2 - 1) \div 3) = N
        BY <1>1
      <4> QED BY <3>1, <4>1
    <3> HIDE DEF u
    <3>4. \A i \in 1 .. 2 : pending[i] = u[i]
      <4>1. \A i \in 1 .. 2 : i = 1 \/ i = 2
        OBVIOUS
      <4> QED BY <3>2, <3>3, <4>1
    <3>5. pending = u
      BY <3>1, <3>2, <3>4, SameList
    <3> QED BY <3>5 DEF u
  <2>3. pending # << >>
    BY <2>2
  <2>4. FinalLine = Consumed(Collected, pending)
    BY <2>3 DEF FinalLine
  <2> QED BY <1>1, <1>3, <2>1, <2>2, <2>4, Consume
<1> QED BY <1>1, <1>4, <1>5

LEMMA StreamKept ==
    ASSUME TypeOK, WorkerInv, OfflineInv, StreamInv, Next
    PROVE  StreamInv'
<1>c. config' = config /\ rows' = rows /\ transport' = transport /\ Body' = Body
      /\ (Vouched' <=> Vouched) /\ IsCircuit' = IsCircuit
  BY SameCase DEF Vouched, IsCircuit
<1>n. \A n : TakenOf(n)' = TakenOf(n)
  BY <1>c DEF TakenOf, CountsRows, Exact
<1>w. ASSUME wire' = wire,
             worker' = worker \/ worker' \in {"killed", "ended", "result"}
               \/ (worker \in {"rows", "evidence", "check"} /\ worker' \in {"rows", "evidence", "check"})
               \/ (worker \in {"start", "wait", "reap", "request"} /\ worker' \in {"start", "wait", "reap", "request"})
               \/ (worker' \in {"check"} /\ ~Vouched),
             status' = status \/ status' # "ok" \/ worker = "check"
      PROVE  StreamInv'
  <2>1. sent' = sent /\ pending' = pending /\ lines' = lines /\ taken' = taken
    BY <1>w DEF wire
  <2>2. TakenOf(lines)' = TakenOf(lines)
    BY <1>c, <2>1 DEF TakenOf, CountsRows, Exact
  <2>3. Bytes(lines, sent % 3)' = Bytes(lines, sent % 3)
    BY <2>1 DEF Bytes
  <2> QED BY <1>c, <1>w, <2>1, <2>2, <2>3 DEF StreamInv
<1> USE DEF AtWork
<1>1. CASE ReadQuery \/ RewriterCollected \/ EngineStopped \/ EngineReaped
  BY <1>w, <1>1 DEF ReadQuery, RewriterCollected, EngineStopped, EngineReaped, Raise
<1>2. CASE CircuitCollected
  <2>1. wire' = wire /\ ~Vouched /\ (worker' \in {"result", "check"})
        /\ (status' = status \/ status' # "ok")
    BY <1>2 DEF CircuitCollected, Raise, Vouched, ProtocolStatus, CleanupStatus
  <2> QED BY <1>w, <2>1
<1>3. CASE Connect
  <2>1. CASE worker' = "drain"
    <3>1. sent' = 0 /\ pending' = << >> /\ lines' = 0 /\ taken' = << >> /\ status' = status /\ status # "ok"
      BY <1>3, <2>1 DEF Connect, wire, StreamInv, Raise, WorkerInv
    <3>2. lines' = sent' \div 3 /\ taken' = TakenOf(lines)' /\ pending' = Bytes(lines, sent % 3)'
      <4>1. 0 \div 3 = 0 /\ 0 % 3 = 0
        OBVIOUS
      <4>2. TakenOf(lines)' = TakenOf(0)
        BY <1>c, <3>1 DEF TakenOf, CountsRows, Exact
      <4>3. Bytes(lines, sent % 3)' = Bytes(0, 0)
        BY <3>1, <4>1 DEF Bytes
      <4> QED BY <3>1, <4>1, <4>2, <4>3, NothingYet
    <3> QED BY <2>1, <3>1, <3>2 DEF StreamInv
  <2>2. CASE worker' # "drain"
    BY <1>3, <1>w, <2>2 DEF Connect, Raise
  <2> QED BY <2>1, <2>2
<1>4. CASE Chunk
  <2>1. /\ lines' = sent' \div 3 /\ taken' = TakenOf(lines') /\ pending' = Bytes(lines', sent' % 3)
    BY <1>4, ChunkCollects
  <2>2. TakenOf(lines)' = TakenOf(lines') /\ Bytes(lines, sent % 3)' = Bytes(lines', sent' % 3)
    BY <1>c DEF TakenOf, CountsRows, Exact, Bytes
  <2>3. worker' \in {"drain", "result"} /\ status' # "ok"
    BY <1>4 DEF Chunk, Raise, WorkerInv
  <2> QED BY <2>1, <2>2, <2>3 DEF StreamInv
<1>5. CASE ChunkOfJson
  <2>1. worker' \in {"drain", "result"} /\ status' # "ok" /\ ~config.stream
    BY <1>5 DEF ChunkOfJson, Raise, WorkerInv
  <2> QED BY <1>c, <2>1 DEF StreamInv, Vouched
<1>6. CASE ConnectionLost \/ Drained
  <2>1. CASE worker' = "finish"
    <3>1. /\ sent' = sent /\ pending' = pending /\ lines' = lines /\ taken' = taken
          /\ worker = "drain" /\ status' = status /\ status # "ok"
          /\ transport # "length" => sent = Len(Body)
      BY <1>6, <2>1 DEF ConnectionLost, Drained, wire, Raise, WorkerInv
    <3>2. TakenOf(lines)' = TakenOf(lines) /\ Bytes(lines, sent % 3)' = Bytes(lines, sent % 3)
      BY <1>c, <3>1 DEF TakenOf, CountsRows, Exact, Bytes
    <3> QED BY <1>c, <2>1, <3>1, <3>2 DEF StreamInv
  <2>2. CASE worker' # "finish"
    BY <1>6, <1>w, <2>2 DEF ConnectionLost, Drained, Raise
  <2> QED BY <2>1, <2>2
<1>7. CASE FinishJson
  BY <1>7, <1>w DEF FinishJson, Vouched
<1>8. CASE Finish
  <2>1. worker' \in {"rows", "result"} /\ status' # "ok"
    BY <1>8 DEF Finish, Raise, WorkerInv
  <2>2. Vouched /\ worker' = "rows" => lines' = Len(rows) + 1 /\ taken' = TakenOf(lines')
    <3> SUFFICES ASSUME Vouched, worker' = "rows"
                 PROVE  lines' = Len(rows) + 1 /\ taken' = TakenOf(lines')
      OBVIOUS
    <3>1. FinalLine = StateAt(Len(rows) + 1)
      BY <1>8, FinishCollects DEF Vouched
    <3>2. taken' = FinalLine.taken /\ lines' = FinalLine.lines
      BY <1>8 DEF Finish, Raise
    <3> QED BY <3>1, <3>2, StateFields
  <2>3. TakenOf(lines)' = TakenOf(lines')
    BY <1>c DEF TakenOf, CountsRows, Exact
  <2> QED BY <1>c, <2>1, <2>2, <2>3 DEF StreamInv
<1>9. CASE PersistRows \/ PersistEvidence \/ Check
  BY <1>9, <1>w DEF PersistRows, PersistEvidence, Check, Raise
<1>10. CASE WriteResult \/ WorkerCrash
  BY <1>10, <1>w DEF WriteResult, WorkerCrash
<1>11. CASE EngineWrites \/ EngineEnds \/ Expire
  BY <1>11, <1>w DEF EngineWrites, EngineEnds, Expire, process
<1>12. CASE OuterTimeout \/ WorkerJudged
  BY <1>12, <1>w DEF OuterTimeout, WorkerJudged, process
<1>13. CASE OfflineStep \/ OfflineJudged \/ PersistNpcsAnswers
  BY <1>13, <1>w, AfterTheWorker DEF wire
<1>14. CASE Idle
  BY <1>14, <1>w DEF Idle, vars, process
<1> QED BY <1>1, <1>2, <1>3, <1>4, <1>5, <1>6, <1>7, <1>8, <1>9, <1>10, <1>11, <1>12, <1>13, <1>14 DEF Next, WorkerStep, RunnerStep

-----------------------------------------------------------------------------
(* The artifacts of the endpoint phase                                      *)

LEMMA Untouched ==
    ASSUME UNCHANGED files, NEW name
    PROVE  Kept(name)
BY DEF Kept, Has

LEMMA StillHolds ==
    ASSUME NEW name, NEW content, Kept(name), Holds(name, content)
    PROVE  Holds(name, content)'
BY DEF Kept, Holds

RowsDue == Vouched /\ (worker \in {"evidence", "check"} \/ status = "ok")
EvidenceDue == Vouched /\ (worker = "check" \/ status = "ok")
CircuitDue == IsCircuit /\ (worker = "check" \/ status = "ok")

LEMMA ResponseKept ==
    ASSUME TypeOK, WorkerInv, EngineInv, OfflineInv, ResponseInv, Next
    PROVE  ResponseInv'
<1>c. config' = config /\ (Vouched' <=> Vouched) /\ IsCircuit' = IsCircuit
  BY SameCase DEF Vouched, IsCircuit
<1> DEFINE P == "response/npcs-provenance.jsonl"
           A == "response/answer-records.jsonl"
           E == "response/evidence.json"
           C == "circuit.nt"
<1>e. ASSUME lines' = lines PROVE Evidence' = Evidence
  BY <1>c, <1>e DEF Evidence, CountsRows, Exact
<1>r. ASSUME Kept(P), Kept(A), taken' = taken, lines' = lines, RowsDue
      PROVE  /\ Evidence' = "provenance" => Holds(P, taken)'
             /\ Evidence' = "exact" => Holds(A, Multiset(taken))'
  <2>1. Multiset(taken)' = Multiset(taken)
    BY <1>r DEF Multiset
  <2>2. /\ Evidence = "provenance" => Holds(P, taken)
        /\ Evidence = "exact" => Holds(A, Multiset(taken))
    BY <1>r DEF ResponseInv, RowsDue
  <2> QED BY <1>e, <1>r, <2>1, <2>2 DEF Kept, Holds
<1>v. ASSUME Kept(E), lines' = lines, EvidenceDue
      PROVE  Holds(E, [mode |-> Evidence, rows |-> lines - 1])'
  <2>1. Holds(E, [mode |-> Evidence, rows |-> lines - 1])
    BY <1>v DEF ResponseInv, EvidenceDue
  <2> QED BY <1>e, <1>v, <2>1 DEF Kept, Holds
<1>i. ASSUME Kept(C), CircuitDue PROVE Holds(C, "circuit")'
  BY <1>i, StillHolds DEF ResponseInv, CircuitDue
<1>k. ASSUME Kept(P), Kept(A), Kept(E), Kept(C), taken' = taken, lines' = lines,
             RowsDue' => RowsDue, EvidenceDue' => EvidenceDue, CircuitDue' => CircuitDue
      PROVE  ResponseInv'
  <2>1. RowsDue' => /\ Evidence' = "provenance" => Holds(P, taken)'
                    /\ Evidence' = "exact" => Holds(A, Multiset(taken))'
    BY <1>k, <1>r
  <2>2. EvidenceDue' => Holds(E, [mode |-> Evidence, rows |-> lines - 1])'
    BY <1>k, <1>v
  <2>3. CircuitDue' => Holds(C, "circuit")'
    BY <1>k, <1>i
  <2> QED BY <2>1, <2>2, <2>3 DEF ResponseInv, RowsDue, EvidenceDue, CircuitDue
<1>n. ASSUME ~RowsDue', ~EvidenceDue', ~CircuitDue' PROVE ResponseInv'
  BY <1>n DEF ResponseInv, RowsDue, EvidenceDue, CircuitDue
<1>u. ASSUME files' = files PROVE Kept(P) /\ Kept(A) /\ Kept(E) /\ Kept(C)
  BY <1>u, Untouched
<1> USE DEF AtWork
<1>1. CASE ReadQuery \/ RewriterCollected \/ EngineStopped \/ EngineReaped \/ Connect \/ Chunk
           \/ ChunkOfJson \/ ConnectionLost \/ Drained \/ Finish
  <2>1. status' # "ok" /\ worker' \notin {"evidence", "check"}
    <3>1. CASE ReadQuery \/ RewriterCollected \/ EngineStopped \/ EngineReaped \/ Connect
      BY <3>1 DEF ReadQuery, RewriterCollected, EngineStopped, EngineReaped, Connect, Raise, WorkerInv
    <3>2. CASE Chunk \/ ChunkOfJson
      BY <3>2 DEF Chunk, ChunkOfJson, Raise, WorkerInv
    <3>3. CASE ConnectionLost \/ Drained \/ Finish
      BY <3>3 DEF ConnectionLost, Drained, Finish, Raise, WorkerInv
    <3> QED BY <1>1, <3>1, <3>2, <3>3
  <2> QED BY <1>n, <2>1 DEF RowsDue, EvidenceDue, CircuitDue
<1>2. CASE CircuitCollected
  <2>1. status' # "ok" /\ ~Vouched /\ (worker' = "check" => WithFile(C, "circuit"))
    BY <1>2 DEF CircuitCollected, Raise, WorkerInv, Vouched, ProtocolStatus, CleanupStatus
  <2>2. CASE worker' = "check"
    <3>1. Holds(C, "circuit")'
      BY <2>1, <2>2, Written
    <3> QED BY <1>c, <2>1, <3>1 DEF ResponseInv
  <2>3. CASE worker' # "check"
    BY <1>c, <2>1, <2>3 DEF ResponseInv
  <2> QED BY <2>2, <2>3
<1>3. CASE FinishJson
  <2>1. status' # "ok" /\ ~Vouched /\ ~IsCircuit
    BY <1>3, MethodFacts DEF FinishJson, WorkerInv, EngineInv, Vouched
  <2> QED BY <1>c, <2>1 DEF ResponseInv
<1>4. CASE PersistRows
  <2>1. status' # "ok" /\ worker' = "evidence" /\ lines' = lines /\ taken' = taken
    BY <1>4 DEF PersistRows, wire, WorkerInv
  <2>2. Evidence = "provenance" => Holds(P, taken)'
    <3>1. Evidence = "provenance" => WithFile(P, taken)
      BY <1>4 DEF PersistRows
    <3> QED BY <2>1, <3>1, Written DEF Holds
  <2>3. Evidence = "exact" => Holds(A, Multiset(taken))'
    <3> SUFFICES ASSUME Evidence = "exact" PROVE Holds(A, Multiset(taken))'
      OBVIOUS
    <3> DEFINE M == Multiset(taken)
    <3>1. WithFile(A, M)
      BY <1>4 DEF PersistRows
    <3>2. M' = M
      BY <2>1 DEF Multiset
    <3> HIDE DEF M
    <3>3. Has(A)' /\ files'[A] = M
      BY <3>1, Written DEF Holds
    <3>4. Holds(A, M)'
      BY <3>2, <3>3 DEF Holds
    <3> QED BY <3>4 DEF M
  <2> QED BY <1>e, <2>1, <2>2, <2>3 DEF ResponseInv
<1>5. CASE PersistEvidence
  <2>1. /\ status' # "ok" /\ worker = "evidence" /\ worker' = "check" /\ lines' = lines /\ taken' = taken
        /\ WithFile(E, [mode |-> Evidence, rows |-> lines - 1])
    BY <1>5 DEF PersistEvidence, wire, WorkerInv
  <2>2. Kept(P) /\ Kept(A)
    BY <2>1, OthersKept
  <2>3. Vouched => RowsDue
    BY <2>1 DEF RowsDue
  <2>4. Holds(E, [mode |-> Evidence, rows |-> lines - 1])'
    <3> DEFINE M == [mode |-> Evidence, rows |-> lines - 1]
    <3>1. WithFile(E, M)
      BY <2>1
    <3>2. M' = M
      BY <1>e, <2>1
    <3> HIDE DEF M
    <3>3. Has(E)' /\ files'[E] = M
      BY <3>1, Written DEF Holds
    <3>4. Holds(E, M)'
      BY <3>2, <3>3 DEF Holds
    <3> QED BY <3>4 DEF M
  <2>5. ~IsCircuit
    BY <2>1 DEF EngineInv
  <2> QED BY <1>c, <1>r, <2>1, <2>2, <2>3, <2>4, <2>5 DEF ResponseInv
<1>6. CASE Check
  <2>1. files' = files /\ taken' = taken /\ lines' = lines /\ worker = "check"
    BY <1>6 DEF Check, wire
  <2> QED BY <1>c, <1>k, <1>u, <2>1 DEF RowsDue, EvidenceDue, CircuitDue
<1>7. CASE WriteResult
  <2>1. /\ taken' = taken /\ lines' = lines /\ worker' = "ended" /\ status' = status
        /\ WithFile("endpoint-result.json", status)
    BY <1>7 DEF WriteResult, wire
  <2>2. Kept(P) /\ Kept(A) /\ Kept(E) /\ Kept(C)
    BY <2>1, OthersKept
  <2> QED BY <1>c, <1>k, <2>1, <2>2 DEF RowsDue, EvidenceDue, CircuitDue
<1>8. CASE WorkerCrash \/ EngineWrites \/ EngineEnds \/ Expire \/ OuterTimeout \/ WorkerJudged \/ Idle
  <2>1. /\ files' = files /\ taken' = taken /\ lines' = lines /\ status' = status
        /\ worker' = worker \/ worker' \in {"ended", "killed"}
    BY <1>8 DEF WorkerCrash, EngineWrites, EngineEnds, Expire, OuterTimeout, WorkerJudged, Idle, vars,
       wire, process
  <2> QED BY <1>c, <1>k, <1>u, <2>1 DEF RowsDue, EvidenceDue, CircuitDue
<1>9. CASE OfflineStep \/ OfflineJudged \/ PersistNpcsAnswers
  <2>1. taken' = taken /\ lines' = lines /\ status' = status /\ worker' = worker
    BY <1>9, AfterTheWorker
  <2>2. runner # "endpoint"
    BY <1>9 DEF OfflineStep, StageStart, StageWork, StageComplete, OfflineFails, OfflineCrash,
       OfflineTimeout, OfflineEnds, OfflineJudged, PersistNpcsAnswers, OfflineInv
  <2>3. worker \in {"ended", "killed"}
    BY <2>2 DEF WorkerInv
  <2>4. ~CircuitCollected /\ ~PersistRows /\ ~PersistEvidence
    BY <2>3 DEF CircuitCollected, PersistRows, PersistEvidence
  <2>5. Kept(P) /\ Kept(A) /\ Kept(E) /\ Kept(C)
    BY <2>4, FilesKept DEF OfflineFiles
  <2> QED BY <1>c, <1>k, <2>1, <2>5 DEF RowsDue, EvidenceDue, CircuitDue
<1> QED BY <1>1, <1>2, <1>3, <1>4, <1>5, <1>6, <1>7, <1>8, <1>9 DEF Next, WorkerStep, RunnerStep

-----------------------------------------------------------------------------
(* The artifacts of the offline worker                                      *)

LEMMA StageOf ==
    ASSUME TypeOK
    PROVE  /\ IsCircuit => /\ StageName \notin {"answers", "raw_provenance", "dag_artifact_persist"}
                           /\ offline.stage \in 1 .. 9
                           /\ (StageName = "answer_record_persist" <=> offline.stage = 3)
           /\ config.method = "N" => /\ offline.stage \in 1 .. 4
                                     /\ offline.stage = 1 => StageName = "extract"
                                     /\ offline.stage = 2 => StageName = "raw_provenance"
                                     /\ offline.stage = 3 => StageName = "dag_artifact_persist"
                                     /\ offline.stage = 4 => StageName = "metrics"
           /\ CountsRows => /\ offline.stage \in 1 .. 2
                            /\ offline.stage = 1 => StageName = "answers"
                            /\ offline.stage = 2 => StageName = "metrics"
<1> DEFINE k == offline.stage
<1>k. k \in 1 .. Len(Stages)
  BY DEF TypeOK
<1> HIDE DEF k
<1>1. CASE IsCircuit
  <2> DEFINE s == <<"circuit_decode", "answer_index", "answer_record_persist",
                    "reachable_circuit_stats", "probability_load", "pqe_compile", "pqe_wmc",
                    "pqe_artifact_persist", "metrics">>
  <2>1. Stages = s /\ ~CountsRows /\ config.method # "N"
    BY <1>1 DEF Stages, IsCircuit, CountsRows
  <2>2. /\ Len(s) = 9 /\ s[3] = "answer_record_persist"
        /\ \A i \in 1 .. 9 : s[i] = "answer_record_persist" => i = 3
        /\ \A i \in 1 .. 9 : s[i] \notin {"answers", "raw_provenance", "dag_artifact_persist"}
    OBVIOUS
  <2> HIDE DEF s
  <2>3. StageName = s[k]
    BY <2>1 DEF StageName, k
  <2>4. k \in 1 .. 9
    BY <1>k, <2>1, <2>2
  <2> QED BY <2>1, <2>2, <2>3, <2>4 DEF k
<1>2. CASE config.method = "N"
  <2> DEFINE n == <<"extract", "raw_provenance", "dag_artifact_persist", "metrics">>
  <2>1. Stages = n /\ ~CountsRows /\ ~IsCircuit
    BY <1>2 DEF Stages, IsCircuit, CountsRows
  <2>2. /\ Len(n) = 4 /\ n[1] = "extract" /\ n[2] = "raw_provenance"
        /\ n[3] = "dag_artifact_persist" /\ n[4] = "metrics"
    OBVIOUS
  <2> HIDE DEF n
  <2>3. StageName = n[k]
    BY <2>1 DEF StageName, k
  <2> QED BY <1>k, <2>1, <2>2, <2>3 DEF k
<1>3. CASE CountsRows
  <2> DEFINE b == <<"answers", "metrics">>
  <2>1. Stages = b /\ config.method # "N" /\ ~IsCircuit
    BY <1>3 DEF Stages, IsCircuit, CountsRows
  <2>2. Len(b) = 2 /\ b[1] = "answers" /\ b[2] = "metrics"
    OBVIOUS
  <2> HIDE DEF b
  <2>3. StageName = b[k]
    BY <2>1 DEF StageName, k
  <2> QED BY <1>k, <2>1, <2>2, <2>3 DEF k
<1> QED BY <1>1, <1>2, <1>3, MethodFacts DEF IsCircuit, CountsRows

LEMMA AllTaken ==
    ASSUME TypeOK, ~CountsRows \/ Exact(Len(rows) + 1)
    PROVE  TakenOf(Len(rows) + 1) = rows
<1>1. PICK R : rows \in Seq(R)
  BY RowsFacts
<1>2. Len(rows) \in Nat /\ Len(rows) + 1 - 1 = Len(rows)
  BY RowsFacts
<1>3. SubSeq(rows, 1, Len(rows)) = rows
  BY <1>1, <1>2
<1> QED BY <1>2, <1>3 DEF TakenOf

\* The offline worker starts only from a run that was ok, and its files are there.
LEMMA AtWorkOffline ==
    ASSUME TypeOK, WorkerInv, OfflineInv, StreamInv, ResponseInv, offline.state = "running"
    PROVE  /\ IsCircuit => files["circuit.nt"] = "circuit"
           /\ Vouched => /\ lines = Len(rows) + 1 /\ taken = TakenOf(Len(rows) + 1)
                         /\ Evidence = "provenance" => files["response/npcs-provenance.jsonl"] = taken
                         /\ Evidence = "exact" =>
                              files["response/answer-records.jsonl"] = Multiset(taken)
                         /\ files["response/evidence.json"].mode = Evidence
                         /\ files["response/evidence.json"].rows = lines - 1
<1>1. status = "ok"
  BY DEF OfflineInv, WorkerInv
<1>2. IsCircuit => files["circuit.nt"] = "circuit"
  BY <1>1 DEF ResponseInv, Holds
<1>3. ASSUME Vouched
      PROVE  /\ lines = Len(rows) + 1 /\ taken = TakenOf(Len(rows) + 1)
             /\ Evidence = "provenance" => files["response/npcs-provenance.jsonl"] = taken
             /\ Evidence = "exact" => files["response/answer-records.jsonl"] = Multiset(taken)
             /\ files["response/evidence.json"] = [mode |-> Evidence, rows |-> lines - 1]
  BY <1>1, <1>3 DEF StreamInv, ResponseInv, Holds
<1>4. ASSUME NEW m, NEW n, NEW f, f = [mode |-> m, rows |-> n]
      PROVE  f.mode = m /\ f.rows = n
  BY <1>4
<1> QED BY <1>2, <1>3, <1>4

\* What the stage at work writes, when what it reads is whole.
LEMMA StageWrites ==
    ASSUME TypeOK, WorkerInv, OfflineInv, StreamInv, ResponseInv, offline.state = "running", StageEffect
    PROVE  /\ IsCircuit => IF offline.stage = 3 THEN WithFile("offline/answer-records.jsonl", "circuit")
                           ELSE Kept("offline/answer-records.jsonl")
           /\ config.method = "N" /\ Trusted =>
                /\ IF offline.stage = 2 THEN WithFile("pp/npcs-provenance.jsonl", rows)
                   ELSE Kept("pp/npcs-provenance.jsonl")
                /\ IF offline.stage = 3 THEN WithFile("pp/npcs-hc-dag.json", Derivations(rows))
                   ELSE Kept("pp/npcs-hc-dag.json")
           /\ CountsRows /\ offline.stage # 1 =>
                Kept("offline/answer-records.jsonl") /\ Kept("offline/answer-summary.json")
           /\ CountsRows /\ offline.stage = 1 /\ Trusted =>
                IF Summarised
                THEN WithFile("offline/answer-summary.json", Len(rows))
                ELSE WithFile("offline/answer-records.jsonl", Multiset(rows))
<1>a. /\ IsCircuit => files["circuit.nt"] = "circuit"
      /\ Vouched => /\ lines = Len(rows) + 1 /\ taken = TakenOf(Len(rows) + 1)
                    /\ Evidence = "provenance" => files["response/npcs-provenance.jsonl"] = taken
                    /\ Evidence = "exact" =>
                         files["response/answer-records.jsonl"] = Multiset(taken)
                    /\ files["response/evidence.json"].mode = Evidence
                    /\ files["response/evidence.json"].rows = lines - 1
  BY AtWorkOffline
<1>m. /\ IsCircuit => ~CountsRows /\ config.method # "N"
      /\ config.method = "N" => ~CountsRows
      /\ config.stream \in BOOLEAN
  BY MethodFacts DEF IsCircuit, CountsRows
<1>1. CASE IsCircuit
  <2>1. CASE offline.stage = 3
    <3>1. WithFile("offline/answer-records.jsonl", files["circuit.nt"])
      BY <1>1, <2>1, StageOf DEF StageEffect
    <3> QED BY <1>1, <1>a, <1>m, <2>1, <3>1
  <2>2. CASE offline.stage # 3
    <3>1. \/ UNCHANGED files
          \/ WithFile("offline/probabilities.jsonl", files["circuit.nt"])
          \/ WithFile("offline/metrics.json", "ok")
      BY <1>1, <2>2, StageOf DEF StageEffect
    <3>2. Kept("offline/answer-records.jsonl")
      BY <3>1, Untouched, OthersKept
    <3> QED BY <1>1, <1>m, <2>2, <3>2
  <2> QED BY <2>1, <2>2
<1>2. CASE config.method = "N" /\ Trusted
  <2>1. OfflineRows = rows
    <3>1. CASE config.stream
      <4>1. Vouched /\ Evidence = "provenance"
        BY <1>2, <1>m, <3>1 DEF Trusted, Evidence
      <4>2. TakenOf(Len(rows) + 1) = rows
        BY <1>2, <1>m, AllTaken
      <4> QED BY <1>a, <3>1, <4>1, <4>2 DEF OfflineRows
    <3>2. CASE ~config.stream
      BY <3>2 DEF OfflineRows
    <3> QED BY <1>m, <3>1, <3>2
  <2>2. CASE offline.stage = 2
    <3>1. WithFile("pp/npcs-provenance.jsonl", rows)
      BY <1>2, <2>1, <2>2, StageOf DEF StageEffect
    <3>2. Kept("pp/npcs-hc-dag.json")
      BY <3>1, OthersKept
    <3> QED BY <1>2, <1>m, <2>2, <3>1, <3>2
  <2>3. CASE offline.stage = 3
    <3>1. WithFile("pp/npcs-hc-dag.json", Derivations(rows))
      BY <1>2, <2>1, <2>3, StageOf DEF StageEffect
    <3>2. Kept("pp/npcs-provenance.jsonl")
      BY <3>1, OthersKept
    <3> QED BY <1>2, <1>m, <2>3, <3>1, <3>2
  <2>4. CASE offline.stage = 1 \/ offline.stage = 4
    <3>1. UNCHANGED files \/ WithFile("offline/metrics.json", "ok")
      BY <1>2, <2>4, StageOf DEF StageEffect
    <3>2. Kept("pp/npcs-provenance.jsonl") /\ Kept("pp/npcs-hc-dag.json")
      BY <3>1, Untouched, OthersKept
    <3> QED BY <1>2, <1>m, <2>4, <3>2
  <2>5. offline.stage \in 1 .. 4
    BY <1>2, StageOf
  <2> QED BY <2>2, <2>3, <2>4, <2>5
<1>3. CASE CountsRows /\ offline.stage # 1
  <2>1. WithFile("offline/metrics.json", "ok")
    BY <1>3, StageOf DEF StageEffect
  <2>2. Kept("offline/answer-records.jsonl") /\ Kept("offline/answer-summary.json")
    BY <2>1, OthersKept
  <2> QED BY <1>3, <1>m, <2>2
<1>4. CASE CountsRows /\ offline.stage = 1 /\ Trusted
  <2>1. StageName = "answers"
    BY <1>4, StageOf
  <2>2. CASE ~config.stream
    <3>1. WithFile("offline/answer-records.jsonl", Multiset(rows))
      BY <2>1, <2>2 DEF StageEffect
    <3> QED BY <1>4, <1>m, <2>2, <3>1 DEF Summarised
  <2>3. CASE config.stream
    <3>1. Vouched /\ lines = Len(rows) + 1 /\ Len(rows) \in Nat /\ ExactRowLimit \in Nat
      BY <1>4, <1>a, <2>3, RowsFacts DEF Trusted
    <3>2. Evidence = IF Summarised THEN "cardinality" ELSE "exact"
      BY <1>4, <2>3, <3>1 DEF Evidence, Exact, Summarised
    <3>3. CASE Summarised
      <4>1. WithFile("offline/answer-summary.json", Len(rows))
        BY <1>a, <2>1, <2>3, <3>1, <3>2, <3>3 DEF StageEffect
      <4> QED BY <1>4, <1>m, <3>3, <4>1
    <3>4. CASE ~Summarised
      <4>1. Exact(Len(rows) + 1)
        BY <2>3, <3>1, <3>4 DEF Exact, Summarised
      <4>2. taken = rows
        BY <1>a, <3>1, <4>1, AllTaken
      <4>3. WithFile("offline/answer-records.jsonl", Multiset(rows))
        BY <1>a, <2>1, <2>3, <3>1, <3>2, <3>4, <4>2 DEF StageEffect
      <4> QED BY <1>4, <1>m, <3>4, <4>3
    <3> QED BY <3>3, <3>4
  <2> QED BY <1>m, <2>2, <2>3
<1> QED BY <1>1, <1>2, <1>3, <1>4

LEMMA ArtifactKept ==
    ASSUME TypeOK, WorkerInv, OfflineInv, StreamInv, ResponseInv, ArtifactInv, Next
    PROVE  ArtifactInv'
<1> DEFINE O == "offline/answer-records.jsonl"
           S == "offline/answer-summary.json"
           P == "pp/npcs-provenance.jsonl"
           D == "pp/npcs-hc-dag.json"
           K == "pp/answer-records.jsonl"
           Done == runner = "recorded" /\ verdict.status = "ok"
<1>c. /\ config' = config /\ rows' = rows /\ (Trusted' <=> Trusted) /\ (Summarised' <=> Summarised)
      /\ (IsCircuit' <=> IsCircuit) /\ (CountsRows' <=> CountsRows)
      /\ Derivations(rows)' = Derivations(rows) /\ Multiset(rows)' = Multiset(rows)
      /\ Keys(rows)' = Keys(rows) /\ Len(rows)' = Len(rows)
  BY SameCase DEF Trusted, Vouched, Summarised, IsCircuit, CountsRows, Derivations, Multiset, Keys
<1>m. /\ IsCircuit => ~CountsRows /\ config.method # "N"
      /\ config.method = "N" => ~CountsRows
  BY MethodFacts DEF IsCircuit, CountsRows
<1>t. offline.stage \in 1 .. Len(Stages) /\ offline.stage \in Nat /\ offline.stage >= 1
      /\ offline \in [state : {"none", "running", "failed", "crashed", "timeout", "done"},
                      stage : 1 .. Len(Stages), at : {"start", "work", "complete"}]
  BY StageFacts DEF TypeOK
<1>k. ASSUME Kept(O), Kept(S), Kept(P), Kept(D),
             Past(1)' <=> Past(1), Past(2)' <=> Past(2), Past(3)' <=> Past(3),
             Done' /\ config.method = "N" /\ Trusted => Holds(K, Keys(rows))'
      PROVE  ArtifactInv'
  <2>1. IsCircuit /\ Past(3)' => Holds(O, "circuit")'
    BY <1>k DEF ArtifactInv, Kept, Holds
  <2>2. config.method = "N" /\ Trusted =>
          /\ Past(2)' => Holds(P, rows)'
          /\ Past(3)' => Holds(D, Derivations(rows))'
    BY <1>c, <1>k DEF ArtifactInv, Kept, Holds
  <2>3. CountsRows /\ ~Past(1)' => ~Has(O)'
    BY <1>k DEF ArtifactInv, Kept
  <2>4. CountsRows /\ Trusted /\ Past(1)' =>
          /\ Summarised => Holds(S, Len(rows))' /\ ~Has(O)'
          /\ ~Summarised => Holds(O, Multiset(rows))'
    BY <1>c, <1>k DEF ArtifactInv, Kept, Holds
  <2> QED BY <1>c, <1>k, <2>1, <2>2, <2>3, <2>4 DEF ArtifactInv
<1>p. ASSUME offline'.stage = offline.stage, (offline'.at = "complete") <=> (offline.at = "complete")
      PROVE  \A i : Past(i)' <=> Past(i)
  BY <1>p DEF Past
<1>f. ASSUME files' = files PROVE Kept(O) /\ Kept(S) /\ Kept(P) /\ Kept(D) /\ Kept(K)
  BY <1>f, Untouched
<1>d. ASSUME Done' => Done, Kept(K)
      PROVE  Done' /\ config.method = "N" /\ Trusted => Holds(K, Keys(rows))'
  BY <1>c, <1>d DEF ArtifactInv, Kept, Holds
<1>1. CASE WorkerStep \/ EngineWrites \/ EngineEnds \/ Expire \/ Idle
  <2>1. runner' = runner /\ offline' = offline /\ verdict' = verdict
    BY <1>1, BeforeTheOfflineWorker
  <2>2. ~StageWork /\ ~PersistNpcsAnswers
    <3>1. ~PersistNpcsAnswers
      BY <2>1 DEF PersistNpcsAnswers
    <3>2. ~StageWork
      BY <1>t, <2>1 DEF StageWork
    <3> QED BY <3>1, <3>2
  <2>3. Kept(O) /\ Kept(S) /\ Kept(P) /\ Kept(D) /\ Kept(K)
    BY <2>2, FilesKept DEF OfflineFiles
  <2>4. \A i : Past(i)' <=> Past(i)
    BY <1>p, <2>1
  <2> QED BY <1>d, <1>k, <2>1, <2>3, <2>4
<1>2. CASE OuterTimeout \/ WorkerJudged
  <2>1. /\ runner = "endpoint" /\ verdict' = verdict /\ files' = files
        /\ offline' = [offline EXCEPT !.state = IF result'.status = "ok" THEN "running" ELSE "none"]
    BY <1>2, ResultTaken
  <2>2. \A i : Past(i)' <=> Past(i)
    BY <1>p, <1>t, <2>1
  <2>3. ~Done'
    BY <2>1 DEF OfflineInv
  <2> QED BY <1>f, <1>k, <2>1, <2>2, <2>3
<1>3. CASE OfflineJudged
  <2>1. /\ files' = files /\ offline' = offline /\ verdict'.status = OfflineStatus
        /\ (OfflineStatus = "ok" /\ config.method = "N" => runner' = "answers")
    BY <1>3 DEF OfflineJudged
  <2>2. \A i : Past(i)' <=> Past(i)
    BY <1>p, <2>1
  <2> QED BY <1>f, <1>k, <2>1, <2>2
<1>4. CASE PersistNpcsAnswers
  <2>1. runner = "answers" /\ verdict.status = "ok" /\ config.method = "N" /\ offline' = offline
    BY <1>4 DEF PersistNpcsAnswers, OfflineInv
  <2>2. \A i : Past(i)' <=> Past(i)
    BY <1>p, <2>1
  <2>3. ~StageWork
    BY <1>t, <2>1 DEF StageWork
  <2>4. Kept(O) /\ Kept(S) /\ Kept(P) /\ Kept(D)
    BY <2>3, FilesKept DEF OfflineFiles
  <2>5. Done' /\ Trusted => Holds(K, Keys(rows))'
    <3> SUFFICES ASSUME Done', Trusted PROVE Holds(K, Keys(rows))'
      OBVIOUS
    <3>1. offline.state = "done" /\ offline.stage = 4
      BY <2>1, StageFacts DEF OfflineInv
    <3>2. Holds(P, rows)
      BY <2>1, <3>1 DEF ArtifactInv, Past
    <3>3. verdict' # [verdict EXCEPT !.status = "offline-error"]
      BY DEF TypeOK
    <3>4. WithFile(K, Keys(rows))
      BY <1>4, <3>2, <3>3 DEF PersistNpcsAnswers, Holds
    <3> DEFINE M == Keys(rows)
    <3>5. WithFile(K, M) /\ M' = M
      BY <1>c, <3>4
    <3> HIDE DEF M
    <3>6. Has(K)' /\ files'[K] = M
      BY <3>5, Written DEF Holds
    <3>7. Holds(K, M)'
      BY <3>5, <3>6 DEF Holds
    <3> QED BY <3>7 DEF M
  <2> QED BY <1>k, <2>2, <2>4, <2>5
<1>5. CASE OfflineStep
  <2>1. runner' = runner /\ verdict' = verdict /\ offline.state = "running"
    BY <1>5 DEF OfflineStep, StageStart, StageWork, StageComplete, OfflineFails, OfflineCrash,
       OfflineTimeout, OfflineEnds
  <2>2. ~Done /\ ~Done'
    BY <2>1 DEF OfflineInv
  <2>3. CASE StageStart \/ StageComplete \/ OfflineFails \/ OfflineCrash \/ OfflineTimeout
    <3>1. files' = files
      BY <2>3 DEF StageStart, StageComplete, OfflineFails, OfflineCrash, OfflineTimeout, OfflineEnds
    <3>2. \A i \in 1 .. 3 : Past(i)' <=> Past(i)
      <4>1. CASE StageStart \/ OfflineFails \/ OfflineCrash \/ OfflineTimeout
        <5>1. offline'.stage = offline.stage /\ (offline'.at = "complete" <=> offline.at = "complete")
          BY <1>t, <4>1 DEF StageStart, OfflineFails, OfflineCrash, OfflineTimeout, OfflineEnds
        <5> QED BY <1>p, <5>1
      <4>2. CASE StageComplete
        <5>1. \/ offline'.stage = offline.stage /\ offline'.at = offline.at
              \/ offline'.stage = offline.stage + 1 /\ offline'.at = "start" /\ offline.at = "complete"
          BY <1>t, <4>2 DEF StageComplete
        <5> QED BY <1>t, <5>1 DEF Past
      <4> QED BY <2>3, <4>1, <4>2
    <3>3. 1 \in 1 .. 3 /\ 2 \in 1 .. 3 /\ 3 \in 1 .. 3
      OBVIOUS
    <3> QED BY <1>f, <1>k, <2>2, <3>1, <3>2, <3>3
  <2>4. CASE StageWork /\ ~Readable
    <3>1. files' = files /\ offline'.stage = offline.stage /\ offline'.at = offline.at
      BY <1>t, <2>4 DEF StageWork
    <3>2. \A i : Past(i)' <=> Past(i)
      BY <1>p, <3>1
    <3> QED BY <1>f, <1>k, <2>2, <3>1, <3>2
  <2>5. CASE StageWork /\ Readable
    <3>1. StageEffect /\ offline'.stage = offline.stage /\ offline'.at = "complete" /\ offline.at = "work"
      BY <1>t, <2>5 DEF StageWork
    <3>2. \A i \in 1 .. 3 : Past(i)' <=> Past(i) \/ offline.stage = i
      BY <1>t, <3>1 DEF Past
    <3>3. \A i \in 1 .. 3 : offline.stage = i => ~Past(i)
      BY <1>t, <3>1 DEF Past
    <3>w. /\ IsCircuit => IF offline.stage = 3 THEN WithFile(O, "circuit") ELSE Kept(O)
          /\ config.method = "N" /\ Trusted =>
               /\ IF offline.stage = 2 THEN WithFile(P, rows) ELSE Kept(P)
               /\ IF offline.stage = 3 THEN WithFile(D, Derivations(rows)) ELSE Kept(D)
          /\ CountsRows /\ offline.stage # 1 => Kept(O) /\ Kept(S)
          /\ CountsRows /\ offline.stage = 1 /\ Trusted =>
               IF Summarised THEN WithFile(S, Len(rows)) ELSE WithFile(O, Multiset(rows))
      BY <2>1, <3>1, StageWrites
    <3>h. ASSUME NEW name, NEW content, WithFile(name, content)
          PROVE  Has(name)' /\ files'[name] = content
      BY <3>h, Written DEF Holds
    <3>n. 1 \in 1 .. 3 /\ 2 \in 1 .. 3 /\ 3 \in 1 .. 3
      OBVIOUS
    <3>4. IsCircuit /\ Past(3)' => Holds(O, "circuit")'
      BY <3>2, <3>n, <3>w, <3>h DEF ArtifactInv, Kept, Holds
    <3>5. config.method = "N" /\ Trusted /\ Past(2)' => Holds(P, rows)'
      BY <1>c, <3>2, <3>n, <3>w, <3>h DEF ArtifactInv, Kept, Holds
    <3>6. config.method = "N" /\ Trusted /\ Past(3)' => Holds(D, Derivations(rows))'
      <4> DEFINE M == Derivations(rows)
      <4>1. M' = M
        BY <1>c
      <4>2. config.method = "N" /\ Trusted /\ Past(3) => Holds(D, M)
        BY DEF ArtifactInv
      <4>3. config.method = "N" /\ Trusted =>
              IF offline.stage = 3 THEN WithFile(D, M) ELSE Kept(D)
        BY <3>w
      <4> HIDE DEF M
      <4>4. config.method = "N" /\ Trusted /\ Past(3)' => Has(D)' /\ files'[D] = M
        BY <3>2, <3>n, <3>h, <4>2, <4>3 DEF Kept, Holds
      <4>5. config.method = "N" /\ Trusted /\ Past(3)' => Holds(D, M)'
        BY <4>1, <4>4 DEF Holds
      <4> QED BY <4>5 DEF M
    <3>7. CountsRows => Past(1)'
      <4>1. CountsRows => offline.stage \in 1 .. 2
        BY StageOf
      <4> QED BY <1>t, <3>1, <4>1 DEF Past
    <3>8. CountsRows /\ Trusted =>
            /\ Summarised => Holds(S, Len(rows))' /\ ~Has(O)'
            /\ ~Summarised => Holds(O, Multiset(rows))'
      <4> SUFFICES ASSUME CountsRows, Trusted
                   PROVE  /\ Summarised => Holds(S, Len(rows))' /\ ~Has(O)'
                          /\ ~Summarised => Holds(O, Multiset(rows))'
        OBVIOUS
      <4> DEFINE M == Multiset(rows)
                 N == Len(rows)
      <4>1. M' = M /\ N' = N
        BY <1>c
      <4>2. CASE offline.stage # 1
        <5>1. Past(1) /\ Kept(O) /\ Kept(S)
          BY <3>2, <3>7, <3>n, <3>w, <4>2
        <5>2. /\ Summarised => Holds(S, N) /\ ~Has(O)
              /\ ~Summarised => Holds(O, M)
          BY <5>1 DEF ArtifactInv
        <5> HIDE DEF M, N
        <5>3. /\ Summarised => Holds(S, N)' /\ ~Has(O)'
              /\ ~Summarised => Holds(O, M)'
          BY <4>1, <5>1, <5>2 DEF Kept, Holds
        <5> QED BY <5>3 DEF M, N
      <4>3. CASE offline.stage = 1
        <5>1. ~Has(O)
          BY <3>3, <3>n, <4>3 DEF ArtifactInv
        <5>2. IF Summarised THEN WithFile(S, N) ELSE WithFile(O, M)
          BY <3>w, <4>3
        <5> HIDE DEF M, N
        <5>3. Summarised => Holds(S, N)' /\ ~Has(O)'
          <6> SUFFICES ASSUME Summarised PROVE Holds(S, N)' /\ ~Has(O)'
            OBVIOUS
          <6>1. WithFile(S, N)
            BY <5>2
          <6>2. Kept(O)
            BY <6>1, OthersKept
          <6>3. Has(S)' /\ files'[S] = N
            BY <3>h, <6>1
          <6> QED BY <4>1, <5>1, <6>2, <6>3 DEF Kept, Holds
        <5>4. ~Summarised => Holds(O, M)'
          BY <3>h, <4>1, <5>2 DEF Holds
        <5> QED BY <5>3, <5>4 DEF M, N
      <4> QED BY <4>2, <4>3
    <3> QED BY <1>c, <2>2, <3>4, <3>5, <3>6, <3>7, <3>8 DEF ArtifactInv
  <2> QED BY <1>5, <2>3, <2>4, <2>5 DEF OfflineStep
<1> QED BY <1>1, <1>2, <1>3, <1>4, <1>5 DEF Next, RunnerStep

-----------------------------------------------------------------------------
(* The theorems                                                             *)

Inv == TypeOK /\ WorkerInv /\ EngineInv /\ OfflineInv /\ JournalInv /\ StreamInv /\ ResponseInv /\ ArtifactInv

LEMMA InvInit == Init => Inv
<1> SUFFICES ASSUME Init PROVE Inv
  OBVIOUS
<1>1. TypeOK
  <2>1. Len(rows) \in Nat /\ rows \in Responses \cup {<< >>}
    <3>1. CASE rows \in Responses
      BY <3>1, PipelineAssumption
    <3>2. CASE rows = << >>
      BY <3>2
    <3> QED BY <3>1, <3>2 DEF Init
  <2>2. Len(Body) \in Nat
    <3> DEFINE m == 3 * (Len(rows) + 1) - (IF terminated THEN 0 ELSE 1)
    <3>1. m \in Nat
      BY <2>1
    <3>2. Body = [i \in 1 .. m |-> <<(i - 1) \div 3, (i - 1) % 3>>]
      BY DEF Body
    <3> HIDE DEF m
    <3> QED BY <3>1, <3>2
  <2>3. 1 \in 1 .. Len(Stages)
    <3>1. /\ Stages = <<"circuit_decode", "answer_index", "answer_record_persist",
                        "reachable_circuit_stats", "probability_load", "pqe_compile", "pqe_wmc",
                        "pqe_artifact_persist", "metrics">>
          \/ Stages = <<"extract", "raw_provenance", "dag_artifact_persist", "metrics">>
          \/ Stages = <<"answers", "metrics">>
      BY DEF Stages
    <3>2. Len(Stages) \in {2, 4, 9}
      BY <3>1
    <3> QED BY <3>2
  <2>4. /\ sent \in 0 .. Len(Body) /\ journal \in Seq(Events)
        /\ offline \in [state : {"none", "running", "failed", "crashed", "timeout", "done"},
                        stage : 1 .. Len(Stages), at : {"start", "work", "complete"}]
    BY <2>2, <2>3 DEF Init
  <2>5. report \in [exit : {0, 1}, marked : BOOLEAN, mode : {"honoured", "fallback", "other"},
                    events : BOOLEAN, cleanup : BOOLEAN]
    BY DEF Init, NoReport
  <2>6. /\ result \in [status : Status, recovery : BOOLEAN]
        /\ verdict \in [status : Failures \cup {"none", "ok"}, substage : StageNames \cup {"none"}]
    BY DEF Init, Status
  <2> QED BY <2>1, <2>4, <2>5, <2>6 DEF Init, TypeOK, Status, AtWork
<1>2. WorkerInv /\ EngineInv
  BY DEF Init, WorkerInv, EngineInv, Has, AtWork
<1>3. OfflineInv
  BY DEF Init, OfflineInv
<1>4. JournalInv
  BY NothingActive DEF Init, JournalInv, Failures
<1>5. StreamInv /\ ResponseInv
  BY DEF Init, StreamInv, ResponseInv
<1>6. ArtifactInv
  <2>1. ~Past(1) /\ ~Past(2) /\ ~Past(3) /\ runner = "endpoint" /\ ~Has("offline/answer-records.jsonl")
    BY DEF Init, Past, Has
  <2> QED BY <2>1 DEF ArtifactInv
<1> QED BY <1>1, <1>2, <1>3, <1>4, <1>5, <1>6 DEF Inv

LEMMA InvStutters == Inv /\ UNCHANGED vars => Inv'
<1> SUFFICES ASSUME Inv, UNCHANGED vars PROVE Inv'
  OBVIOUS
<1>u. /\ config' = config /\ rows' = rows /\ transport' = transport /\ terminated' = terminated
      /\ runner' = runner /\ expired' = expired /\ worker' = worker /\ engine' = engine
      /\ dirty' = dirty /\ report' = report /\ sent' = sent /\ pending' = pending /\ taken' = taken
      /\ lines' = lines /\ files' = files /\ status' = status /\ result' = result
      /\ offline' = offline /\ journal' = journal /\ verdict' = verdict
  BY DEF vars, case, process, wire, aftermath
<1>1. TypeOK'
  BY <1>u DEF Inv, TypeOK, Body, Stages, IsCircuit
<1>2. WorkerInv' /\ EngineInv' /\ OfflineInv'
  BY <1>u DEF Inv, WorkerInv, EngineInv, OfflineInv, Has, IsCircuit, Stages
<1>3. JournalInv'
  BY <1>u DEF Inv, JournalInv, Journaled, StageName, Stages, IsCircuit
<1>4. StreamInv'
  BY <1>u DEF Inv, StreamInv, TakenOf, CountsRows, Exact, Bytes, Vouched, IsCircuit, Body
<1>5. ResponseInv'
  BY <1>u DEF Inv, ResponseInv, Vouched, IsCircuit, Evidence, CountsRows, Exact, Holds, Has, Multiset
<1>6. ArtifactInv'
  BY <1>u DEF Inv, ArtifactInv, Past, Trusted, Vouched, Summarised, IsCircuit, CountsRows, Holds, Has,
     Derivations, Keys, Multiset
<1> QED BY <1>1, <1>2, <1>3, <1>4, <1>5, <1>6 DEF Inv

\* Of every run: the worker's verdict on itself is the one it wrote and the only one the
\* runner takes from it; an engine that ended well has cleaned up; the collector is where
\* the bytes are; and each artifact holds what the response said.
THEOREM PipelineInvariant == Spec => []Inv
<1>1. Inv /\ Next => Inv'
  BY TypeKept, WorkerKept, EngineKept, OfflineKept, JournalKept, StreamKept, ResponseKept, ArtifactKept
     DEF Inv
<1>2. Inv /\ [Next]_vars => Inv'
  BY <1>1, InvStutters
<1> QED BY <1>2, InvInit, PTL DEF Spec

\* A circuit run that left rows in the store, or a CircuitRun that may still write some, is
\* recorded with recovery_required, whoever was killed and whatever it reported.
THEOREM LeftoversAreCovered == Spec => []LeftoverNeedsRecovery
<1>1. Inv => LeftoverNeedsRecovery
  BY DEF Inv, TypeOK, WorkerInv, EngineInv, LeftoverNeedsRecovery
<1> QED BY <1>1, PipelineInvariant, PTL

\* The stage that _offline_stage_state names for a failed offline worker is the one that was
\* at work, also when the last line of its journal is torn.
THEOREM StageStateHolds == Spec => []StageStateIsTrue
<1>1. Inv => StageStateIsTrue
  BY DEF Inv, JournalInv, StageStateIsTrue, Failures
<1> QED BY <1>1, PipelineInvariant, PTL

\* A run recorded as ok has all rows of the response and no other, wherever the reads of it
\* ended and with or without a last newline, or their number beyond the limit, and NPCS
\* every derivation.
THEOREM OkRunsAreComplete == Spec => []OkRunIsComplete
<1>1. Inv => OkRunIsComplete
  <2> SUFFICES ASSUME Inv, ~(transport = "length" /\ config.stream),
                      runner = "recorded", verdict.status = "ok"
               PROVE  /\ Answers = TrueAnswers
                      /\ config.method = "N" => files["pp/npcs-hc-dag.json"] = Derivations(rows)
    BY DEF OkRunIsComplete, CompleteAnswers
  <2>m. /\ IsCircuit \/ config.method = "N" \/ CountsRows
        /\ IsCircuit => ~CountsRows /\ config.method # "N"
        /\ CountsRows => config.method # "N"
        /\ config.stream \in BOOLEAN
    BY MethodFacts DEF Inv, IsCircuit, CountsRows
  <2>1. offline.stage = Len(Stages) /\ offline.at = "complete"
    BY DEF Inv, OfflineInv
  <2>2. ~IsCircuit => Trusted
    BY <2>m DEF Trusted, Vouched
  <2>3. CASE IsCircuit
    <3>1. Past(3)
      <4>1. Len(Stages) = 9 /\ offline.stage = 9
        BY <2>1, <2>3, StageFacts DEF Inv
      <4> QED BY <4>1 DEF Past
    <3>2. files["offline/answer-records.jsonl"] = "circuit"
      BY <2>3, <3>1 DEF Inv, ArtifactInv, Holds
    <3> QED BY <2>m, <2>3, <3>2 DEF Answers, TrueAnswers
  <2>4. CASE config.method = "N"
    <3>1. Past(3)
      <4>1. Len(Stages) = 4 /\ offline.stage = 4
        BY <2>1, <2>4, StageFacts DEF Inv
      <4> QED BY <4>1 DEF Past
    <3>2. Holds("pp/npcs-hc-dag.json", Derivations(rows)) /\ Holds("pp/answer-records.jsonl", Keys(rows))
      BY <2>m, <2>2, <2>4, <3>1 DEF Inv, ArtifactInv
    <3> QED BY <2>m, <2>4, <3>2 DEF Answers, TrueAnswers, Holds
  <2>5. CASE CountsRows
    <3>1. Past(1) /\ Trusted
      BY <2>1, <2>2, <2>m, <2>5, StageFacts DEF Inv, Past
    <3>2. /\ Summarised => Holds("offline/answer-summary.json", Len(rows))
                           /\ ~Has("offline/answer-records.jsonl")
          /\ ~Summarised => Holds("offline/answer-records.jsonl", Multiset(rows))
      BY <2>5, <3>1 DEF Inv, ArtifactInv
    <3>3. CASE Summarised
      BY <2>m, <2>5, <3>2, <3>3 DEF Answers, TrueAnswers, Holds, Summarised
    <3>4. CASE ~Summarised
      BY <2>m, <2>5, <3>2, <3>4 DEF Answers, TrueAnswers, Holds, Summarised
    <3> QED BY <3>3, <3>4
  <2> QED BY <2>m, <2>3, <2>4, <2>5
<1> QED BY <1>1, PipelineInvariant, PTL

=============================================================================
