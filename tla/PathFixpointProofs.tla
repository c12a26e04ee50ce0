-------------------------- MODULE PathFixpointProofs --------------------------
(***************************************************************************)
(* Theorems about PathFixpoint for every set of nodes, every dataset, every *)
(* path query and every number of concurrent runs: the path circuit is      *)
(* sound, the runs are isolated from one another, and the answers of a      *)
(* finished source are exact in every world.                                *)
(***************************************************************************)
EXTENDS PathFixpoint, FiniteSetTheorems, TLAPS

-----------------------------------------------------------------------------
(* Type correctness                                                         *)

\* A hop leads from a node to a node and multiplies facts of the data.
LEMMA HopType ==
    ASSUME TypeOK, NEW r \in Runs, NEW h \in Hops(r)
    PROVE  /\ h[1] \in Nodes /\ h[2] \in Nodes
           /\ h[3] \in SUBSET data
<1>1. PICK a \in query[r].alternatives :
         h \in {<<c[1][1], c[Len(a)][2], {c[i] : i \in DOMAIN a}>> : c \in Chains(a)}
  BY DEF Hops
<1>2. PICK c \in Chains(a) : h = <<c[1][1], c[Len(a)][2], {c[i] : i \in DOMAIN a}>>
  BY <1>1
<1>3. a \in Seq(Preds) /\ a # << >>
  <2>1. query[r] \in Query
    BY PathAssumption DEF TypeOK
  <2> QED BY <2>1 DEF Query
<1>4. c \in [DOMAIN a -> data]
  BY DEF Chains
<1>5. 1 \in DOMAIN a /\ Len(a) \in DOMAIN a
  BY <1>3
<1>6. data \subseteq Nodes \X Nodes \X Preds
  BY PathAssumption DEF TypeOK, Fact
<1>7. c[1] \in Nodes \X Nodes \X Preds /\ c[Len(a)] \in Nodes \X Nodes \X Preds
  BY <1>4, <1>5, <1>6
<1>8. {c[i] : i \in DOMAIN a} \in SUBSET data
  BY <1>4
<1> QED BY <1>2, <1>7, <1>8

\* A gate that has a lineage is a gate of the run's circuit.
LEMMA LineageType ==
    ASSUME TypeOK, NEW r \in Runs, NEW g, NEW d \in Lineages(r, g)
    PROVE  <<g, d>> \in circuit[r] /\ g \in Gate /\ d \in SUBSET data
<1>1. PICK e \in circuit[r] : e[1] = g /\ e[2] = d
  BY DEF Lineages
<1>2. e \in Gate \X SUBSET data
  BY <1>1 DEF TypeOK
<1> QED BY <1>1, <1>2

\* The parts of a gate.
LEMMA GateParts ==
    ASSUME NEW g \in Gate
    PROVE  g[1][1] \in Int /\ From(g) \in Nodes /\ To(g) \in Nodes
BY DEF Gate, From, To

\* Building a gate.
LEMMA GateBuilt ==
    ASSUME NEW l \in Int, NEW u \in Nodes, NEW v \in Nodes
    PROVE  /\ GateOf(l, u, v) \in Gate
           /\ GateOf(l, u, v)[1][1] = l
           /\ From(GateOf(l, u, v)) = u
           /\ To(GateOf(l, u, v)) = v
BY DEF GateOf, Gate, From, To

\* Base gates come from hops.
LEMMA BaseGatesFrom ==
    ASSUME TypeOK, NEW r \in Runs, NEW B, NEW d \in BaseGates(r, B)
    PROVE  \E h \in Hops(r) : d = <<GateOf(Base, h[1], h[2]), h[3]>>
BY DEF BaseGates

\* Gates of level 0 come from base gates or from a fact that mentions the node.
LEMMA Level0From ==
    ASSUME TypeOK, NEW r \in Runs, NEW d \in Level0(r)
    PROVE  \/ \E g \in Rows(r, Base) : \E e \in Lineages(r, g) :
                 d = <<GateOf(0, From(g), To(g)), e>>
           \/ /\ query[r].star
              /\ \E f \in data, n \in Nodes : Mentions(f, n) /\ d = <<GateOf(0, n, n), {f}>>
<1>1. CASE d \in SeedGates(r)
  BY <1>1 DEF SeedGates
<1>2. CASE query[r].star /\ d \in ZeroLengthGates(r)
  <2>1. data \subseteq Nodes \X Nodes \X Preds
    BY PathAssumption DEF TypeOK, Fact
  <2>2. CASE \E f \in data : d = <<GateOf(0, f[1], f[1]), {f}>>
    <3>1. PICK f \in data : d = <<GateOf(0, f[1], f[1]), {f}>>
      BY <2>2
    <3>2. f[1] \in Nodes /\ Mentions(f, f[1])
      BY <2>1 DEF Mentions
    <3> QED BY <1>2, <3>1, <3>2
  <2>3. CASE \E f \in data : d = <<GateOf(0, f[2], f[2]), {f}>>
    <3>1. PICK f \in data : d = <<GateOf(0, f[2], f[2]), {f}>>
      BY <2>3
    <3>2. f[2] \in Nodes /\ Mentions(f, f[2])
      BY <2>1 DEF Mentions
    <3> QED BY <1>2, <3>1, <3>2
  <2> QED BY <1>2, <2>2, <2>3 DEF ZeroLengthGates
<1> QED BY <1>1, <1>2 DEF Level0

\* Gates of level k+1 compose one of level k with a base gate, or carry it.
LEMMA NextLevelFrom ==
    ASSUME TypeOK, NEW r \in Runs, NEW d \in NextLevel(r)
    PROVE  \/ \E g \in Rows(r, k[r]), b \in Rows(r, Base) :
              \E e \in Lineages(r, g), f \in Lineages(r, b) :
                 /\ To(g) = From(b)
                 /\ d = <<GateOf(k[r] + 1, From(g), To(b)), e \cup f>>
           \/ \E g \in Rows(r, k[r]) : \E e \in Lineages(r, g) :
                 d = <<GateOf(k[r] + 1, From(g), To(g)), e>>
<1>1. CASE d \in Composed(r)
  <2>1. PICK p \in {x \in Rows(r, k[r]) \X Rows(r, Base) : Joins(x[1], x[2])} :
           d \in {<<GateOf(k[r] + 1, From(p[1]), To(p[2])), e \cup f>> :
                     e \in Lineages(r, p[1]), f \in Lineages(r, p[2])}
    BY <1>1 DEF Composed
  <2>2. p[1] \in Rows(r, k[r]) /\ p[2] \in Rows(r, Base) /\ To(p[1]) = From(p[2])
    BY <2>1 DEF Joins
  <2>3. PICK e \in Lineages(r, p[1]), f \in Lineages(r, p[2]) :
           d = <<GateOf(k[r] + 1, From(p[1]), To(p[2])), e \cup f>>
    BY <2>1
  <2> QED BY <2>2, <2>3
<1>2. CASE d \in Carried(r)
  BY <1>2 DEF Carried
<1> QED BY <1>1, <1>2 DEF NextLevel

\* What the CONSTRUCTs emit has the declared types, and the level of its CONSTRUCT.
LEMMA EmissionType ==
    ASSUME TypeOK, NEW r \in Runs
    PROVE  /\ \A B : \A d \in BaseGates(r, B) :
                 d \in Gate \X SUBSET data /\ d[1][1][1] = Base
           /\ \A d \in Level0(r) : d \in Gate \X SUBSET data /\ d[1][1][1] = 0
           /\ \A d \in NextLevel(r) : d \in Gate \X SUBSET data /\ d[1][1][1] = k[r] + 1
<1>1. ASSUME NEW B, NEW d \in BaseGates(r, B)
      PROVE  d \in Gate \X SUBSET data /\ d[1][1][1] = Base
  <2>1. PICK h \in Hops(r) : d = <<GateOf(Base, h[1], h[2]), h[3]>>
    BY BaseGatesFrom
  <2> QED BY <2>1, HopType, GateBuilt DEF Base
<1>2. ASSUME NEW d \in Level0(r)
      PROVE  d \in Gate \X SUBSET data /\ d[1][1][1] = 0
  <2>1. CASE \E g \in Rows(r, Base) : \E e \in Lineages(r, g) :
                d = <<GateOf(0, From(g), To(g)), e>>
    <3>1. PICK g, e : e \in Lineages(r, g) /\ d = <<GateOf(0, From(g), To(g)), e>>
      BY <2>1
    <3>2. From(g) \in Nodes /\ To(g) \in Nodes /\ e \in SUBSET data
      BY <3>1, LineageType, GateParts
    <3> QED BY <3>1, <3>2, GateBuilt
  <2>2. CASE \E f \in data, n \in Nodes : d = <<GateOf(0, n, n), {f}>>
    BY <2>2, GateBuilt
  <2> QED BY <2>1, <2>2, Level0From
<1>3. ASSUME NEW d \in NextLevel(r)
      PROVE  d \in Gate \X SUBSET data /\ d[1][1][1] = k[r] + 1
  <2>1. k[r] + 1 \in Int
    BY DEF TypeOK
  <2>2. CASE \E g, b, e, f :
                 /\ e \in Lineages(r, g) /\ f \in Lineages(r, b)
                 /\ d = <<GateOf(k[r] + 1, From(g), To(b)), e \cup f>>
    <3>1. PICK g, b, e, f :
                 /\ e \in Lineages(r, g) /\ f \in Lineages(r, b)
                 /\ d = <<GateOf(k[r] + 1, From(g), To(b)), e \cup f>>
      BY <2>2
    <3>2. From(g) \in Nodes /\ To(b) \in Nodes /\ e \cup f \in SUBSET data
      BY <3>1, LineageType, GateParts
    <3> QED BY <2>1, <3>1, <3>2, GateBuilt
  <2>3. CASE \E g, e : e \in Lineages(r, g) /\ d = <<GateOf(k[r] + 1, From(g), To(g)), e>>
    <3>1. PICK g, e : e \in Lineages(r, g) /\ d = <<GateOf(k[r] + 1, From(g), To(g)), e>>
      BY <2>3
    <3>2. From(g) \in Nodes /\ To(g) \in Nodes /\ e \in SUBSET data
      BY <3>1, LineageType, GateParts
    <3> QED BY <2>1, <3>1, <3>2, GateBuilt
  <2> QED BY <2>2, <2>3, NextLevelFrom
<1> QED BY <1>1, <1>2, <1>3

\* What RunFeed needs of the gates it is given.
LEMMA RunFeedType ==
    ASSUME TypeOK, NEW r \in Runs, NEW l, NEW new \in SUBSET (Gate \X SUBSET data),
           RunFeed(r, l, new)
    PROVE  /\ circuit' \in [Runs -> SUBSET (Gate \X SUBSET data)]
           /\ reachNodes' \in [Runs -> SUBSET Nodes]
<1>1. \A g \in GatesOf(new) : g \in Gate
  BY DEF GatesOf
<1>2. EndPoints(l, GatesOf(new)) \in SUBSET Nodes
  BY <1>1, GateParts DEF EndPoints
<1> QED BY <1>2 DEF RunFeed, TypeOK

LEMMA TypeInit == Init => TypeOK
<1> SUFFICES ASSUME Init PROVE TypeOK
  OBVIOUS
<1> QED BY DEF Init, TypeOK

\* A source that is bound is a node.
LEMMA StartNodesType == \A r \in Runs : StartNodes(r) \in SUBSET Nodes
BY DEF StartNodes, Bound

LEMMA NewTargetsType ==
    ASSUME TypeOK, NEW r \in Runs, NEW B
    PROVE  NewTargets(r, B) \in SUBSET Nodes
BY HopType DEF NewTargets

\* One step of one run keeps the types.
LEMMA TypeRunStep ==
    ASSUME TypeOK, NEW r \in Runs, RunStep(r)
    PROVE  TypeOK'
<1>1. CASE StartSource(r)
  BY <1>1, StartNodesType DEF StartSource, TypeOK
<1>2. CASE ExpandBatch(r)
  <2>1. PICK B \in SUBSET frontier[r] :
        /\ reach' = [reach EXCEPT ![r] = @ \cup NewTargets(r, B)]
        /\ IF B = frontier[r]
             THEN /\ frontier' = [frontier EXCEPT ![r] = next[r] \cup NewTargets(r, B)]
                  /\ next' = [next EXCEPT ![r] = {}]
             ELSE /\ frontier' = [frontier EXCEPT ![r] = @ \ B]
                  /\ next' = [next EXCEPT ![r] = @ \cup NewTargets(r, B)]
    BY <1>2 DEF ExpandBatch
  <2>2. NewTargets(r, B) \in SUBSET Nodes
    BY NewTargetsType
  <2>3. /\ reach[r] \in SUBSET Nodes /\ next[r] \in SUBSET Nodes
        /\ frontier[r] \in SUBSET Nodes
    BY DEF TypeOK
  <2>4. PICK F \in SUBSET Nodes, N \in SUBSET Nodes :
           /\ frontier' = [frontier EXCEPT ![r] = F]
           /\ next' = [next EXCEPT ![r] = N]
    <3>1. CASE B = frontier[r]
      <4>1. next[r] \cup NewTargets(r, B) \in SUBSET Nodes /\ {} \in SUBSET Nodes
        BY <2>2, <2>3
      <4> QED BY <2>1, <3>1, <4>1
    <3>2. CASE B # frontier[r]
      <4>1. /\ frontier[r] \ B \in SUBSET Nodes
            /\ next[r] \cup NewTargets(r, B) \in SUBSET Nodes
        BY <2>2, <2>3
      <4> QED BY <2>1, <3>2, <4>1
    <3> QED BY <3>1, <3>2
  <2>5. /\ reach' \in [Runs -> SUBSET Nodes]
        /\ frontier' \in [Runs -> SUBSET Nodes]
        /\ next' \in [Runs -> SUBSET Nodes]
    BY <2>1, <2>2, <2>3, <2>4 DEF TypeOK
  <2> QED BY <1>2, <2>5 DEF ExpandBatch, rounds, TypeOK
<1>3. CASE SearchDone(r)
  BY <1>3 DEF SearchDone, rounds, TypeOK
<1>4. CASE BaseBatch(r)
  <2>1. PICK B \in SUBSET pending[r] :
        /\ RunFeed(r, Base, BaseGates(r, B))
        /\ pending' = [pending EXCEPT ![r] = @ \ B]
        /\ phase' = [phase EXCEPT ![r] = IF pending[r] = B THEN "seed" ELSE "base"]
    BY <1>4 DEF BaseBatch
  <2>2. BaseGates(r, B) \in SUBSET (Gate \X SUBSET data)
    BY EmissionType
  <2>3. /\ circuit' \in [Runs -> SUBSET (Gate \X SUBSET data)]
        /\ reachNodes' \in [Runs -> SUBSET Nodes]
    BY <2>1, <2>2, RunFeedType
  <2>4. pending' \in [Runs -> SUBSET Nodes]
    BY <2>1 DEF TypeOK
  <2> QED BY <1>4, <2>1, <2>3, <2>4 DEF BaseBatch, TypeOK
<1>5. CASE Seed(r)
  <2>1. Level0(r) \in SUBSET (Gate \X SUBSET data)
    BY EmissionType
  <2>2. /\ circuit' \in [Runs -> SUBSET (Gate \X SUBSET data)]
        /\ reachNodes' \in [Runs -> SUBSET Nodes]
    BY <1>5, <2>1, RunFeedType DEF Seed
  <2> QED BY <1>5, <2>2 DEF Seed, search, TypeOK
<1>6. CASE RoundStep(r)
  <2>1. NextLevel(r) \in SUBSET (Gate \X SUBSET data)
    BY EmissionType
  <2>2. /\ circuit' \in [Runs -> SUBSET (Gate \X SUBSET data)]
        /\ reachNodes' \in [Runs -> SUBSET Nodes]
    BY <1>6, <2>1, RunFeedType DEF RoundStep
  <2>3. k' \in [Runs -> Nat] /\ lastLevel' \in [Runs -> Nat]
    BY <1>6 DEF RoundStep, TypeOK
  <2> QED BY <1>6, <2>2, <2>3 DEF RoundStep, search, TypeOK
<1>7. CASE RoundsOver(r)
  BY <1>7 DEF RoundsOver, search, rounds, TypeOK
<1>8. CASE Finish(r)
  <2>1. ASSUME NEW g \in FinalGates(r), NEW d \in Lineages(r, g)
        PROVE  <<From(g), To(g), d>> \in Nodes \X Nodes \X SUBSET data
    BY LineageType, GateParts
  <2>2. answers' \in [Runs -> SUBSET (Nodes \X Nodes \X SUBSET data)]
    BY <1>8, <2>1 DEF Finish, TypeOK
  <2> QED BY <1>8, <2>2 DEF Finish, search, rounds, TypeOK
<1>9. CASE SourcesDone(r)
  BY <1>9 DEF SourcesDone, search, rounds, TypeOK
<1> QED BY <1>1, <1>2, <1>3, <1>4, <1>5, <1>6, <1>7, <1>8, <1>9 DEF RunStep

LEMMA TypeStep == TypeOK /\ [Next]_vars => TypeOK'
<1> SUFFICES ASSUME TypeOK, [Next]_vars PROVE TypeOK'
  OBVIOUS
<1>1. ASSUME NEW r \in Runs, RunStep(r) PROVE TypeOK'
  BY <1>1, TypeRunStep
<1>2. ASSUME NEW r \in Runs, Fail(r) PROVE TypeOK'
  BY <1>2 DEF Fail, search, rounds, TypeOK
<1>3. CASE UNCHANGED vars
  BY <1>3 DEF vars, search, rounds, TypeOK
<1> QED BY <1>1, <1>2, <1>3 DEF Next, Terminated

\* Every behaviour, on every dataset, stays within the declared types: the search
\* only finds nodes, and every lineage is a set of facts of the data.
THEOREM PathTypeCorrect == Spec => []TypeOK
BY TypeInit, TypeStep, PTL DEF Spec

-----------------------------------------------------------------------------
(* Walks: what Connects and Holds say of one hop and of one more hop        *)

LEMMA OneHop ==
    ASSUME NEW r \in Runs, NEW h \in Hops(r)
    PROVE  Connects(r, h[3], h[1], h[2])
BY DEF Connects

LEMMA OneMoreHop ==
    ASSUME NEW r \in Runs, NEW D, NEW u, NEW h \in Hops(r), Holds(r, D, u, h[1])
    PROVE  Connects(r, D \cup h[3], u, h[2])
<1> SUFFICES ASSUME NEW C \in SUBSET Nodes,
                    \A x \in Hops(r) : x[3] \subseteq D \cup h[3] /\ (x[1] = u \/ x[1] \in C)
                                          => x[2] \in C
             PROVE  h[2] \in C
  BY DEF Connects
<1>1. h[1] = u \/ h[1] \in C
  <2>1. CASE Connects(r, D, u, h[1])
    <3>1. \A x \in Hops(r) : x[3] \subseteq D /\ (x[1] = u \/ x[1] \in C) => x[2] \in C
      OBVIOUS
    <3> QED BY <2>1, <3>1 DEF Connects
  <2>2. CASE u = h[1]
    BY <2>2
  <2> QED BY <2>1, <2>2 DEF Holds
<1> QED BY <1>1

\* The data and the queries never change, and so neither does what a path means.
LEMMA MeaningFrame ==
    ASSUME [Next]_vars
    PROVE  /\ data' = data /\ query' = query
           /\ \A r \in Runs : Hops(r)' = Hops(r)
           /\ \A r \in Runs : \A W, u, v : Holds(r, W, u, v)' = Holds(r, W, u, v)
<1>1. data' = data /\ query' = query
  <2>1. ASSUME NEW r \in Runs, RunStep(r) PROVE data' = data /\ query' = query
    BY <2>1 DEF RunStep, StartSource, ExpandBatch, SearchDone, BaseBatch, Seed, RoundStep,
                RoundsOver, Finish, SourcesDone
  <2>2. ASSUME NEW r \in Runs, Fail(r) PROVE data' = data /\ query' = query
    BY <2>2 DEF Fail
  <2> QED BY <2>1, <2>2 DEF Next, Terminated, vars
<1>2. \A r \in Runs : Hops(r)' = Hops(r)
  BY <1>1 DEF Hops, Chains
<1>3. \A r \in Runs : \A W, u, v : Connects(r, W, u, v)' = Connects(r, W, u, v)
  BY <1>2 DEF Connects
<1>4. \A r \in Runs : \A W, u, v : Holds(r, W, u, v)' = Holds(r, W, u, v)
  BY <1>1, <1>3 DEF Holds
<1> QED BY <1>1, <1>2, <1>4

-----------------------------------------------------------------------------
(* The inductive invariant                                                  *)

\* A gate of the base relation is one hop; a level gate is a walk.
Justified(r, d) ==
    IF d[1][1][1] = Base
    THEN \E h \in Hops(r) : From(d[1]) = h[1] /\ To(d[1]) = h[2] /\ d[2] = h[3]
    ELSE Holds(r, d[2], From(d[1]), To(d[1]))

CircuitJustified == \A r \in Runs : \A d \in circuit[r] : Justified(r, d)

\* A row under the key of a run is a gate of the key's level, and of the circuit
\* of that run while the run has one.
RowsKnown ==
    \A r \in Runs : \A x \in store : x[1][1] = r =>
        /\ x[2][1][1] = x[1][4]
        /\ phase[r] # "failed" => \E d \in circuit[r] : d[1] = x[2]

PathInv == CircuitJustified /\ AnswersSound /\ RowsKnown

LEMMA PathInvInit == Init => PathInv
BY DEF Init, PathInv, CircuitJustified, AnswersSound, RowsKnown

\* The gate of a row that a run matches has the level of the key.
LEMMA RowFacts ==
    ASSUME RowsKnown, NEW r \in Runs, NEW l, NEW g \in Rows(r, l)
    PROVE  /\ g[1][1] = l
           /\ phase[r] # "failed" => Lineages(r, g) # {}
<1>1. PICK x \in store : x[1] = Key(r, l) /\ x[2] = g
  BY DEF Rows
<1>2. x[1][1] = r /\ x[1][4] = l
  BY <1>1 DEF Key
<1> QED BY <1>1, <1>2 DEF RowsKnown, Lineages

\* What a run derives from justified gates is justified.
LEMMA EmissionJustified ==
    ASSUME TypeOK, PathInv, NEW r \in Runs
    PROVE  /\ \A B : \A d \in BaseGates(r, B) : Justified(r, d)
           /\ \A d \in Level0(r) : Justified(r, d)
           /\ \A d \in NextLevel(r) : Justified(r, d)
<1>1. ASSUME NEW B, NEW d \in BaseGates(r, B) PROVE Justified(r, d)
  <2>1. PICK h \in Hops(r) : d = <<GateOf(Base, h[1], h[2]), h[3]>>
    BY BaseGatesFrom
  <2>2. h[1] \in Nodes /\ h[2] \in Nodes
    BY HopType
  <2> QED BY <2>1, <2>2, GateBuilt DEF Justified, Base
<1>2. ASSUME NEW g \in Rows(r, Base), NEW e \in Lineages(r, g)
      PROVE  \E h \in Hops(r) : From(g) = h[1] /\ To(g) = h[2] /\ e = h[3]
  <2>1. <<g, e>> \in circuit[r] /\ g[1][1] = Base
    BY LineageType, RowFacts DEF PathInv
  <2>2. Justified(r, <<g, e>>)
    BY <2>1 DEF PathInv, CircuitJustified
  <2> QED BY <2>1, <2>2 DEF Justified
<1>3. ASSUME NEW d \in Level0(r) PROVE Justified(r, d)
  <2>1. CASE \E g \in Rows(r, Base) : \E e \in Lineages(r, g) :
                d = <<GateOf(0, From(g), To(g)), e>>
    <3>1. PICK g \in Rows(r, Base) : \E e \in Lineages(r, g) :
                d = <<GateOf(0, From(g), To(g)), e>>
      BY <2>1
    <3>2. PICK e \in Lineages(r, g) : d = <<GateOf(0, From(g), To(g)), e>>
      BY <3>1
    <3>3. PICK h \in Hops(r) : From(g) = h[1] /\ To(g) = h[2] /\ e = h[3]
      BY <1>2
    <3>4. Connects(r, e, From(g), To(g))
      BY <3>3, OneHop
    <3>5. From(g) \in Nodes /\ To(g) \in Nodes
      BY LineageType, GateParts
    <3> QED BY <3>2, <3>4, <3>5, GateBuilt DEF Justified, Base, Holds
  <2>2. CASE /\ query[r].star
             /\ \E f \in data, n \in Nodes : Mentions(f, n) /\ d = <<GateOf(0, n, n), {f}>>
    <3>1. PICK f \in data, n \in Nodes : Mentions(f, n) /\ d = <<GateOf(0, n, n), {f}>>
      BY <2>2
    <3>2. Holds(r, {f}, n, n)
      BY <2>2, <3>1 DEF Holds
    <3>3. d[1] = GateOf(0, n, n) /\ d[2] = {f}
      BY <3>1
    <3>4. d[1][1][1] = 0 /\ From(d[1]) = n /\ To(d[1]) = n
      BY <3>3, GateBuilt
    <3> QED BY <3>2, <3>3, <3>4 DEF Justified, Base
  <2> QED BY <2>1, <2>2, Level0From
<1>4. ASSUME NEW d \in NextLevel(r) PROVE Justified(r, d)
  <2>1. k[r] \in Nat /\ k[r] + 1 \in Int /\ k[r] # Base /\ k[r] + 1 # Base
    BY DEF TypeOK, Base
  <2>2. ASSUME NEW g \in Rows(r, k[r]), NEW e \in Lineages(r, g)
        PROVE  Holds(r, e, From(g), To(g)) /\ From(g) \in Nodes /\ To(g) \in Nodes
    <3>1. <<g, e>> \in circuit[r] /\ g[1][1] = k[r] /\ g \in Gate
      BY LineageType, RowFacts DEF PathInv
    <3>2. Justified(r, <<g, e>>)
      BY <3>1 DEF PathInv, CircuitJustified
    <3> QED BY <2>1, <3>1, <3>2, GateParts DEF Justified
  <2>3. CASE \E g \in Rows(r, k[r]), b \in Rows(r, Base) :
             \E e \in Lineages(r, g), f \in Lineages(r, b) :
                 /\ To(g) = From(b)
                 /\ d = <<GateOf(k[r] + 1, From(g), To(b)), e \cup f>>
    <3>1. PICK g \in Rows(r, k[r]), b \in Rows(r, Base) :
             \E e \in Lineages(r, g), f \in Lineages(r, b) :
                 /\ To(g) = From(b)
                 /\ d = <<GateOf(k[r] + 1, From(g), To(b)), e \cup f>>
      BY <2>3
    <3>2. PICK e \in Lineages(r, g), f \in Lineages(r, b) :
                 /\ To(g) = From(b)
                 /\ d = <<GateOf(k[r] + 1, From(g), To(b)), e \cup f>>
      BY <3>1
    <3>3. PICK h \in Hops(r) : From(b) = h[1] /\ To(b) = h[2] /\ f = h[3]
      BY <1>2
    <3>4. Connects(r, e \cup f, From(g), To(b))
      BY <2>2, <3>2, <3>3, OneMoreHop
    <3>5. From(g) \in Nodes /\ To(b) \in Nodes
      BY <2>2, LineageType, GateParts
    <3>6. /\ d[1][1][1] = k[r] + 1 /\ d[2] = e \cup f
          /\ From(d[1]) = From(g) /\ To(d[1]) = To(b)
      BY <2>1, <3>2, <3>5, GateBuilt
    <3>7. Holds(r, d[2], From(d[1]), To(d[1]))
      BY <3>4, <3>6 DEF Holds
    <3> QED BY <2>1, <3>6, <3>7 DEF Justified
  <2>4. CASE \E g \in Rows(r, k[r]) : \E e \in Lineages(r, g) :
                 d = <<GateOf(k[r] + 1, From(g), To(g)), e>>
    <3>1. PICK g \in Rows(r, k[r]) : \E e \in Lineages(r, g) :
                 d = <<GateOf(k[r] + 1, From(g), To(g)), e>>
      BY <2>4
    <3>2. PICK e \in Lineages(r, g) : d = <<GateOf(k[r] + 1, From(g), To(g)), e>>
      BY <3>1
    <3> QED BY <2>1, <2>2, <3>2, GateBuilt DEF Justified
  <2> QED BY <2>3, <2>4, NextLevelFrom
<1> QED BY <1>1, <1>3, <1>4

\* Feeding justified gates of one level keeps the invariant of circuit and rows.
LEMMA FeedKeeps ==
    ASSUME TypeOK, PathInv, [Next]_vars, NEW r \in Runs, NEW l, NEW new,
           RunFeed(r, l, new),
           \A d \in new : d[1][1][1] = l /\ Justified(r, d),
           phase[r] # "failed", \A s \in Runs \ {r} : phase'[s] = phase[s]
    PROVE  CircuitJustified' /\ RowsKnown'
<1>1. /\ circuit'[r] = circuit[r] \cup new
      /\ \A s \in Runs \ {r} : circuit'[s] = circuit[s]
      /\ store' = store \cup {<<Key(r, l), g>> : g \in GatesOf(new)}
  BY DEF RunFeed, TypeOK
<1>2. CircuitJustified'
  <2> SUFFICES ASSUME NEW s \in Runs, NEW d \in circuit'[s] PROVE Justified(s, d)'
    BY DEF CircuitJustified
  <2>1. Justified(s, d)
    BY <1>1 DEF PathInv, CircuitJustified
  <2> QED BY <2>1, MeaningFrame DEF Justified
<1>3. RowsKnown'
  <2> SUFFICES ASSUME NEW s \in Runs, NEW x \in store', x[1][1] = s
               PROVE  /\ x[2][1][1] = x[1][4]
                      /\ phase'[s] # "failed" => \E d \in circuit'[s] : d[1] = x[2]
    BY DEF RowsKnown
  <2>1. CASE x \in store
    <3>1. x[2][1][1] = x[1][4] /\ (phase[s] # "failed" => \E d \in circuit[s] : d[1] = x[2])
      BY <2>1 DEF PathInv, RowsKnown
    <3> QED BY <1>1, <3>1
  <2>2. CASE \E g \in GatesOf(new) : x = <<Key(r, l), g>>
    <3>1. PICK d \in new : x = <<Key(r, l), d[1]>>
      BY <2>2 DEF GatesOf
    <3>2. x[1][1] = r /\ x[1][4] = l /\ x[2] = d[1]
      BY <3>1 DEF Key
    <3> QED BY <1>1, <3>1, <3>2
  <2> QED BY <1>1, <2>1, <2>2
<1> QED BY <1>2, <1>3

\* Where the circuits and the rows do not change, nor does what is known of them.
LEMMA PathInvFrame ==
    ASSUME PathInv, [Next]_vars, circuit' = circuit, store' = store,
           \A s \in Runs : phase[s] = "failed" => phase'[s] = "failed"
    PROVE  CircuitJustified' /\ RowsKnown'
<1>1. CircuitJustified'
  BY MeaningFrame DEF PathInv, CircuitJustified, Justified
<1>2. RowsKnown'
  BY DEF PathInv, RowsKnown
<1> QED BY <1>1, <1>2

LEMMA AnswersFrame ==
    ASSUME AnswersSound, [Next]_vars, answers' = answers
    PROVE  AnswersSound'
BY MeaningFrame DEF AnswersSound

\* The gates that are projected are level gates, so their lineages are walks.
LEMMA FinishSound ==
    ASSUME TypeOK, PathInv, [Next]_vars, NEW r \in Runs, Finish(r)
    PROVE  AnswersSound'
<1>1. ASSUME NEW g \in FinalGates(r), NEW d \in Lineages(r, g)
      PROVE  Holds(r, d, From(g), To(g))
  <2>1. PICK l \in FinalLevels(r) : g \in Rows(r, l)
    BY DEF FinalGates
  <2>2. l \in Nat
    BY DEF FinalLevels, TypeOK
  <2>3. g[1][1] = l /\ <<g, d>> \in circuit[r]
    BY <2>1, RowFacts, LineageType DEF PathInv
  <2>4. Justified(r, <<g, d>>)
    BY <2>3 DEF PathInv, CircuitJustified
  <2> QED BY <2>2, <2>3, <2>4 DEF Justified, Base
<1>2. /\ \A s \in Runs \ {r} : answers'[s] = answers[s]
      /\ answers'[r] = answers[r] \cup
            UNION {{<<From(g), To(g), d>> : d \in Lineages(r, g)} : g \in FinalGates(r)}
  BY DEF Finish, TypeOK
<1> SUFFICES ASSUME NEW s \in Runs, NEW a \in answers'[s] PROVE Holds(s, a[3], a[1], a[2])
  BY MeaningFrame DEF AnswersSound
<1>3. CASE a \in answers[s]
  BY <1>3 DEF PathInv, AnswersSound
<1>4. CASE s = r /\ a \notin answers[s]
  <2>1. PICK g \in FinalGates(r) : \E d \in Lineages(r, g) : a = <<From(g), To(g), d>>
    BY <1>2, <1>4
  <2>2. PICK d \in Lineages(r, g) : a = <<From(g), To(g), d>>
    BY <2>1
  <2>3. a[1] = From(g) /\ a[2] = To(g) /\ a[3] = d
    BY <2>2
  <2> QED BY <1>1, <1>4, <2>3
<1> QED BY <1>2, <1>3, <1>4

\* A failing run loses its circuit; the rows it leaves are of the key's level.
LEMMA FailKeeps ==
    ASSUME TypeOK, PathInv, [Next]_vars, NEW r \in Runs, Fail(r)
    PROVE  PathInv'
<1>1. /\ circuit'[r] = {} /\ answers'[r] = {} /\ phase'[r] = "failed"
      /\ \A s \in Runs \ {r} : /\ circuit'[s] = circuit[s] /\ answers'[s] = answers[s]
                               /\ phase'[s] = phase[s]
  BY DEF Fail, TypeOK
<1>2. CircuitJustified' /\ AnswersSound'
  BY <1>1, MeaningFrame DEF PathInv, CircuitJustified, Justified, AnswersSound
<1>3. \A d \in Emitted(r) : d[1][1][1] = EmittedLevel(r)
  BY EmissionType DEF Emitted, EmittedLevel
<1>4. PICK gates \in SUBSET GatesOf(Emitted(r)) :
         store' = store \cup {<<Key(r, EmittedLevel(r)), g>> : g \in gates}
  BY DEF Fail
<1>5. RowsKnown'
  <2> SUFFICES ASSUME NEW s \in Runs, NEW x \in store', x[1][1] = s
               PROVE  /\ x[2][1][1] = x[1][4]
                      /\ phase'[s] # "failed" => \E d \in circuit'[s] : d[1] = x[2]
    BY DEF RowsKnown
  <2>1. CASE x \in store
    <3>1. x[2][1][1] = x[1][4] /\ (phase[s] # "failed" => \E d \in circuit[s] : d[1] = x[2])
      BY <2>1 DEF PathInv, RowsKnown
    <3> QED BY <1>1, <3>1
  <2>2. CASE x \notin store
    <3>1. PICK g \in gates : x = <<Key(r, EmittedLevel(r)), g>>
      BY <1>4, <2>2
    <3>2. PICK d \in Emitted(r) : d[1] = g
      BY <3>1 DEF GatesOf
    <3>3. x[1][1] = r /\ x[1][4] = EmittedLevel(r) /\ x[2] = d[1]
      BY <3>1, <3>2 DEF Key
    <3> QED BY <1>1, <1>3, <3>3
  <2> QED BY <2>1, <2>2
<1> QED BY <1>2, <1>5 DEF PathInv

\* One step of one run keeps the invariant.
LEMMA PathInvRunStep ==
    ASSUME TypeOK, PathInv, [Next]_vars, NEW r \in Runs, RunStep(r)
    PROVE  PathInv'
<1>1. CASE StartSource(r) \/ ExpandBatch(r) \/ SearchDone(r) \/ RoundsOver(r) \/ SourcesDone(r)
  <2>1. circuit' = circuit /\ store' = store /\ answers' = answers
    BY <1>1 DEF StartSource, ExpandBatch, SearchDone, RoundsOver, SourcesDone
  <2>2. \A s \in Runs : phase[s] = "failed" => phase'[s] = "failed"
    BY <1>1 DEF StartSource, ExpandBatch, SearchDone, RoundsOver, SourcesDone, TypeOK
  <2> QED BY <2>1, <2>2, PathInvFrame, AnswersFrame DEF PathInv
<1>2. CASE BaseBatch(r)
  <2>1. PICK B : RunFeed(r, Base, BaseGates(r, B))
    BY <1>2 DEF BaseBatch
  <2>2. phase[r] # "failed" /\ \A s \in Runs \ {r} : phase'[s] = phase[s]
    BY <1>2 DEF BaseBatch, TypeOK
  <2>3. \A d \in BaseGates(r, B) : d[1][1][1] = Base /\ Justified(r, d)
    BY EmissionType, EmissionJustified
  <2>4. AnswersSound'
    BY <1>2, AnswersFrame DEF BaseBatch, PathInv
  <2> QED BY <2>1, <2>2, <2>3, <2>4, FeedKeeps DEF PathInv
<1>3. CASE Seed(r)
  <2>1. RunFeed(r, 0, Level0(r))
    BY <1>3 DEF Seed
  <2>2. phase[r] # "failed" /\ \A s \in Runs \ {r} : phase'[s] = phase[s]
    BY <1>3 DEF Seed, TypeOK
  <2>3. \A d \in Level0(r) : d[1][1][1] = 0 /\ Justified(r, d)
    BY EmissionType, EmissionJustified
  <2>4. AnswersSound'
    BY <1>3, AnswersFrame DEF Seed, PathInv
  <2> QED BY <2>1, <2>2, <2>3, <2>4, FeedKeeps DEF PathInv
<1>4. CASE RoundStep(r)
  <2>1. RunFeed(r, k[r] + 1, NextLevel(r))
    BY <1>4 DEF RoundStep
  <2>2. phase[r] # "failed" /\ \A s \in Runs \ {r} : phase'[s] = phase[s]
    BY <1>4 DEF RoundStep, TypeOK
  <2>3. \A d \in NextLevel(r) : d[1][1][1] = k[r] + 1 /\ Justified(r, d)
    BY EmissionType, EmissionJustified
  <2>4. AnswersSound'
    BY <1>4, AnswersFrame DEF RoundStep, PathInv
  <2> QED BY <2>1, <2>2, <2>3, <2>4, FeedKeeps DEF PathInv
<1>5. CASE Finish(r)
  <2>1. circuit' = circuit /\ store' = store
    BY <1>5 DEF Finish
  <2>2. \A s \in Runs : phase[s] = "failed" => phase'[s] = "failed"
    BY <1>5 DEF Finish, TypeOK
  <2> QED BY <1>5, <2>1, <2>2, PathInvFrame, FinishSound DEF PathInv
<1> QED BY <1>1, <1>2, <1>3, <1>4, <1>5 DEF RunStep

LEMMA PathInvStep == TypeOK /\ PathInv /\ [Next]_vars => PathInv'
<1> SUFFICES ASSUME TypeOK, PathInv, [Next]_vars PROVE PathInv'
  OBVIOUS
<1>1. ASSUME NEW r \in Runs, RunStep(r) PROVE PathInv'
  BY <1>1, PathInvRunStep
<1>2. ASSUME NEW r \in Runs, Fail(r) PROVE PathInv'
  BY <1>2, FailKeeps
<1>3. CASE UNCHANGED vars
  <2>1. circuit' = circuit /\ store' = store /\ answers' = answers /\ phase' = phase
    BY <1>3 DEF vars
  <2> QED BY <2>1, PathInvFrame, AnswersFrame DEF PathInv
<1> QED BY <1>1, <1>2, <1>3 DEF Next, Terminated

-----------------------------------------------------------------------------
(* The theorems                                                             *)

\* Soundness of the circuit: a derivation of a level gate of any round, on cyclic
\* data too, is a walk of the path query.
THEOREM PathCircuitSound == Spec => []LineageSound
<1>1. PathInv => LineageSound
  BY DEF PathInv, CircuitJustified, Justified, LineageSound
<1> QED BY <1>1, TypeInit, TypeStep, PathInvInit, PathInvStep, PTL DEF Spec

\* Soundness of the answers: whatever runs share the endpoint and fail on it, an
\* answer's derivation is a path from its source to its target.
THEOREM PathAnswersSound == Spec => []AnswersSound
<1>1. PathInv => AnswersSound
  BY DEF PathInv
<1> QED BY <1>1, TypeInit, TypeStep, PathInvInit, PathInvStep, PTL DEF Spec

\* Isolation: a run only ever matches rows of gates of its own circuit.
THEOREM PathRunsIsolated == Spec => []RowsAreOwn
<1>1. PathInv => RowsAreOwn
  BY RowFacts DEF PathInv, RowsAreOwn
<1> QED BY <1>1, TypeInit, TypeStep, PathInvInit, PathInvStep, PTL DEF Spec

-----------------------------------------------------------------------------
(* What a path means: closed sets of nodes, and worlds of the data           *)

\* The ends of a hop are mentioned by facts of the data.
LEMMA HopActive ==
    ASSUME TypeOK, NEW r \in Runs, NEW h \in Hops(r)
    PROVE  h[1] \in ActiveNodes /\ h[2] \in ActiveNodes
<1>1. PICK a \in query[r].alternatives :
         h \in {<<c[1][1], c[Len(a)][2], {c[i] : i \in DOMAIN a}>> : c \in Chains(a)}
  BY DEF Hops
<1>2. PICK c \in Chains(a) : h = <<c[1][1], c[Len(a)][2], {c[i] : i \in DOMAIN a}>>
  BY <1>1
<1>3. query[r] \in Query
  BY PathAssumption DEF TypeOK
<1>4. a \in Seq(Preds) /\ a # << >>
  BY <1>3 DEF Query
<1>5. c[1] \in data /\ c[Len(a)] \in data
  BY <1>4 DEF Chains
<1>6. h[1] = c[1][1] /\ h[2] = c[Len(a)][2]
  BY <1>2
<1> QED BY <1>5, <1>6, HopType DEF ActiveNodes, Mentions

\* More facts, more paths.
LEMMA HoldsMonotone ==
    ASSUME NEW r \in Runs, NEW V, NEW W, V \subseteq W, NEW u, NEW v, Holds(r, V, u, v)
    PROVE  Holds(r, W, u, v)
<1>1. CASE Connects(r, V, u, v)
  <2>1. Connects(r, W, u, v)
    BY <1>1 DEF Connects
  <2> QED BY <2>1 DEF Holds
<1>2. CASE query[r].star /\ u = v /\ \E f \in V : Mentions(f, u)
  BY <1>2 DEF Holds
<1> QED BY <1>1, <1>2 DEF Holds

\* A path of facts of the data joins nodes that these facts mention.
LEMMA HoldsActive ==
    ASSUME TypeOK, NEW r \in Runs, NEW W \in SUBSET data, NEW u \in Nodes, NEW v \in Nodes,
           Holds(r, W, u, v)
    PROVE  u \in ActiveNodes /\ v \in ActiveNodes
<1>1. CASE Connects(r, W, u, v)
  <2>1. ActiveNodes \in SUBSET Nodes
    BY DEF ActiveNodes
  <2>2. v \in ActiveNodes
    BY <1>1, <2>1, HopActive DEF Connects
  <2> DEFINE C == {n \in Nodes : u \in ActiveNodes}
  <2>3. C \in SUBSET Nodes
    OBVIOUS
  <2>4. ASSUME NEW h \in Hops(r), h[1] = u \/ h[1] \in C PROVE h[2] \in C
    BY <2>4, HopActive, HopType
  <2>5. v \in C
    <3> HIDE DEF C
    <3> QED BY <1>1, <2>3, <2>4 DEF Connects
  <2> QED BY <2>2, <2>5
<1>2. CASE u = v /\ \E f \in W : Mentions(f, u)
  BY <1>2 DEF ActiveNodes
<1> QED BY <1>1, <1>2 DEF Holds

\* A store mentions finitely many nodes.
LEMMA ActiveNodesFinite ==
    ASSUME TypeOK
    PROVE  IsFiniteSet(ActiveNodes)
<1>1. IsFiniteSet(data) /\ data \subseteq Nodes \X Nodes \X Preds
  BY PathAssumption DEF TypeOK, Fact
<1> DEFINE subjects == [f \in data |-> f[1]]
           objects  == [f \in data |-> f[2]]
           Subjects == {f[1] : f \in data}
           Objects  == {f[2] : f \in data}
<1>2. IsFiniteSet(Subjects)
  <2>1. subjects \in Surjection(data, Subjects)
    BY DEF Surjection
  <2> HIDE DEF subjects, Subjects
  <2> QED BY <1>1, <2>1, FS_Surjection
<1>3. IsFiniteSet(Objects)
  <2>1. objects \in Surjection(data, Objects)
    BY DEF Surjection
  <2> HIDE DEF objects, Objects
  <2> QED BY <1>1, <2>1, FS_Surjection
<1>4. ActiveNodes \subseteq Subjects \cup Objects
  BY DEF ActiveNodes, Mentions
<1>5. IsFiniteSet(Subjects \cup Objects)
  <2> HIDE DEF Subjects, Objects
  <2> QED BY <1>2, <1>3, FS_Union
<1> HIDE DEF Subjects, Objects
<1> QED BY <1>4, <1>5, FS_Subset

-----------------------------------------------------------------------------
(* What the gates of a run tell                                             *)

\* The gate of level l from u to v has a row and the lineage d.
Derives(r, l, u, v, d) ==
    GateOf(l, u, v) \in Rows(r, l) /\ d \in Lineages(r, GateOf(l, u, v))

\* In the world W the gates of level l tell that v can be reached from u.
Told(r, l, u, v, W) == \E d \in SUBSET W : Derives(r, l, u, v, d)

\* Level gates tell the truth.
LEMMA ToldSound ==
    ASSUME TypeOK, PathInv, NEW r \in Runs, NEW l \in Nat, NEW u \in Nodes, NEW v \in Nodes,
           NEW W, Told(r, l, u, v, W)
    PROVE  Holds(r, W, u, v)
<1>1. PICK d \in SUBSET W : Derives(r, l, u, v, d)
  BY DEF Told
<1>2. <<GateOf(l, u, v), d>> \in circuit[r]
  BY <1>1, LineageType DEF Derives
<1>3. Justified(r, <<GateOf(l, u, v), d>>)
  BY <1>2 DEF PathInv, CircuitJustified
<1>4. Holds(r, d, u, v)
  BY <1>3, GateBuilt DEF Justified, Base
<1> QED BY <1>4, HoldsMonotone

\* What is fed is told, and its end points count as reached.
LEMMA FeedDerives ==
    ASSUME TypeOK, NEW r \in Runs, NEW l \in Int, NEW new, RunFeed(r, l, new),
           query' = query, sourceIndex' = sourceIndex,
           NEW u \in Nodes, NEW v \in Nodes, NEW d, <<GateOf(l, u, v), d>> \in new
    PROVE  /\ Derives(r, l, u, v, d)'
           /\ l # Base => u \in reachNodes'[r] /\ v \in reachNodes'[r]
<1>1. Key(r, l)' = Key(r, l)
  BY DEF Key, Source
<1>2. GateOf(l, u, v) \in GatesOf(new)
  BY DEF GatesOf
<1>3. GateOf(l, u, v) \in Rows(r, l)'
  <2> DEFINE x == <<Key(r, l), GateOf(l, u, v)>>
  <2>1. x \in store' /\ x[1] = Key(r, l)' /\ x[2] = GateOf(l, u, v)
    BY <1>1, <1>2 DEF RunFeed
  <2> HIDE DEF x
  <2> QED BY <2>1 DEF Rows
<1>4. circuit'[r] = circuit[r] \cup new
  BY DEF RunFeed, TypeOK
<1>5. d \in Lineages(r, GateOf(l, u, v))'
  BY <1>4 DEF Lineages
<1>6. Derives(r, l, u, v, d)'
  BY <1>3, <1>5 DEF Derives
<1>7. ASSUME l # Base PROVE u \in reachNodes'[r] /\ v \in reachNodes'[r]
  <2>1. reachNodes'[r] = reachNodes[r] \cup EndPoints(l, GatesOf(new))
    BY DEF RunFeed, TypeOK
  <2>2. u \in EndPoints(l, GatesOf(new)) /\ v \in EndPoints(l, GatesOf(new))
    BY <1>2, <1>7, GateBuilt DEF EndPoints
  <2> QED BY <2>1, <2>2
<1> QED BY <1>6, <1>7

\* Feeding a level keeps what is told of every level, and adds only to its own.
LEMMA FeedFrame ==
    ASSUME TypeOK, NEW r \in Runs, NEW l \in Int, NEW new, RunFeed(r, l, new),
           query' = query, sourceIndex' = sourceIndex,
           \A e \in new : e[1][1][1] = l,
           NEW j \in Int, NEW u \in Nodes, NEW v \in Nodes, NEW d
    PROVE  /\ Derives(r, j, u, v, d) => Derives(r, j, u, v, d)'
           /\ j # l /\ Derives(r, j, u, v, d)' => Derives(r, j, u, v, d)
<1>1. /\ Key(r, j)' = Key(r, j)
      /\ j # l => Key(r, j) # Key(r, l)
  BY DEF Key, Source
<1>2. circuit'[r] = circuit[r] \cup new
  BY DEF RunFeed, TypeOK
<1>3. store' = store \cup {<<Key(r, l), g>> : g \in GatesOf(new)}
  BY DEF RunFeed
<1>4. /\ Rows(r, j) \subseteq Rows(r, j)'
      /\ j # l => Rows(r, j)' \subseteq Rows(r, j)
  BY <1>1, <1>3 DEF Rows
<1> DEFINE g == GateOf(j, u, v)
<1>5. g[1][1] = j
  BY GateBuilt
<1>6. /\ Lineages(r, g) \subseteq Lineages(r, g)'
      /\ j # l => Lineages(r, g)' \subseteq Lineages(r, g)
  <2> HIDE DEF g
  <2> QED BY <1>2, <1>5 DEF Lineages
<1> QED BY <1>4, <1>6 DEF Derives

-----------------------------------------------------------------------------
(* The inductive invariant of completeness                                  *)
(*                                                                          *)
(* The rounds build the levels one hop at a time, so level n tells of every  *)
(* node that n + 1 hops reach.  What makes them enough is a count: while a   *)
(* hop still leads out of the ball of nodes found, every round adds a node   *)
(* to it, and neither the cap nor the convergence test stops a run before    *)
(* the ball could hold every node there is.                                  *)

\* The nodes among which the walks of the current source stay.
Scope(r) == IF Bound(r) THEN reach[r] ELSE Nodes

Working == {"search", "base", "seed", "round", "finish"}

\* The search has followed every hop of the nodes it has expanded.
SearchInv(r) == phase[r] \in Working =>
    /\ Bound(r) => Source(r) \in reach[r] /\ reach[r] \subseteq {Source(r)} \cup ActiveNodes
    /\ \A h \in Hops(r) : h[1] \in reach[r] \ (frontier[r] \cup next[r]) => h[2] \in reach[r]
    /\ frontier[r] = {} => next[r] = {}
    /\ phase[r] # "search" => frontier[r] = {}

\* Every hop of a node that is no longer pending is a gate of the base relation.
BaseInv(r) == phase[r] \in Working \ {"search"} =>
    /\ \A h \in Hops(r) : h[1] \in Scope(r) \ pending[r] => Derives(r, Base, h[1], h[2], h[3])
    /\ phase[r] # "base" => pending[r] = {}

\* The nodes that the levels up to n tell of, in the world W, from u.
Ball(r, W, u, n) ==
    {v \in reachNodes[r] : u \in reachNodes[r] /\ \E l \in 0..n : Told(r, l, u, v, W)}

\* The hops of H in the world W lead from S into T.
Leads(H, W, S, T) == \A h \in H : h[3] \subseteq W /\ h[1] \in S => h[2] \in T

\* No hop of W leads from u and its ball out of the ball: nothing is missing.
Closed(r, W, u, n) ==
    Leads(Hops(r), W, {u} \cup Ball(r, W, u, n), Ball(r, W, u, n))

\* Level 0 tells the hops of u, and each level those of the one before.
FirstHop(r, W, u) ==
    \A h \in Hops(r) : h[3] \subseteq W /\ h[1] = u =>
        Told(r, 0, u, h[2], W) /\ u \in reachNodes[r] /\ h[2] \in reachNodes[r]

NextHop(r, W, u, n) ==
    \A l \in 0..(n - 1) : \A h \in Hops(r) :
        h[3] \subseteq W /\ Told(r, l, u, h[1], W) =>
            Told(r, l + 1, u, h[2], W) /\ u \in reachNodes[r] /\ h[2] \in reachNodes[r]

\* e*: the zero-length path is at level 0.
ZeroHop(r, W, u) ==
    query[r].star /\ (\E f \in W : Mentions(f, u)) => Told(r, 0, u, u, W)

\* The cumulative form carries what a level tells to the last one.
CarriedOn(r, W, u, n) ==
    ~query[r].exact =>
        \A l \in 0..n : \A v \in Nodes : Told(r, l, u, v, W) => Told(r, n, u, v, W)

\* Every round leaves nothing to find, or has found one more node.
Progress(r, W, u, n) ==
    Closed(r, W, u, n) \/ Cardinality({u} \cup Ball(r, W, u, n)) >= n + 2

LevelAt(r, W, u, n) ==
    /\ FirstHop(r, W, u) /\ NextHop(r, W, u, n) /\ ZeroHop(r, W, u)
    /\ CarriedOn(r, W, u, n) /\ Progress(r, W, u, n)

LevelInv(r) ==
    /\ phase[r] \in Working => reachNodes[r] \subseteq ActiveNodes /\ lastLevel[r] = k[r]
    /\ phase[r] \in {"search", "base", "seed"} => k[r] = 0
    /\ phase[r] \in {"round", "finish"} =>
          \A W \in SUBSET data, u \in Nodes, n \in Nat : FromSource(r, u) /\ n = k[r] =>
              LevelAt(r, W, u, n) /\ (phase[r] = "finish" => Closed(r, W, u, n))

\* The answers of a source that is finished are complete.
FinishedInv(r) == phase[r] # "failed" =>
    \A u \in Answered(r), v \in Nodes, W \in SUBSET data :
        Holds(r, W, u, v) => Says(r, W, u, v)

CompleteAt(r) == SearchInv(r) /\ BaseInv(r) /\ LevelInv(r) /\ FinishedInv(r)

CompleteInv == \A r \in Runs : CompleteAt(r)

-----------------------------------------------------------------------------
(* Consequences of the invariant in one state                               *)

\* A run never leaves its scope: the source is in it, and every node of a path.
LEMMA ScopeKeeps ==
    ASSUME TypeOK, NEW r \in Runs, SearchInv(r), phase[r] \in Working \ {"search"},
           NEW W, NEW u \in Nodes, NEW v \in Nodes, FromSource(r, u), Holds(r, W, u, v)
    PROVE  u \in Scope(r) /\ v \in Scope(r)
<1>1. CASE ~Bound(r)
  BY <1>1 DEF Scope
<1>2. CASE Bound(r)
  <2>1. u = Source(r) /\ u \in reach[r] /\ reach[r] \in SUBSET Nodes
    BY <1>2 DEF FromSource, SearchInv, TypeOK
  <2>2. frontier[r] = {} /\ next[r] = {}
    BY DEF SearchInv
  <2>3. \A h \in Hops(r) : h[1] \in reach[r] => h[2] \in reach[r]
    BY <2>2 DEF SearchInv
  <2>4. Connects(r, W, u, v) => v \in reach[r]
    BY <2>1, <2>3 DEF Connects
  <2> QED BY <1>2, <2>1, <2>4 DEF Scope, Holds
<1> QED BY <1>1, <1>2

LEMMA SourceInScope ==
    ASSUME TypeOK, NEW r \in Runs, SearchInv(r), phase[r] \in Working,
           NEW u \in Nodes, FromSource(r, u)
    PROVE  u \in Scope(r)
BY DEF Scope, FromSource, SearchInv

\* What is in the ball of u can be reached from u.
LEMMA BallSound ==
    ASSUME TypeOK, PathInv, NEW r \in Runs, NEW W, NEW u \in Nodes, NEW n \in Nat,
           NEW v \in Ball(r, W, u, n)
    PROVE  v \in Nodes /\ u \in reachNodes[r] /\ v \in reachNodes[r] /\ Holds(r, W, u, v)
<1>1. v \in Nodes /\ u \in reachNodes[r] /\ v \in reachNodes[r]
  BY DEF Ball, TypeOK
<1>2. PICK l \in 0..n : Told(r, l, u, v, W)
  BY DEF Ball
<1>3. l \in Nat
  OBVIOUS
<1> QED BY <1>1, <1>2, <1>3, ToldSound

\* A closed ball holds every node that can be reached.
LEMMA ClosedMeans ==
    ASSUME TypeOK, NEW r \in Runs, NEW W, NEW u, NEW n, Closed(r, W, u, n),
           NEW v \in Nodes, Connects(r, W, u, v)
    PROVE  v \in Ball(r, W, u, n)
<1>1. Ball(r, W, u, n) \in SUBSET Nodes
  BY DEF Ball, TypeOK
<1>2. \A h \in Hops(r) : h[3] \subseteq W /\ (h[1] = u \/ h[1] \in Ball(r, W, u, n))
                            => h[2] \in Ball(r, W, u, n)
  BY DEF Closed, Leads
<1> QED BY <1>1, <1>2 DEF Connects

\* A ball among at most n + 1 nodes does not have n + 2 of them.
LEMMA TooFew ==
    ASSUME NEW u, NEW n \in Nat, NEW B, NEW S, IsFiniteSet(S), Cardinality(S) <= n + 1,
           B # {} => {u} \cup B \subseteq S
    PROVE  ~(Cardinality({u} \cup B) >= n + 2)
<1>1. CASE B = {}
  <2>1. {u} \cup B = {u} /\ Cardinality({u}) = 1
    BY <1>1, FS_Singleton
  <2>2. Cardinality({u} \cup B) = 1
    BY <2>1
  <2> QED BY <2>2
<1>2. CASE B # {}
  <2>1. Cardinality({u} \cup B) <= Cardinality(S) /\ IsFiniteSet({u} \cup B)
    BY <1>2, FS_Subset
  <2>2. Cardinality({u} \cup B) \in Nat /\ Cardinality(S) \in Nat
    BY <2>1, FS_CardinalityType
  <2> QED BY <2>1, <2>2
<1> QED BY <1>1, <1>2

\* One round more: the hops of the old ball are in the new one, which then is
\* closed or has one more node.
LEMMA ClosedOrMore ==
    ASSUME NEW H, NEW W, NEW u, NEW n \in Nat, NEW Old, NEW New,
           IsFiniteSet(New), Old \subseteq New,
           Leads(H, W, {u} \cup Old, New),
           Cardinality({u} \cup Old) >= n + 1
    PROVE  Leads(H, W, {u} \cup New, New) \/ Cardinality({u} \cup New) >= n + 2
<1>1. CASE New \subseteq {u} \cup Old
  BY <1>1 DEF Leads
<1>2. CASE ~(New \subseteq {u} \cup Old)
  <2>1. PICK w \in New : w \notin {u} \cup Old
    BY <1>2
  <2>2. IsFiniteSet({u} \cup New)
    BY FS_Singleton, FS_Union
  <2>3. IsFiniteSet({u} \cup Old)
    <3>1. {u} \cup Old \subseteq {u} \cup New
      OBVIOUS
    <3> QED BY <2>2, <3>1, FS_Subset
  <2> DEFINE more == ({u} \cup Old) \cup {w}
  <2>4. IsFiniteSet(more) /\ Cardinality(more) = Cardinality({u} \cup Old) + 1
    BY <2>1, <2>3, FS_AddElement
  <2>5. more \subseteq {u} \cup New
    BY <2>1
  <2>6. Cardinality(more) <= Cardinality({u} \cup New)
    <3> HIDE DEF more
    <3> QED BY <2>2, <2>5, FS_Subset
  <2>7. Cardinality({u} \cup Old) \in Nat /\ Cardinality({u} \cup New) \in Nat
    BY <2>2, <2>3, FS_CardinalityType
  <2> HIDE DEF more
  <2> QED BY <2>4, <2>6, <2>7
<1> QED BY <1>1, <1>2

-----------------------------------------------------------------------------
(* Frames: what one step leaves alone                                       *)

\* The state of run s that a step of another run leaves alone.
Unmoved(s) ==
    /\ phase'[s] = phase[s] /\ sourceIndex'[s] = sourceIndex[s]
    /\ reach'[s] = reach[s] /\ frontier'[s] = frontier[s] /\ next'[s] = next[s]
    /\ pending'[s] = pending[s]
    /\ k'[s] = k[s] /\ lastLevel'[s] = lastLevel[s] /\ reachNodes'[s] = reachNodes[s]
    /\ circuit'[s] = circuit[s] /\ answers'[s] = answers[s]
    /\ \A l : Rows(s, l)' = Rows(s, l)

\* The data and the queries never change, so these do not either.
LEMMA StaticFrame ==
    ASSUME [Next]_vars, NEW r \in Runs
    PROVE  /\ ActiveNodes' = ActiveNodes
           /\ sourceIndex'[r] = sourceIndex[r] =>
                 /\ Source(r)' = Source(r) /\ Bound(r)' = Bound(r)
                 /\ \A u : FromSource(r, u)' = FromSource(r, u)
                 /\ Answered(r)' = Answered(r)
BY MeaningFrame DEF ActiveNodes, Source, Bound, FromSource, Answered

\* Where rows, gates and k of a run stay, so does what they tell.
LEMMA ToldFrame ==
    ASSUME [Next]_vars, NEW r \in Runs, circuit'[r] = circuit[r],
           \A l : Rows(r, l)' = Rows(r, l)
    PROVE  /\ \A l, u, v, d : Derives(r, l, u, v, d)' = Derives(r, l, u, v, d)
           /\ \A l, u, v, W : Told(r, l, u, v, W)' = Told(r, l, u, v, W)
<1>1. \A g : Lineages(r, g)' = Lineages(r, g)
  BY DEF Lineages
<1>2. \A l, u, v, d : Derives(r, l, u, v, d)' = Derives(r, l, u, v, d)
  BY <1>1 DEF Derives
<1>3. \A l, u, v, W : Told(r, l, u, v, W)' = Told(r, l, u, v, W)
  BY <1>2 DEF Told
<1> QED BY <1>2, <1>3

\* What the levels say of a source is a matter of its gates and end points.
LEMMA LevelFrame ==
    ASSUME [Next]_vars, NEW r \in Runs, reachNodes'[r] = reachNodes[r],
           \A l, u, v, W : Told(r, l, u, v, W)' = Told(r, l, u, v, W)
    PROVE  \A W, u, n : /\ Closed(r, W, u, n)' = Closed(r, W, u, n)
                        /\ LevelAt(r, W, u, n)' = LevelAt(r, W, u, n)
<1>1. Hops(r)' = Hops(r) /\ query' = query
  BY MeaningFrame
<1>2. \A W, u, n : Ball(r, W, u, n)' = Ball(r, W, u, n)
  BY DEF Ball
<1>3. \A W, u, n : Closed(r, W, u, n)' = Closed(r, W, u, n)
  BY <1>1, <1>2 DEF Closed
<1>4. \A W, u, n : Progress(r, W, u, n)' = Progress(r, W, u, n)
  BY <1>2, <1>3 DEF Progress
<1>5. \A W, u : FirstHop(r, W, u)' = FirstHop(r, W, u)
  BY <1>1 DEF FirstHop
<1>6. \A W, u, n : NextHop(r, W, u, n)' = NextHop(r, W, u, n)
  BY <1>1 DEF NextHop
<1>7. \A W, u : ZeroHop(r, W, u)' = ZeroHop(r, W, u)
  BY <1>1 DEF ZeroHop
<1>8. \A W, u, n : CarriedOn(r, W, u, n)' = CarriedOn(r, W, u, n)
  BY <1>1 DEF CarriedOn
<1> QED BY <1>3, <1>4, <1>5, <1>6, <1>7, <1>8 DEF LevelAt

\* What is answered stays so.
LEMMA FinishedFrame ==
    ASSUME [Next]_vars, NEW r \in Runs, FinishedInv(r),
           sourceIndex'[r] = sourceIndex[r], answers'[r] = answers[r], phase[r] # "failed"
    PROVE  FinishedInv(r)'
<1>1. Answered(r)' = Answered(r) /\ data' = data
  BY StaticFrame, MeaningFrame
<1>2. \A u, v, W : Says(r, W, u, v)' = Says(r, W, u, v)
  BY DEF Says
<1>3. \A W, u, v : Holds(r, W, u, v)' = Holds(r, W, u, v)
  BY MeaningFrame
<1> QED BY <1>1, <1>2, <1>3 DEF FinishedInv

LEMMA UnmovedKeeps ==
    ASSUME [Next]_vars, NEW s \in Runs, CompleteAt(s), Unmoved(s)
    PROVE  CompleteAt(s)'
<1>1. /\ ActiveNodes' = ActiveNodes
      /\ Source(s)' = Source(s) /\ Bound(s)' = Bound(s)
      /\ \A u : FromSource(s, u)' = FromSource(s, u)
      /\ Hops(s)' = Hops(s) /\ data' = data
  BY StaticFrame, MeaningFrame DEF Unmoved
<1>2. /\ \A l, u, v, d : Derives(s, l, u, v, d)' = Derives(s, l, u, v, d)
      /\ \A l, u, v, W : Told(s, l, u, v, W)' = Told(s, l, u, v, W)
  BY ToldFrame DEF Unmoved
<1>3. SearchInv(s)'
  BY <1>1 DEF Unmoved, CompleteAt, SearchInv
<1>4. BaseInv(s)'
  BY <1>1, <1>2 DEF Unmoved, CompleteAt, BaseInv, Scope, Base
<1>5. LevelInv(s)'
  <2>1. \A W, u, n : /\ Closed(s, W, u, n)' = Closed(s, W, u, n)
                     /\ LevelAt(s, W, u, n)' = LevelAt(s, W, u, n)
    BY <1>2, LevelFrame DEF Unmoved
  <2> QED BY <1>1, <2>1 DEF Unmoved, CompleteAt, LevelInv
<1>6. FinishedInv(s)'
  <2>1. CASE phase[s] # "failed"
    BY <2>1, FinishedFrame DEF Unmoved, CompleteAt
  <2>2. CASE phase[s] = "failed"
    BY <2>2 DEF Unmoved, FinishedInv
  <2> QED BY <2>1, <2>2
<1> QED BY <1>3, <1>4, <1>5, <1>6 DEF CompleteAt

\* A run moves nothing of another one: the rows it writes are under its own keys.
LEMMA RowsOfOthers ==
    ASSUME NEW r \in Runs, NEW s \in Runs, s # r, NEW l, NEW gates,
           store' = store \cup {<<Key(r, l), g>> : g \in gates},
           query' = query, sourceIndex'[s] = sourceIndex[s]
    PROVE  \A j : Rows(s, j)' = Rows(s, j)
<1> SUFFICES ASSUME NEW j PROVE Rows(s, j)' = Rows(s, j)
  OBVIOUS
<1>1. Key(s, j)' = Key(s, j) /\ Key(s, j) # Key(r, l)
  BY DEF Key, Source
<1>2. {y \in store' : y[1] = Key(s, j)} = {y \in store : y[1] = Key(s, j)}
  BY <1>1
<1> QED BY <1>1, <1>2 DEF Rows

LEMMA RowsUnmoved ==
    ASSUME NEW s \in Runs, store' = store, query' = query, sourceIndex'[s] = sourceIndex[s]
    PROVE  \A j : Rows(s, j)' = Rows(s, j)
BY DEF Rows, Key, Source

LEMMA OthersUnmoved ==
    ASSUME TypeOK, [Next]_vars, NEW r \in Runs, RunStep(r) \/ Fail(r),
           NEW s \in Runs, s # r
    PROVE  Unmoved(s)
<1>1. /\ query' = query
      /\ phase'[s] = phase[s] /\ sourceIndex'[s] = sourceIndex[s]
      /\ reach'[s] = reach[s] /\ frontier'[s] = frontier[s] /\ next'[s] = next[s]
      /\ pending'[s] = pending[s]
      /\ k'[s] = k[s] /\ lastLevel'[s] = lastLevel[s] /\ reachNodes'[s] = reachNodes[s]
      /\ circuit'[s] = circuit[s] /\ answers'[s] = answers[s]
  <2>1. query' = query
    BY MeaningFrame
  <2>2. CASE StartSource(r)
    BY <2>1, <2>2 DEF StartSource, TypeOK
  <2>3. CASE ExpandBatch(r)
    BY <2>1, <2>3 DEF ExpandBatch, rounds, TypeOK
  <2>4. CASE SearchDone(r)
    BY <2>1, <2>4 DEF SearchDone, rounds, TypeOK
  <2>5. CASE BaseBatch(r)
    BY <2>1, <2>5 DEF BaseBatch, RunFeed, TypeOK
  <2>6. CASE Seed(r)
    BY <2>1, <2>6 DEF Seed, RunFeed, search, TypeOK
  <2>7. CASE RoundStep(r)
    BY <2>1, <2>7 DEF RoundStep, RunFeed, search, TypeOK
  <2>8. CASE RoundsOver(r)
    BY <2>1, <2>8 DEF RoundsOver, search, rounds, TypeOK
  <2>9. CASE Finish(r)
    BY <2>1, <2>9 DEF Finish, search, rounds, TypeOK
  <2>10. CASE SourcesDone(r)
    BY <2>1, <2>10 DEF SourcesDone, search, rounds, TypeOK
  <2>11. CASE Fail(r)
    BY <2>1, <2>11 DEF Fail, search, rounds, TypeOK
  <2> QED BY <2>2, <2>3, <2>4, <2>5, <2>6, <2>7, <2>8, <2>9, <2>10, <2>11 DEF RunStep
<1>2. \/ store' = store
      \/ \E l, gates : store' = store \cup {<<Key(r, l), g>> : g \in gates}
  <2>1. CASE store' = store
    BY <2>1
  <2>2. ASSUME NEW l, NEW new, RunFeed(r, l, new)
        PROVE  \E j, gates : store' = store \cup {<<Key(r, j), g>> : g \in gates}
    BY <2>2 DEF RunFeed
  <2>3. CASE BaseBatch(r) \/ Seed(r) \/ RoundStep(r)
    BY <2>2, <2>3 DEF BaseBatch, Seed, RoundStep
  <2>4. CASE Fail(r)
    BY <2>4 DEF Fail
  <2>5. store' = store \/ BaseBatch(r) \/ Seed(r) \/ RoundStep(r) \/ Fail(r)
    BY DEF RunStep, StartSource, ExpandBatch, SearchDone, RoundsOver, Finish, SourcesDone
  <2> QED BY <2>1, <2>3, <2>4, <2>5
<1>3. \A j : Rows(s, j)' = Rows(s, j)
  <2>1. CASE store' = store
    BY <1>1, <2>1, RowsUnmoved
  <2>2. ASSUME NEW l, NEW gates, store' = store \cup {<<Key(r, l), g>> : g \in gates}
        PROVE  \A j : Rows(s, j)' = Rows(s, j)
    BY <1>1, <2>2, RowsOfOthers
  <2> QED BY <1>2, <2>1, <2>2
<1> QED BY <1>1, <1>3 DEF Unmoved

-----------------------------------------------------------------------------
(* One lemma per action: the run that moves keeps its invariant              *)

LEMMA StartSourceKeeps ==
    ASSUME TypeOK, [Next]_vars, NEW r \in Runs, CompleteAt(r), StartSource(r)
    PROVE  CompleteAt(r)'
<1>1. /\ phase[r] = "start" /\ phase'[r] = "search" /\ sourceIndex'[r] = sourceIndex[r]
      /\ reach'[r] = StartNodes(r) /\ frontier'[r] = StartNodes(r) /\ next'[r] = {}
      /\ k'[r] = 0 /\ lastLevel'[r] = 0 /\ reachNodes'[r] = {} /\ answers'[r] = answers[r]
  BY DEF StartSource, TypeOK
<1>2. Source(r)' = Source(r) /\ Bound(r)' = Bound(r)
  BY <1>1, StaticFrame
<1>3. SearchInv(r)'
  BY <1>1, <1>2 DEF SearchInv, StartNodes
<1>4. BaseInv(r)'
  BY <1>1 DEF BaseInv
<1>5. LevelInv(r)'
  BY <1>1 DEF LevelInv
<1>6. FinishedInv(r)'
  BY <1>1, FinishedFrame DEF CompleteAt
<1> QED BY <1>3, <1>4, <1>5, <1>6 DEF CompleteAt

LEMMA ExpandBatchKeeps ==
    ASSUME TypeOK, [Next]_vars, NEW r \in Runs, CompleteAt(r), ExpandBatch(r)
    PROVE  CompleteAt(r)'
<1>1. /\ phase[r] = "search" /\ phase'[r] = "search" /\ sourceIndex'[r] = sourceIndex[r]
      /\ k'[r] = k[r] /\ lastLevel'[r] = lastLevel[r] /\ reachNodes'[r] = reachNodes[r]
      /\ answers'[r] = answers[r]
  BY DEF ExpandBatch, rounds, TypeOK
<1>2. PICK B \in SUBSET frontier[r] :
        /\ reach'[r] = reach[r] \cup NewTargets(r, B)
        /\ B = frontier[r] => /\ frontier'[r] = next[r] \cup NewTargets(r, B)
                              /\ next'[r] = {}
        /\ B # frontier[r] => /\ frontier'[r] = frontier[r] \ B
                              /\ next'[r] = next[r] \cup NewTargets(r, B)
  <2>1. PICK B \in SUBSET frontier[r] :
        /\ reach' = [reach EXCEPT ![r] = @ \cup NewTargets(r, B)]
        /\ IF B = frontier[r]
             THEN /\ frontier' = [frontier EXCEPT ![r] = next[r] \cup NewTargets(r, B)]
                  /\ next' = [next EXCEPT ![r] = {}]
             ELSE /\ frontier' = [frontier EXCEPT ![r] = @ \ B]
                  /\ next' = [next EXCEPT ![r] = @ \cup NewTargets(r, B)]
    BY DEF ExpandBatch
  <2>2. /\ reach \in [Runs -> SUBSET Nodes] /\ frontier \in [Runs -> SUBSET Nodes]
        /\ next \in [Runs -> SUBSET Nodes]
    BY DEF TypeOK
  <2>3. reach'[r] = reach[r] \cup NewTargets(r, B)
    BY <2>1, <2>2
  <2>4. B = frontier[r] => frontier'[r] = next[r] \cup NewTargets(r, B) /\ next'[r] = {}
    BY <2>1, <2>2
  <2>5. B # frontier[r] => /\ frontier'[r] = frontier[r] \ B
                           /\ next'[r] = next[r] \cup NewTargets(r, B)
    BY <2>1, <2>2
  <2> QED BY <2>3, <2>4, <2>5
<1>3. /\ Source(r)' = Source(r) /\ Bound(r)' = Bound(r) /\ Hops(r)' = Hops(r)
      /\ ActiveNodes' = ActiveNodes
  BY <1>1, StaticFrame, MeaningFrame
<1>4. NewTargets(r, B) \subseteq ActiveNodes
  BY HopActive DEF NewTargets
<1>5. SearchInv(r)'
  <2>1. /\ Bound(r) => Source(r) \in reach[r] /\ reach[r] \subseteq {Source(r)} \cup ActiveNodes
        /\ \A h \in Hops(r) : h[1] \in reach[r] \ (frontier[r] \cup next[r]) => h[2] \in reach[r]
    BY <1>1 DEF CompleteAt, SearchInv, Working
  <2>2. ASSUME NEW h \in Hops(r), h[1] \in reach'[r] \ (frontier'[r] \cup next'[r])
        PROVE  h[2] \in reach'[r]
    <3>1. h[1] \notin NewTargets(r, B) /\ h[1] \in reach[r] /\ h[1] \notin next[r]
      BY <1>2, <2>2
    <3>2. CASE h[1] \in B
      BY <1>2, <3>2 DEF NewTargets
    <3>3. CASE h[1] \notin B
      <4>1. h[1] \notin frontier[r]
        BY <1>2, <2>2, <3>3
      <4> QED BY <1>2, <2>1, <3>1, <4>1
    <3> QED BY <3>2, <3>3
  <2>3. Bound(r) => Source(r) \in reach'[r] /\ reach'[r] \subseteq {Source(r)} \cup ActiveNodes
    BY <1>2, <1>4, <2>1
  <2>4. frontier'[r] = {} => next'[r] = {}
    BY <1>2
  <2> QED BY <1>1, <1>3, <2>2, <2>3, <2>4 DEF SearchInv
<1>6. BaseInv(r)'
  BY <1>1 DEF BaseInv
<1>7. LevelInv(r)'
  BY <1>1, <1>3 DEF LevelInv, CompleteAt, Working
<1>8. FinishedInv(r)'
  BY <1>1, FinishedFrame DEF CompleteAt
<1> QED BY <1>5, <1>6, <1>7, <1>8 DEF CompleteAt

LEMMA SearchDoneKeeps ==
    ASSUME TypeOK, [Next]_vars, NEW r \in Runs, CompleteAt(r), SearchDone(r)
    PROVE  CompleteAt(r)'
<1>1. /\ phase[r] = "search" /\ phase'[r] = "base" /\ sourceIndex'[r] = sourceIndex[r]
      /\ reach'[r] = reach[r] /\ frontier'[r] = frontier[r] /\ next'[r] = next[r]
      /\ frontier[r] = {} /\ pending'[r] = Scope(r)
      /\ k'[r] = k[r] /\ lastLevel'[r] = lastLevel[r] /\ reachNodes'[r] = reachNodes[r]
      /\ answers'[r] = answers[r]
  BY DEF SearchDone, rounds, TypeOK, Scope
<1>2. /\ Source(r)' = Source(r) /\ Bound(r)' = Bound(r) /\ Hops(r)' = Hops(r)
      /\ ActiveNodes' = ActiveNodes
  BY <1>1, StaticFrame, MeaningFrame
<1>3. SearchInv(r)'
  BY <1>1, <1>2 DEF CompleteAt, SearchInv, Working
<1>4. BaseInv(r)'
  <2>1. Scope(r)' = Scope(r)
    BY <1>1, <1>2 DEF Scope
  <2> QED BY <1>1, <2>1 DEF BaseInv
<1>5. LevelInv(r)'
  BY <1>1, <1>2 DEF LevelInv, CompleteAt, Working
<1>6. FinishedInv(r)'
  BY <1>1, FinishedFrame DEF CompleteAt
<1> QED BY <1>3, <1>4, <1>5, <1>6 DEF CompleteAt

LEMMA BaseBatchKeeps ==
    ASSUME TypeOK, [Next]_vars, NEW r \in Runs, CompleteAt(r), BaseBatch(r)
    PROVE  CompleteAt(r)'
<1>1. PICK B \in SUBSET pending[r] :
        /\ RunFeed(r, Base, BaseGates(r, B))
        /\ pending' = [pending EXCEPT ![r] = @ \ B]
        /\ phase' = [phase EXCEPT ![r] = IF pending[r] = B THEN "seed" ELSE "base"]
  BY DEF BaseBatch
<1>2. /\ phase[r] = "base" /\ phase'[r] \in {"base", "seed"}
      /\ phase'[r] = "seed" => pending'[r] = {}
      /\ pending'[r] = pending[r] \ B
      /\ query' = query /\ sourceIndex' = sourceIndex
      /\ reach'[r] = reach[r] /\ frontier'[r] = frontier[r] /\ next'[r] = next[r]
      /\ k'[r] = k[r] /\ lastLevel'[r] = lastLevel[r] /\ answers'[r] = answers[r]
  BY <1>1 DEF BaseBatch, TypeOK
<1>3. reachNodes'[r] = reachNodes[r]
  BY <1>1 DEF RunFeed, EndPoints, TypeOK
<1>4. /\ Source(r)' = Source(r) /\ Bound(r)' = Bound(r) /\ Hops(r)' = Hops(r)
      /\ ActiveNodes' = ActiveNodes /\ Scope(r)' = Scope(r)
  BY <1>2, StaticFrame, MeaningFrame DEF Scope
<1>5. SearchInv(r)'
  BY <1>2, <1>4 DEF CompleteAt, SearchInv, Working
<1>6. BaseInv(r)'
  <2>1. ASSUME NEW h \in Hops(r), h[1] \in Scope(r) \ pending'[r]
        PROVE  Derives(r, Base, h[1], h[2], h[3])'
    <3>1. h[1] \in Nodes /\ h[2] \in Nodes /\ Base \in Int
      BY HopType DEF Base
    <3>2. CASE h[1] \in B
      <4>1. <<GateOf(Base, h[1], h[2]), h[3]>> \in BaseGates(r, B)
        BY <3>2 DEF BaseGates
      <4> QED BY <1>1, <1>2, <3>1, <4>1, FeedDerives
    <3>3. CASE h[1] \notin pending[r]
      <4>1. Derives(r, Base, h[1], h[2], h[3])
        BY <1>2, <2>1, <3>3 DEF CompleteAt, BaseInv, Working
      <4>2. \A e \in BaseGates(r, B) : e[1][1][1] = Base
        BY EmissionType
      <4> QED BY <1>1, <1>2, <3>1, <4>1, <4>2, FeedFrame
    <3> QED BY <1>2, <2>1, <3>2, <3>3
  <2> QED BY <1>2, <1>4, <2>1 DEF BaseInv, Base
<1>7. LevelInv(r)'
  BY <1>2, <1>3, <1>4 DEF LevelInv, CompleteAt, Working
<1>8. FinishedInv(r)'
  BY <1>2, FinishedFrame DEF CompleteAt
<1> QED BY <1>5, <1>6, <1>7, <1>8 DEF CompleteAt

\* The end points of level gates are nodes that facts mention.
LEMMA FeedActive ==
    ASSUME TypeOK, NEW r \in Runs, reachNodes[r] \subseteq ActiveNodes,
           NEW l \in Nat, NEW new, RunFeed(r, l, new),
           \A e \in new : e \in Gate \X SUBSET data /\ e[1][1][1] = l /\ Justified(r, e)
    PROVE  reachNodes'[r] \subseteq ActiveNodes
<1>1. ASSUME NEW e \in new PROVE From(e[1]) \in ActiveNodes /\ To(e[1]) \in ActiveNodes
  <2>1. /\ e[1] \in Gate /\ e[2] \in SUBSET data /\ e[1][1][1] = l /\ l # Base
        /\ Justified(r, e)
    BY DEF Base
  <2>2. Holds(r, e[2], From(e[1]), To(e[1]))
    BY <2>1 DEF Justified
  <2> QED BY <2>1, <2>2, GateParts, HoldsActive
<1>2. EndPoints(l, GatesOf(new)) \subseteq ActiveNodes
  BY <1>1 DEF EndPoints, GatesOf
<1> QED BY <1>2 DEF RunFeed, TypeOK

\* After a feed, too, what is told can be reached.
LEMMA FeedSound ==
    ASSUME TypeOK, PathInv, NEW r \in Runs, NEW l, NEW new, RunFeed(r, l, new),
           \A e \in new : Justified(r, e),
           NEW j \in Nat, NEW u \in Nodes, NEW v \in Nodes, NEW W, Told(r, j, u, v, W)'
    PROVE  Holds(r, W, u, v)
<1>1. PICK d \in SUBSET W : Derives(r, j, u, v, d)'
  BY DEF Told
<1>2. PICK e \in circuit'[r] : e[1] = GateOf(j, u, v) /\ e[2] = d
  BY <1>1 DEF Derives, Lineages
<1>3. Justified(r, e)
  BY <1>2 DEF RunFeed, PathInv, CircuitJustified, TypeOK
<1>4. Holds(r, d, u, v)
  BY <1>2, <1>3, GateBuilt DEF Justified, Base
<1> QED BY <1>4, HoldsMonotone

LEMMA FeedTold ==
    ASSUME TypeOK, NEW r \in Runs, NEW l \in Int, NEW new, RunFeed(r, l, new),
           query' = query, sourceIndex' = sourceIndex,
           \A e \in new : e[1][1][1] = l,
           NEW j \in Int, NEW u \in Nodes, NEW v \in Nodes, NEW W
    PROVE  /\ Told(r, j, u, v, W) => Told(r, j, u, v, W)'
           /\ j # l /\ Told(r, j, u, v, W)' => Told(r, j, u, v, W)
<1>1. \A d : /\ Derives(r, j, u, v, d) => Derives(r, j, u, v, d)'
             /\ j # l /\ Derives(r, j, u, v, d)' => Derives(r, j, u, v, d)
  BY FeedFrame
<1> QED BY <1>1 DEF Told

\* The hops of a node of the scope are in the base relation.
LEMMA BaseTold ==
    ASSUME TypeOK, NEW r \in Runs, BaseInv(r), phase[r] \in {"seed", "round", "finish"},
           NEW h \in Hops(r), h[1] \in Scope(r)
    PROVE  Derives(r, Base, h[1], h[2], h[3])
<1>1. pending[r] = {}
  BY DEF BaseInv, Working
<1> QED BY <1>1 DEF BaseInv, Working

\* What level k and the base relation derive together is emitted in the round ...
LEMMA ComposedHas ==
    ASSUME TypeOK, NEW r \in Runs, NEW n, n = k[r], NEW u \in Nodes, NEW v \in Nodes,
           NEW w \in Nodes, NEW d, NEW e, Derives(r, n, u, v, d), Derives(r, Base, v, w, e)
    PROVE  <<GateOf(n + 1, u, w), d \cup e>> \in NextLevel(r)
<1> DEFINE g == GateOf(n, u, v)
           b == GateOf(Base, v, w)
           p == <<g, b>>
<1>1. /\ g \in Rows(r, k[r]) /\ d \in Lineages(r, g)
      /\ b \in Rows(r, Base) /\ e \in Lineages(r, b)
  BY DEF Derives
<1>2. From(g) = u /\ To(g) = v /\ From(b) = v /\ To(b) = w
  BY GateBuilt DEF Base, TypeOK
<1>3. p \in {x \in Rows(r, k[r]) \X Rows(r, Base) : Joins(x[1], x[2])}
  <2> HIDE DEF g, b
  <2> QED BY <1>1, <1>2 DEF Joins
<1>4. <<GateOf(n + 1, u, w), d \cup e>> \in
         {<<GateOf(k[r] + 1, From(p[1]), To(p[2])), x \cup y>> :
             x \in Lineages(r, p[1]), y \in Lineages(r, p[2])}
  <2>1. p[1] = g /\ p[2] = b
    OBVIOUS
  <2> HIDE DEF p, g, b
  <2> QED BY <1>1, <1>2, <2>1
<1> HIDE DEF p, g, b
<1> QED BY <1>3, <1>4 DEF NextLevel, Composed

\* ... and by the cumulative form what level k derives alone.
LEMMA CarriedHas ==
    ASSUME TypeOK, NEW r \in Runs, NEW n, n = k[r], NEW u \in Nodes, NEW v \in Nodes, NEW d,
           Derives(r, n, u, v, d), ~query[r].exact
    PROVE  <<GateOf(n + 1, u, v), d>> \in NextLevel(r)
<1> DEFINE g == GateOf(n, u, v)
<1>1. g \in Rows(r, k[r]) /\ d \in Lineages(r, g)
  BY DEF Derives
<1>2. From(g) = u /\ To(g) = v
  BY GateBuilt DEF TypeOK
<1> HIDE DEF g
<1> QED BY <1>1, <1>2 DEF NextLevel, Carried

LEMMA SeedKeeps ==
    ASSUME TypeOK, PathInv, [Next]_vars, NEW r \in Runs, CompleteAt(r), Seed(r)
    PROVE  CompleteAt(r)'
<1>1. /\ phase[r] = "seed" /\ phase'[r] = "round" /\ RunFeed(r, 0, Level0(r))
      /\ query' = query /\ sourceIndex' = sourceIndex
      /\ reach'[r] = reach[r] /\ frontier'[r] = frontier[r] /\ next'[r] = next[r]
      /\ pending'[r] = pending[r]
      /\ k'[r] = k[r] /\ lastLevel'[r] = lastLevel[r] /\ answers'[r] = answers[r]
  BY DEF Seed, search, TypeOK
<1>2. /\ Source(r)' = Source(r) /\ Bound(r)' = Bound(r) /\ Hops(r)' = Hops(r)
      /\ ActiveNodes' = ActiveNodes /\ Scope(r)' = Scope(r) /\ data' = data
      /\ \A u : FromSource(r, u)' = FromSource(r, u)
  BY <1>1, StaticFrame, MeaningFrame DEF Scope
<1>3. k[r] = 0 /\ lastLevel[r] = 0 /\ reachNodes[r] \subseteq ActiveNodes
  BY <1>1 DEF CompleteAt, LevelInv, Working
<1>4. \A e \in Level0(r) : e \in Gate \X SUBSET data /\ e[1][1][1] = 0 /\ Justified(r, e)
  BY EmissionType, EmissionJustified
<1>5. reachNodes'[r] \subseteq ActiveNodes
  BY <1>1, <1>3, <1>4, FeedActive
<1>6. SearchInv(r)'
  BY <1>1, <1>2 DEF CompleteAt, SearchInv, Working
<1>7. BaseInv(r)'
  <2>1. ASSUME NEW h \in Hops(r), h[1] \in Scope(r)
        PROVE  Derives(r, Base, h[1], h[2], h[3])'
    <3>1. Derives(r, Base, h[1], h[2], h[3])
      BY <1>1, <2>1, BaseTold DEF CompleteAt
    <3> QED BY <1>1, <1>4, <3>1, HopType, FeedFrame DEF Base
  <2>2. pending'[r] = {}
    BY <1>1 DEF CompleteAt, BaseInv, Working
  <2> QED BY <1>1, <1>2, <2>1, <2>2 DEF BaseInv, Base
<1>8. ASSUME NEW W \in SUBSET data, NEW u \in Nodes, FromSource(r, u)
      PROVE  LevelAt(r, W, u, 0)'
  <2>1. ASSUME NEW h \in Hops(r), h[3] \subseteq W, h[1] = u
        PROVE  Told(r, 0, u, h[2], W)' /\ u \in reachNodes'[r] /\ h[2] \in reachNodes'[r]
    <3>1. u \in Scope(r) /\ h[2] \in Nodes
      BY <1>1, <1>8, SourceInScope, HopType DEF CompleteAt, Working
    <3>2. Derives(r, Base, u, h[2], h[3])
      BY <1>1, <2>1, <3>1, BaseTold DEF CompleteAt
    <3>3. <<GateOf(0, u, h[2]), h[3]>> \in SeedGates(r)
      <4> DEFINE g == GateOf(Base, u, h[2])
      <4>1. g \in Rows(r, Base) /\ h[3] \in Lineages(r, g)
        BY <3>2 DEF Derives
      <4>2. From(g) = u /\ To(g) = h[2]
        BY <3>1, GateBuilt DEF Base
      <4>3. FromSource(r, From(g))
        BY <1>8, <4>2
      <4> HIDE DEF g
      <4> QED BY <4>1, <4>2, <4>3 DEF SeedGates
    <3>4. <<GateOf(0, u, h[2]), h[3]>> \in Level0(r)
      BY <3>3 DEF Level0
    <3>5. Derives(r, 0, u, h[2], h[3])' /\ u \in reachNodes'[r] /\ h[2] \in reachNodes'[r]
      BY <1>1, <3>1, <3>4, FeedDerives DEF Base
    <3> QED BY <2>1, <3>5 DEF Told
  <2>2. FirstHop(r, W, u)'
    BY <1>2, <2>1 DEF FirstHop
  <2>3. NextHop(r, W, u, 0)'
    BY DEF NextHop
  <2>4. ZeroHop(r, W, u)'
    <3> SUFFICES ASSUME query[r].star, NEW f \in W, Mentions(f, u)
                 PROVE  Told(r, 0, u, u, W)'
      BY <1>1 DEF ZeroHop
    <3>1. <<GateOf(0, u, u), {f}>> \in ZeroLengthGates(r)
      BY <1>8 DEF ZeroLengthGates, Mentions
    <3>2. <<GateOf(0, u, u), {f}>> \in Level0(r)
      BY <3>1 DEF Level0
    <3> DEFINE e == {f}
    <3>3. e \in SUBSET W /\ <<GateOf(0, u, u), e>> \in Level0(r)
      BY <3>2
    <3> HIDE DEF e
    <3>4. Derives(r, 0, u, u, e)'
      BY <1>1, <3>3, FeedDerives
    <3> QED BY <3>3, <3>4 DEF Told
  <2>5. CarriedOn(r, W, u, 0)'
    BY DEF CarriedOn
  <2>6. Progress(r, W, u, 0)'
    <3> DEFINE New == Ball(r, W, u, 0)'
    <3>1. \A v : v \in New <=> /\ v \in reachNodes'[r] /\ u \in reachNodes'[r]
                               /\ \E l \in 0..0 : Told(r, l, u, v, W)'
      BY DEF Ball
    <3>2. IsFiniteSet(New)
      <4>1. New \subseteq ActiveNodes
        BY <1>5, <3>1
      <4> QED BY <4>1, ActiveNodesFinite, FS_Subset
    <3> HIDE DEF New
    <3> DEFINE Old == {}
    <3>3. Leads(Hops(r), W, {u} \cup Old, New)
      BY <2>1, <3>1 DEF Leads
    <3>4. Old \subseteq New /\ Cardinality({u} \cup Old) >= 0 + 1
      <4>1. {u} \cup Old = {u} /\ Cardinality({u}) = 1
        BY FS_Singleton
      <4> QED BY <4>1
    <3> HIDE DEF Old
    <3>5. Leads(Hops(r), W, {u} \cup New, New) \/ Cardinality({u} \cup New) >= 0 + 2
      BY <3>2, <3>3, <3>4, ClosedOrMore
    <3>6. Leads(Hops(r), W, {u} \cup New, New) => Closed(r, W, u, 0)'
      BY <1>2 DEF Closed, New, Leads
    <3> QED BY <3>5, <3>6 DEF Progress, New
  <2> QED BY <2>2, <2>3, <2>4, <2>5, <2>6 DEF LevelAt
<1>9. LevelInv(r)'
  <2>1. ASSUME NEW W \in SUBSET data, NEW u \in Nodes, NEW n \in Nat, FromSource(r, u), n = 0
        PROVE  LevelAt(r, W, u, n)'
    BY <1>8, <2>1
  <2> QED BY <1>1, <1>2, <1>3, <1>5, <2>1 DEF LevelInv
<1>10. FinishedInv(r)'
  BY <1>1, FinishedFrame DEF CompleteAt
<1> QED BY <1>6, <1>7, <1>9, <1>10 DEF CompleteAt

LEMMA RoundStepKeeps ==
    ASSUME TypeOK, PathInv, [Next]_vars, NEW r \in Runs, CompleteAt(r), RoundStep(r)
    PROVE  CompleteAt(r)'
<1>m. PICK n \in Nat : n = k[r]
  BY DEF TypeOK
<1>1. /\ phase[r] = "round" /\ phase'[r] \in {"round", "finish"}
      /\ phase'[r] = "finish" => EnoughRounds(n + 1, reachNodes'[r])
      /\ RunFeed(r, n + 1, NextLevel(r))
      /\ query' = query /\ sourceIndex' = sourceIndex
      /\ reach'[r] = reach[r] /\ frontier'[r] = frontier[r] /\ next'[r] = next[r]
      /\ pending'[r] = pending[r]
      /\ k'[r] = n + 1 /\ lastLevel'[r] = n + 1 /\ answers'[r] = answers[r]
  BY <1>m DEF RoundStep, search, TypeOK
<1>2. /\ Source(r)' = Source(r) /\ Bound(r)' = Bound(r) /\ Hops(r)' = Hops(r)
      /\ ActiveNodes' = ActiveNodes /\ Scope(r)' = Scope(r) /\ data' = data
      /\ \A u : FromSource(r, u)' = FromSource(r, u)
  BY <1>1, StaticFrame, MeaningFrame DEF Scope
<1>3. \A e \in NextLevel(r) : e \in Gate \X SUBSET data /\ e[1][1][1] = n + 1 /\ Justified(r, e)
  BY <1>m, EmissionType, EmissionJustified
<1>4. reachNodes'[r] \subseteq ActiveNodes
  BY <1>1, <1>3, FeedActive DEF CompleteAt, LevelInv, Working
<1>5. SearchInv(r)'
  BY <1>1, <1>2 DEF CompleteAt, SearchInv, Working
<1>6. BaseInv(r)'
  <2>1. ASSUME NEW h \in Hops(r), h[1] \in Scope(r)
        PROVE  Derives(r, Base, h[1], h[2], h[3])'
    <3>1. Derives(r, Base, h[1], h[2], h[3])
      BY <1>1, <2>1, BaseTold DEF CompleteAt
    <3>2. n + 1 \in Int /\ Base \in Int /\ h[1] \in Nodes /\ h[2] \in Nodes
      BY HopType DEF Base
    <3> QED BY <1>1, <1>3, <3>1, <3>2, FeedFrame
  <2>2. pending'[r] = {}
    BY <1>1 DEF CompleteAt, BaseInv, Working
  <2> QED BY <1>1, <1>2, <2>1, <2>2 DEF BaseInv, Base
<1>7. reachNodes[r] \subseteq reachNodes'[r]
  BY <1>1 DEF RunFeed, TypeOK
<1>8. ASSUME NEW l \in 0..n, NEW u \in Nodes, NEW v \in Nodes, NEW W
      PROVE  Told(r, l, u, v, W)' <=> Told(r, l, u, v, W)
  <2>1. l \in Int /\ n + 1 \in Int /\ l # n + 1
    OBVIOUS
  <2> QED BY <1>1, <1>3, <2>1, FeedTold
<1>9. ASSUME NEW W \in SUBSET data, NEW u \in Nodes, FromSource(r, u)
      PROVE  LevelAt(r, W, u, n + 1)'
  <2>1. LevelAt(r, W, u, n)
    BY <1>m, <1>1, <1>9 DEF CompleteAt, LevelInv
  <2>2. ASSUME NEW l \in 0..n, NEW h \in Hops(r), h[3] \subseteq W, Told(r, l, u, h[1], W)
        PROVE  Told(r, l + 1, u, h[2], W)' /\ u \in reachNodes'[r] /\ h[2] \in reachNodes'[r]
    <3>1. h[1] \in Nodes /\ h[2] \in Nodes /\ l \in Nat
      BY HopType
    <3>2. CASE l # n
      <4>1. l \in 0..(n - 1) /\ l + 1 \in 0..n
        BY <3>2
      <4>2. Told(r, l + 1, u, h[2], W) /\ u \in reachNodes[r] /\ h[2] \in reachNodes[r]
        BY <2>1, <2>2, <4>1 DEF LevelAt, NextHop
      <4> QED BY <1>7, <1>8, <3>1, <4>1, <4>2
    <3>3. CASE l = n
      <4>1. Holds(r, W, u, h[1])
        BY <2>2, <3>1, ToldSound
      <4>2. h[1] \in Scope(r)
        BY <1>1, <1>9, <3>1, <4>1, ScopeKeeps DEF CompleteAt, Working
      <4>3. Derives(r, Base, h[1], h[2], h[3])
        BY <1>1, <4>2, BaseTold DEF CompleteAt
      <4>4. PICK d \in SUBSET W : Derives(r, n, u, h[1], d)
        BY <2>2, <3>3 DEF Told
      <4>5. <<GateOf(n + 1, u, h[2]), d \cup h[3]>> \in NextLevel(r)
        BY <1>m, <3>1, <4>3, <4>4, ComposedHas
      <4>6. /\ Derives(r, n + 1, u, h[2], d \cup h[3])'
            /\ u \in reachNodes'[r] /\ h[2] \in reachNodes'[r]
        <5> DEFINE e == d \cup h[3]
        <5> HIDE DEF e
        <5>1. <<GateOf(n + 1, u, h[2]), e>> \in NextLevel(r)
          BY <4>5 DEF e
        <5>2. Derives(r, n + 1, u, h[2], e)' /\ u \in reachNodes'[r] /\ h[2] \in reachNodes'[r]
          BY <1>1, <3>1, <5>1, FeedDerives DEF Base
        <5> QED BY <5>2 DEF e
      <4>7. d \cup h[3] \in SUBSET W
        BY <2>2
      <4> QED BY <3>3, <4>6, <4>7 DEF Told
    <3> QED BY <3>2, <3>3
  <2>3. ASSUME NEW h \in Hops(r), h[3] \subseteq W, h[1] = u
        PROVE  Told(r, 0, u, h[2], W)' /\ u \in reachNodes'[r] /\ h[2] \in reachNodes'[r]
    <3>1. Told(r, 0, u, h[2], W) /\ u \in reachNodes[r] /\ h[2] \in reachNodes[r]
      BY <2>1, <2>3 DEF LevelAt, FirstHop
    <3> QED BY <1>7, <1>8, <3>1, HopType
  <2>4. FirstHop(r, W, u)'
    BY <1>2, <2>3 DEF FirstHop
  <2>5. NextHop(r, W, u, n + 1)'
    <3>1. ASSUME NEW l \in 0..((n + 1) - 1), NEW h \in Hops(r), h[3] \subseteq W,
                 Told(r, l, u, h[1], W)'
          PROVE  /\ Told(r, l + 1, u, h[2], W)'
                 /\ u \in reachNodes'[r] /\ h[2] \in reachNodes'[r]
      <4>1. l \in 0..n
        OBVIOUS
      <4>2. Told(r, l, u, h[1], W)
        BY <1>8, <3>1, <4>1, HopType
      <4> QED BY <2>2, <3>1, <4>1, <4>2
    <3> QED BY <1>2, <3>1 DEF NextHop
  <2>6. ZeroHop(r, W, u)'
    BY <1>1, <1>8, <2>1 DEF LevelAt, ZeroHop
  <2>7. CarriedOn(r, W, u, n + 1)'
    <3>1. ASSUME ~query[r].exact, NEW l \in 0..(n + 1), NEW v \in Nodes, Told(r, l, u, v, W)'
          PROVE  Told(r, n + 1, u, v, W)'
      <4>1. CASE l = n + 1
        BY <3>1, <4>1
      <4>2. CASE l # n + 1
        <5>1. l \in 0..n
          BY <4>2
        <5>2. Told(r, n, u, v, W)
          BY <1>8, <2>1, <3>1, <5>1 DEF LevelAt, CarriedOn
        <5>3. PICK d \in SUBSET W : Derives(r, n, u, v, d)
          BY <5>2 DEF Told
        <5>4. <<GateOf(n + 1, u, v), d>> \in NextLevel(r)
          BY <1>m, <3>1, <5>3, CarriedHas
        <5>5. Derives(r, n + 1, u, v, d)'
          BY <1>1, <5>4, FeedDerives
        <5> QED BY <5>5 DEF Told
      <4> QED BY <4>1, <4>2
    <3> QED BY <1>1, <3>1 DEF CarriedOn
  <2>8. Progress(r, W, u, n + 1)'
    <3> DEFINE Old == Ball(r, W, u, n)
               New == Ball(r, W, u, n + 1)'
    <3>1. \A v : v \in New <=> /\ v \in reachNodes'[r] /\ u \in reachNodes'[r]
                               /\ \E l \in 0..(n + 1) : Told(r, l, u, v, W)'
      BY DEF Ball
    <3>2. \A v \in Old : /\ v \in Nodes /\ v \in reachNodes[r] /\ u \in reachNodes[r]
                         /\ \E l \in 0..n : Told(r, l, u, v, W)
      BY DEF Ball, TypeOK
    <3>3. IsFiniteSet(New) /\ New \subseteq Nodes
      <4>1. New \subseteq ActiveNodes
        BY <1>4, <3>1
      <4> QED BY <4>1, ActiveNodesFinite, FS_Subset DEF ActiveNodes
    <3> HIDE DEF New, Old
    <3>4. Old \subseteq New
      <4> SUFFICES ASSUME NEW v \in Old PROVE v \in New
        OBVIOUS
      <4>1. PICK l \in 0..n : Told(r, l, u, v, W)
        BY <3>2
      <4>2. l \in 0..(n + 1) /\ Told(r, l, u, v, W)'
        BY <1>8, <3>2, <4>1
      <4> QED BY <1>7, <3>1, <3>2, <4>2
    <3>5. Leads(Hops(r), W, {u} \cup Old, New)
      <4> SUFFICES ASSUME NEW h \in Hops(r), h[3] \subseteq W, h[1] \in {u} \cup Old
                   PROVE  h[2] \in New
        BY DEF Leads
      <4>1. CASE h[1] = u
        <5>1. 0 \in 0..(n + 1)
          OBVIOUS
        <5> QED BY <2>3, <3>1, <4>1, <5>1
      <4>2. CASE h[1] \in Old
        <5>1. PICK l \in 0..n : Told(r, l, u, h[1], W)
          BY <3>2, <4>2
        <5>2. l + 1 \in 0..(n + 1)
          OBVIOUS
        <5> QED BY <2>2, <3>1, <5>1, <5>2
      <4> QED BY <4>1, <4>2
    <3>6. ASSUME Closed(r, W, u, n)
          PROVE  Leads(Hops(r), W, {u} \cup New, New)
      <4>1. \A v \in New : v = u \/ v \in Old
        <5> SUFFICES ASSUME NEW v \in New PROVE v = u \/ v \in Old
          OBVIOUS
        <5>1. PICK l \in 0..(n + 1) : Told(r, l, u, v, W)'
          BY <3>1
        <5>2. Holds(r, W, u, v)
          BY <1>1, <1>3, <3>3, <5>1, FeedSound
        <5> QED BY <3>3, <3>6, <5>2, ClosedMeans DEF Holds, Old
      <4>2. Leads(Hops(r), W, {u} \cup New, New)
        BY <3>5, <4>1 DEF Leads
      <4> QED BY <4>2
    <3>7. ASSUME Cardinality({u} \cup Old) >= n + 2
          PROVE  Leads(Hops(r), W, {u} \cup New, New) \/ Cardinality({u} \cup New) >= (n + 1) + 2
      <4>1. n + 1 \in Nat /\ Cardinality({u} \cup Old) >= (n + 1) + 1
        BY <3>7
      <4> QED BY <3>3, <3>4, <3>5, <4>1, ClosedOrMore
    <3>8. Leads(Hops(r), W, {u} \cup New, New) \/ Cardinality({u} \cup New) >= (n + 1) + 2
      BY <2>1, <3>6, <3>7 DEF LevelAt, Progress, Old
    <3>9. Leads(Hops(r), W, {u} \cup New, New) => Closed(r, W, u, n + 1)'
      BY <1>2 DEF Closed, New, Leads
    <3> QED BY <3>8, <3>9 DEF Progress, New
  <2> QED BY <2>4, <2>5, <2>6, <2>7, <2>8 DEF LevelAt
<1>10. ASSUME NEW W \in SUBSET data, NEW u \in Nodes, FromSource(r, u),
              EnoughRounds(n + 1, reachNodes'[r])
       PROVE  Closed(r, W, u, n + 1)'
  <2> DEFINE S == reachNodes'[r]
             New == Ball(r, W, u, n + 1)'
  <2>1. IsFiniteSet(S)
    BY <1>4, ActiveNodesFinite, FS_Subset
  <2>2. n + 1 \in Nat /\ Cardinality(S) \in Nat /\ Cardinality(S) <= (n + 1) + 1
    <3>1. Cardinality(S) \in Nat
      BY <2>1, FS_CardinalityType
    <3> QED BY <1>10, <3>1 DEF EnoughRounds
  <2>3. New # {} => {u} \cup New \subseteq S
    BY DEF Ball
  <2>4. Closed(r, W, u, n + 1)' \/ Cardinality({u} \cup New) >= (n + 1) + 2
    BY <1>9, <1>10 DEF LevelAt, Progress
  <2> HIDE DEF S, New
  <2>5. ~(Cardinality({u} \cup New) >= (n + 1) + 2)
    BY <2>1, <2>2, <2>3, TooFew
  <2> QED BY <2>4, <2>5
<1>11. LevelInv(r)'
  <2>1. ASSUME NEW W \in SUBSET data, NEW u \in Nodes, NEW j \in Nat, FromSource(r, u), j = n + 1
        PROVE  /\ LevelAt(r, W, u, j)'
               /\ phase'[r] = "finish" => Closed(r, W, u, j)'
    BY <1>1, <1>9, <1>10, <2>1
  <2> QED BY <1>1, <1>2, <1>4, <2>1 DEF LevelInv
<1>12. FinishedInv(r)'
  BY <1>1, FinishedFrame DEF CompleteAt
<1> QED BY <1>5, <1>6, <1>11, <1>12 DEF CompleteAt

\* The rounds only end when nothing is left to find, in any world: the cap is the
\* number of nodes there are, and a last level without a hop has none to add.
LEMMA RoundsOverClosed ==
    ASSUME TypeOK, PathInv, NEW r \in Runs, CompleteAt(r), RoundsOver(r),
           NEW W \in SUBSET data, NEW u \in Nodes, NEW n \in Nat, FromSource(r, u), n = k[r]
    PROVE  Closed(r, W, u, n)
<1>1. phase[r] = "round" /\ (n < Cap(r) => NextLevel(r) = {})
  BY DEF RoundsOver
<1>2. LevelAt(r, W, u, n) /\ reachNodes[r] \subseteq ActiveNodes
  BY <1>1 DEF CompleteAt, LevelInv, Working
<1>3. CASE ~(n < Cap(r))
  <2> DEFINE S == IF Bound(r) THEN reach[r] ELSE ActiveNodes
             B == Ball(r, W, u, n)
  <2>1. IsFiniteSet(S)
    <3>1. CASE Bound(r)
      <4>1. reach[r] \subseteq {Source(r)} \cup ActiveNodes
        BY <1>1, <3>1 DEF CompleteAt, SearchInv, Working
      <4>2. IsFiniteSet({Source(r)} \cup ActiveNodes)
        BY ActiveNodesFinite, FS_Singleton, FS_Union
      <4> QED BY <3>1, <4>1, <4>2, FS_Subset
    <3>2. CASE ~Bound(r)
      BY <3>2, ActiveNodesFinite
    <3> QED BY <3>1, <3>2
  <2>2. Cardinality(S) <= n + 1
    <3>1. Cardinality(S) \in Nat
      BY <2>1, FS_CardinalityType
    <3>2. Cap(r) = AtLeastOne(Cardinality(S) - 1)
      BY DEF Cap
    <3> HIDE DEF S
    <3>3. Cap(r) \in Nat /\ Cap(r) >= Cardinality(S) - 1
      BY <3>1, <3>2 DEF AtLeastOne
    <3> QED BY <1>3, <3>1, <3>3
  <2>3. B # {} => {u} \cup B \subseteq S
    <3> SUFFICES ASSUME NEW v \in B PROVE u \in S /\ v \in S
      OBVIOUS
    <3>1. /\ v \in Nodes /\ u \in reachNodes[r] /\ v \in reachNodes[r]
          /\ Holds(r, W, u, v)
      BY BallSound
    <3>2. u \in Scope(r) /\ v \in Scope(r)
      BY <1>1, <3>1, ScopeKeeps DEF CompleteAt, Working
    <3> QED BY <1>2, <3>1, <3>2 DEF Scope
  <2> HIDE DEF S
  <2>4. ~(Cardinality({u} \cup B) >= n + 2)
    <3> HIDE DEF B
    <3> QED BY <2>1, <2>2, <2>3, TooFew
  <2> QED BY <1>2, <2>4 DEF LevelAt, Progress
<1>4. CASE NextLevel(r) = {}
  <2> SUFFICES ASSUME NEW h \in Hops(r), h[3] \subseteq W,
                      h[1] \in {u} \cup Ball(r, W, u, n)
               PROVE  h[2] \in Ball(r, W, u, n)
    BY DEF Closed, Leads
  <2>1. h[1] \in Nodes /\ h[2] \in Nodes
    BY HopType
  <2>2. CASE h[1] = u
    <3>1. Told(r, 0, u, h[2], W) /\ u \in reachNodes[r] /\ h[2] \in reachNodes[r]
      BY <1>2, <2>2 DEF LevelAt, FirstHop
    <3>2. 0 \in 0..n
      OBVIOUS
    <3> QED BY <3>1, <3>2 DEF Ball
  <2>3. CASE h[1] \in Ball(r, W, u, n)
    <3>1. PICK l \in 0..n : Told(r, l, u, h[1], W)
      BY <2>3 DEF Ball
    <3>2. CASE l # n
      <4>1. l \in 0..(n - 1) /\ l + 1 \in 0..n
        BY <3>2
      <4>2. Told(r, l + 1, u, h[2], W) /\ u \in reachNodes[r] /\ h[2] \in reachNodes[r]
        BY <1>2, <3>1, <4>1 DEF LevelAt, NextHop
      <4> QED BY <4>1, <4>2 DEF Ball
    <3>3. CASE l = n
      <4>1. h[1] \in Scope(r)
        BY <1>1, <2>1, <2>3, BallSound, ScopeKeeps DEF CompleteAt, Working
      <4>2. Derives(r, Base, h[1], h[2], h[3])
        BY <1>1, <4>1, BaseTold DEF CompleteAt
      <4>3. PICK d \in SUBSET W : Derives(r, n, u, h[1], d)
        BY <3>1, <3>3 DEF Told
      <4>4. <<GateOf(n + 1, u, h[2]), d \cup h[3]>> \in NextLevel(r)
        BY <2>1, <4>2, <4>3, ComposedHas
      <4> QED BY <1>4, <4>4
    <3> QED BY <3>2, <3>3
  <2> QED BY <2>2, <2>3
<1> QED BY <1>1, <1>3, <1>4

LEMMA RoundsOverKeeps ==
    ASSUME TypeOK, PathInv, [Next]_vars, NEW r \in Runs, CompleteAt(r), RoundsOver(r)
    PROVE  CompleteAt(r)'
<1>1. /\ phase[r] = "round" /\ phase'[r] = "finish"
      /\ query' = query /\ store' = store /\ sourceIndex'[r] = sourceIndex[r]
      /\ reach'[r] = reach[r] /\ frontier'[r] = frontier[r] /\ next'[r] = next[r]
      /\ pending'[r] = pending[r] /\ circuit'[r] = circuit[r]
      /\ k'[r] = k[r] /\ lastLevel'[r] = lastLevel[r] /\ reachNodes'[r] = reachNodes[r]
      /\ answers'[r] = answers[r]
  BY DEF RoundsOver, search, rounds, TypeOK
<1>2. /\ Source(r)' = Source(r) /\ Bound(r)' = Bound(r) /\ Hops(r)' = Hops(r)
      /\ ActiveNodes' = ActiveNodes /\ Scope(r)' = Scope(r) /\ data' = data
      /\ \A u : FromSource(r, u)' = FromSource(r, u)
  BY <1>1, StaticFrame, MeaningFrame DEF Scope
<1>3. /\ \A l, u, v, d : Derives(r, l, u, v, d)' = Derives(r, l, u, v, d)
      /\ \A l, u, v, W : Told(r, l, u, v, W)' = Told(r, l, u, v, W)
  BY <1>1, RowsUnmoved, ToldFrame
<1>4. \A W, u, n : /\ Closed(r, W, u, n)' = Closed(r, W, u, n)
                   /\ LevelAt(r, W, u, n)' = LevelAt(r, W, u, n)
  BY <1>1, <1>3, LevelFrame
<1>5. SearchInv(r)'
  BY <1>1, <1>2 DEF CompleteAt, SearchInv, Working
<1>6. BaseInv(r)'
  BY <1>1, <1>2, <1>3 DEF CompleteAt, BaseInv, Working, Base
<1>7. LevelInv(r)'
  <2>1. ASSUME NEW W \in SUBSET data, NEW u \in Nodes, NEW n \in Nat, FromSource(r, u), n = k[r]
        PROVE  LevelAt(r, W, u, n) /\ Closed(r, W, u, n)
    BY <1>1, <2>1, RoundsOverClosed DEF CompleteAt, LevelInv
  <2>2. reachNodes[r] \subseteq ActiveNodes /\ lastLevel[r] = k[r]
    BY <1>1 DEF CompleteAt, LevelInv, Working
  <2> QED BY <1>1, <1>2, <1>4, <2>1, <2>2 DEF LevelInv
<1>8. FinishedInv(r)'
  BY <1>1, FinishedFrame DEF CompleteAt
<1> QED BY <1>5, <1>6, <1>7, <1>8 DEF CompleteAt

\* What a closed run tells at some level is among the answers it projects.
LEMMA FinishSays ==
    ASSUME TypeOK, NEW r \in Runs, CompleteAt(r), Finish(r),
           NEW W \in SUBSET data, NEW u \in Nodes, NEW v \in Nodes, FromSource(r, u),
           NEW l \in 0..k[r], Told(r, l, u, v, W)
    PROVE  Says(r, W, u, v)'
<1>1. phase[r] = "finish" /\ lastLevel[r] = k[r] /\ k[r] \in Nat
  BY DEF Finish, CompleteAt, LevelInv, Working, TypeOK
<1>2. PICK n \in Nat : n = k[r]
  BY <1>1
<1>3. LevelAt(r, W, u, n)
  BY <1>1, <1>2 DEF CompleteAt, LevelInv
<1>4. PICK j \in FinalLevels(r) : j \in Nat /\ Told(r, j, u, v, W)
  <2>1. CASE query[r].exact
    <3>1. l \in FinalLevels(r) /\ l \in Nat
      BY <1>1, <2>1 DEF FinalLevels
    <3> QED BY <3>1
  <2>2. CASE ~query[r].exact
    <3>1. n \in FinalLevels(r)
      BY <1>1, <1>2, <2>2 DEF FinalLevels
    <3>2. Told(r, n, u, v, W)
      BY <1>2, <1>3, <2>2 DEF LevelAt, CarriedOn
    <3> QED BY <3>1, <3>2
  <2> QED BY <2>1, <2>2
<1>5. PICK d \in SUBSET W : Derives(r, j, u, v, d)
  BY <1>4 DEF Told
<1> DEFINE g == GateOf(j, u, v)
<1>6. From(g) = u /\ To(g) = v /\ g \in Rows(r, j) /\ d \in Lineages(r, g)
  BY <1>4, <1>5, GateBuilt DEF Derives
<1> HIDE DEF g
<1>7. g \in FinalGates(r)
  BY <1>4, <1>6 DEF FinalGates
<1>8. <<u, v, d>> \in answers'[r]
  <2>1. answers'[r] = answers[r] \cup
            UNION {{<<From(x), To(x), e>> : e \in Lineages(r, x)} : x \in FinalGates(r)}
    BY DEF Finish, TypeOK
  <2> QED BY <1>6, <1>7, <2>1
<1> QED BY <1>8 DEF Says

\* The source that a run finishes joins the answered ones.
LEMMA AnsweredGrows ==
    ASSUME TypeOK, NEW r \in Runs, Finish(r), query' = query, NEW u \in Answered(r)'
    PROVE  u \in Answered(r) \/ (u \in Nodes /\ FromSource(r, u))
<1>1. /\ sourceIndex'[r] = sourceIndex[r] + 1 /\ sourceIndex[r] \in Nat \ {0}
      /\ sourceIndex[r] <= Len(query[r].sources)
  BY DEF Finish, TypeOK
<1>2. query[r].sources \in Seq(Nodes \cup {AllSources})
  BY PathAssumption DEF TypeOK, Query
<1>3. Source(r) \in Nodes \cup {AllSources}
  BY <1>1, <1>2 DEF Source
<1> DEFINE old == {query[r].sources[i] : i \in 1..(sourceIndex[r] - 1)}
           new == {query[r].sources[i] : i \in 1..(sourceIndex'[r] - 1)}
<1>4. new = old \cup {Source(r)}
  <2>1. \A i : i \in 1..(sourceIndex'[r] - 1) <=> i \in 1..(sourceIndex[r] - 1) \/ i = sourceIndex[r]
    BY <1>1
  <2> QED BY <2>1 DEF Source
<1>5. old \subseteq Nodes \cup {AllSources}
  <2> SUFFICES ASSUME NEW i \in 1..(sourceIndex[r] - 1)
               PROVE  query[r].sources[i] \in Nodes \cup {AllSources}
    OBVIOUS
  <2>1. i \in 1..Len(query[r].sources)
    BY <1>1, <1>2
  <2> QED BY <1>2, <2>1
<1>6. /\ Answered(r) = (IF AllSources \in old THEN Nodes ELSE old)
      /\ Answered(r)' = (IF AllSources \in new THEN Nodes ELSE new)
  BY DEF Answered
<1> HIDE DEF old, new
<1>7. CASE AllSources \in old
  BY <1>4, <1>6, <1>7
<1>8. CASE AllSources \notin old /\ Source(r) = AllSources
  <2>1. u \in Nodes /\ ~Bound(r)
    BY <1>4, <1>6, <1>8, PathAssumption DEF Bound
  <2> QED BY <2>1 DEF FromSource
<1>9. CASE AllSources \notin old /\ Source(r) # AllSources
  <2>1. u \in old \/ u = Source(r)
    BY <1>4, <1>6, <1>9
  <2> QED BY <1>3, <1>6, <1>9, <2>1 DEF FromSource
<1> QED BY <1>7, <1>8, <1>9

LEMMA FinishKeeps ==
    ASSUME TypeOK, PathInv, [Next]_vars, NEW r \in Runs, CompleteAt(r), Finish(r)
    PROVE  CompleteAt(r)'
<1>1. phase[r] = "finish" /\ phase'[r] = "start" /\ query' = query /\ data' = data
  BY DEF Finish, TypeOK
<1>2. SearchInv(r)' /\ BaseInv(r)' /\ LevelInv(r)'
  BY <1>1 DEF SearchInv, BaseInv, LevelInv, Working
<1>3. ASSUME NEW u \in Answered(r)', NEW v \in Nodes, NEW W \in SUBSET data, Holds(r, W, u, v)
      PROVE  Says(r, W, u, v)'
  <2>1. CASE u \in Answered(r)
    <3>1. Says(r, W, u, v)
      BY <1>1, <1>3, <2>1 DEF CompleteAt, FinishedInv
    <3>2. answers[r] \subseteq answers'[r]
      BY DEF Finish, TypeOK
    <3> QED BY <3>1, <3>2 DEF Says
  <2>2. CASE u \in Nodes /\ FromSource(r, u)
    <3>1. PICK n \in Nat : n = k[r]
      BY DEF TypeOK
    <3>2. LevelAt(r, W, u, n) /\ Closed(r, W, u, n)
      BY <1>1, <2>2, <3>1 DEF CompleteAt, LevelInv
    <3>3. PICK l \in 0..n : Told(r, l, u, v, W)
      <4>1. CASE Connects(r, W, u, v)
        BY <2>2, <3>2, <4>1, ClosedMeans DEF Ball
      <4>2. CASE query[r].star /\ u = v /\ \E f \in W : Mentions(f, u)
        <5>1. Told(r, 0, u, v, W) /\ 0 \in 0..n
          BY <3>2, <4>2 DEF LevelAt, ZeroHop
        <5> QED BY <5>1
      <4> QED BY <1>3, <4>1, <4>2 DEF Holds
    <3> QED BY <2>2, <3>1, <3>3, FinishSays
  <2> QED BY <1>1, <2>1, <2>2, AnsweredGrows
<1>4. FinishedInv(r)'
  <2>1. \A W, u, v : Holds(r, W, u, v)' = Holds(r, W, u, v)
    BY MeaningFrame
  <2> QED BY <1>1, <1>3, <2>1 DEF FinishedInv
<1> QED BY <1>2, <1>4 DEF CompleteAt

LEMMA CompleteInit == Init => CompleteInv
<1> SUFFICES ASSUME Init, NEW r \in Runs PROVE CompleteAt(r)
  BY DEF CompleteInv
<1>1. phase[r] = "start" /\ sourceIndex[r] = 1
  BY DEF Init
<1>2. Answered(r) = {}
  BY <1>1 DEF Answered
<1> QED BY <1>1, <1>2 DEF CompleteAt, SearchInv, BaseInv, LevelInv, FinishedInv, Working

LEMMA CompleteStep == TypeOK /\ PathInv /\ CompleteInv /\ [Next]_vars => CompleteInv'
<1> SUFFICES ASSUME TypeOK, PathInv, CompleteInv, [Next]_vars, NEW s \in Runs
             PROVE  CompleteAt(s)'
  BY DEF CompleteInv
<1>1. CompleteAt(s)
  BY DEF CompleteInv
<1>2. ASSUME NEW r \in Runs, RunStep(r) \/ Fail(r), s # r PROVE CompleteAt(s)'
  BY <1>1, <1>2, OthersUnmoved, UnmovedKeeps
<1>3. ASSUME RunStep(s) PROVE CompleteAt(s)'
  <2>1. CASE SourcesDone(s)
    <3>1. /\ phase[s] = "start" /\ phase'[s] = "done" /\ sourceIndex'[s] = sourceIndex[s]
          /\ answers'[s] = answers[s]
      BY <2>1 DEF SourcesDone, TypeOK
    <3>2. FinishedInv(s)'
      BY <1>1, <3>1, FinishedFrame DEF CompleteAt
    <3> QED BY <3>1, <3>2 DEF CompleteAt, SearchInv, BaseInv, LevelInv, Working
  <2> QED BY <1>1, <1>3, <2>1, StartSourceKeeps, ExpandBatchKeeps, SearchDoneKeeps,
             BaseBatchKeeps, SeedKeeps, RoundStepKeeps, RoundsOverKeeps, FinishKeeps DEF RunStep
<1>4. ASSUME Fail(s) PROVE CompleteAt(s)'
  <2>1. phase'[s] = "failed"
    BY <1>4 DEF Fail, TypeOK
  <2> QED BY <2>1 DEF CompleteAt, SearchInv, BaseInv, LevelInv, FinishedInv, Working
<1>5. CASE UNCHANGED vars
  <2>1. /\ query' = query /\ store' = store /\ sourceIndex' = sourceIndex
    BY <1>5 DEF vars
  <2>2. Unmoved(s)
    BY <1>5, <2>1, RowsUnmoved DEF Unmoved, vars, search, rounds
  <2> QED BY <1>1, <2>2, UnmovedKeeps
<1> QED BY <1>2, <1>3, <1>4, <1>5 DEF Next, Terminated

\* Exactness: in every world, the circuit of a finished source says of a pair of
\* nodes what the path query means, whichever way the rounds ended.
THEOREM PathAnswersExact == Spec => []AnswersExact
<1>1. TypeOK /\ PathInv /\ CompleteInv => AnswersExact
  <2> SUFFICES ASSUME TypeOK, PathInv, CompleteInv, NEW r \in Runs, phase[r] # "failed",
                      NEW u \in Answered(r), NEW v \in Nodes, NEW W \in SUBSET data
               PROVE  Says(r, W, u, v) <=> Holds(r, W, u, v)
    BY DEF AnswersExact
  <2>1. ASSUME Says(r, W, u, v) PROVE Holds(r, W, u, v)
    <3>1. PICK a \in answers[r] : a[1] = u /\ a[2] = v /\ a[3] \subseteq W
      BY <2>1 DEF Says
    <3>2. Holds(r, a[3], u, v)
      BY <3>1 DEF PathInv, AnswersSound
    <3> QED BY <3>1, <3>2, HoldsMonotone
  <2>2. Holds(r, W, u, v) => Says(r, W, u, v)
    BY DEF CompleteInv, CompleteAt, FinishedInv
  <2> QED BY <2>1, <2>2
<1> QED BY <1>1, TypeInit, TypeStep, PathInvInit, PathInvStep, CompleteInit, CompleteStep,
           PTL DEF Spec
===============================================================================
