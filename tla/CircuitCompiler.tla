--------------------------- MODULE CircuitCompiler ---------------------------
(***************************************************************************)
(* From a stored circuit to the probability of every answer: circuit_io      *)
(* reads the triples, roots that denote one answer are merged, and one of    *)
(* four back ends counts: compiler.compile_many with one manager or one per  *)
(* root (an iterative depth-first compilation to decision diagrams, then a   *)
(* weighted model count), d4 per answer (Tseitin clauses, an external        *)
(* compiler, an evaluation of its dump), or the read-once pass of            *)
(* compile_portfolio.                                                        *)
(*                                                                           *)
(* Data abstraction: a node is a number, a leaf is its own token, an answer  *)
(* key is a value; decision diagrams are those of module DecisionDiagram.    *)
(***************************************************************************)
EXTENDS Integers, Sequences, FiniteSets, FiniteSetsExt, SequencesExt, DecisionDiagram

CONSTANTS
    Sources,   \* the artifacts: sets of triples (kind "circuit") or NPCS graphs ("dag")
    Weights    \* the probability files, as functions from tokens to 0 .. Unit

\* Nodes and answer keys are numbers; a graph is a table whose operands are in it.
IsTriples(f) ==
    /\ \A pairs \in {f.in, f.minuend, f.subtrahend, f.feeds} :
           IsFiniteSet(pairs) /\ pairs \subseteq Int \X Int
    /\ IsFiniteSet(f.type) /\ f.type \subseteq Int \X {"times", "plus", "minus"}
    /\ IsFiniteSet(DOMAIN f.answers) /\ DOMAIN f.answers \subseteq Int
    /\ \A r \in DOMAIN f.answers : f.answers[r] \in Int

IsDag(nodes, top) ==
    /\ IsFiniteSet(DOMAIN nodes) /\ IsFiniteSet(DOMAIN top) /\ DOMAIN top \subseteq Int
    /\ \A n \in DOMAIN nodes : nodes[n].kids \in Seq(DOMAIN nodes)
    /\ \A key \in DOMAIN top : top[key] \in DOMAIN nodes

IsStored(s) == \/ s.kind = "circuit" /\ IsTriples(s.triples)
               \/ s.kind = "dag" /\ IsDag(s.nodes, s.roots)

ASSUME SourcesAssumption == \A s \in Sources : IsStored(s)

VARIABLES
    source, weight,
    phase,     \* read, merge, prepare, compile, count, persist, done, or an error
    circ,      \* the gate table
    roots,     \* per answer key, its root
    mode,      \* shared, per-root, d4 or portfolio
    order,     \* the variable order of the manager
    todo,      \* the keys still to compile, in order
    stack, visiting, memo,   \* of _compile_roots
    compiled,  \* per key, its decision diagram, with the order of its manager
    partial,   \* rows of probabilities.jsonl.partial
    published  \* probabilities.jsonl

input == <<source, weight>>
table == <<circ, roots>>
machine == <<stack, visiting, memo>>
output == <<partial, published>>
compilerVars == <<input, phase, table, mode, order, todo, machine, compiled, output>>

Gate(op, kids) == [op |-> op, kids |-> kids]

\* The members of a finite set of numbers, in order.
Sorted(S) == CHOOSE s \in [1 .. Cardinality(S) -> S] : \A i, j \in DOMAIN s : i < j => s[i] < s[j]

Kids(c, n) == ToSet(c[n].kids)
With(f, x, y) == [z \in DOMAIN f \cup {x} |-> IF z = x THEN y ELSE f[z]]

CompilerInit ==
    /\ source \in Sources /\ weight \in Weights
    /\ phase = "read" /\ mode = "none"
    /\ circ = << >> /\ roots = << >> /\ order = << >> /\ todo = << >>
    /\ stack = << >> /\ visiting = {} /\ memo = << >> /\ compiled = << >>
    /\ partial = << >> /\ published = << >>

-----------------------------------------------------------------------------
(* circuit_io.parse                                                          *)

Subjects(pairs) == {p[1] : p \in pairs}
Objects(pairs, n) == {p[2] : p \in {q \in pairs : q[1] = n}}

\* What the operands of a node say it is.  An answer gate is a Plus.
Inferred(f, n) ==
    {t \in {"times", "minus", "plus"} :
        \/ t = "times" /\ n \in Subjects(f.in)
        \/ t = "minus" /\ n \in Subjects(f.minuend) \cup Subjects(f.subtrahend)
        \/ t = "plus"  /\ n \in {p[2] : p \in f.feeds} \cup DOMAIN f.answers}

Types(f, n) == Objects(f.type, n) \cup Inferred(f, n)

TypedNodes(f) == Subjects(f.type) \cup Subjects(f.in) \cup Subjects(f.minuend)
                 \cup Subjects(f.subtrahend) \cup {p[2] : p \in f.feeds} \cup DOMAIN f.answers

\* CircuitFormatError: conflicting types, or a Minus without exactly its two operands.
Malformed(f) ==
    \E n \in TypedNodes(f) :
        \/ Cardinality(Types(f, n)) # 1
        \/ /\ Types(f, n) = {"minus"}
           /\ \/ Cardinality(Objects(f.minuend, n)) # 1
              \/ Cardinality(Objects(f.subtrahend, n)) # 1

Parsed(f, n) ==
    CASE Types(f, n) = {"times"} -> Gate("times", Sorted(Objects(f.in, n)))
      [] Types(f, n) = {"plus"}  -> Gate("plus", Sorted({p[1] : p \in {q \in f.feeds : q[2] = n}}))
      [] OTHER -> Gate("minus", <<Min(Objects(f.minuend, n)), Min(Objects(f.subtrahend, n))>>)

\* A node that is only referred to is a leaf.
Circuit(f) ==
    LET gates == [n \in TypedNodes(f) |-> Parsed(f, n)]
        referred == UNION {Kids(gates, n) : n \in DOMAIN gates}
    IN  [n \in DOMAIN gates \cup referred |-> IF n \in DOMAIN gates THEN gates[n]
                                               ELSE Gate("leaf", << >>)]

Fails(error) ==
    /\ phase' = error
    /\ UNCHANGED <<input, table, mode, order, todo, machine, compiled, output>>

ReadCircuit ==
    /\ phase = "read" /\ source.kind = "circuit"
    /\ IF Malformed(source.triples)
       THEN Fails("CircuitFormatError")
       ELSE /\ circ' = Circuit(source.triples)
            /\ phase' = "merge"
            /\ UNCHANGED <<input, roots, mode, order, todo, machine, compiled, output>>

\* An NPCS graph lists its nodes bottom up, so that it has no cycle, and its roots by key.
ReadDag ==
    /\ phase = "read" /\ source.kind = "dag"
    /\ IF \E n \in DOMAIN source.nodes : \E k \in Kids(source.nodes, n) : k >= n
       THEN Fails("ArtifactPqeError")
       ELSE /\ circ' = source.nodes /\ roots' = source.roots
            /\ phase' = "prepare" /\ mode' = "shared"
            /\ UNCHANGED <<input, order, todo, machine, compiled, output>>

\* circuit_io.merge_answer_roots: the roots of one observable answer are joined by a
\* new Plus.
Group_First(answers, key) == {Min({r \in DOMAIN answers : answers[r] = key})}

Group(answers, key) == {r \in DOMAIN answers : answers[r] = key}

MergeAnswerRoots ==
    /\ phase = "merge"
    /\ LET answers == source.triples.answers
           keys == {answers[r] : r \in DOMAIN answers}
           many == {key \in keys : Cardinality(Group(answers, key)) > 1}
           Fresh(key) == Max(DOMAIN circ) + 1 + Cardinality({k \in many : k < key})
           Joined(n) == Group(answers, CHOOSE key \in many : Fresh(key) = n)
       IN  /\ circ' = [n \in DOMAIN circ \cup {Fresh(key) : key \in many} |->
                  IF n \in DOMAIN circ THEN circ[n] ELSE Gate("plus", Sorted(Joined(n)))]
           /\ roots' = [key \in keys |-> IF key \in many THEN Fresh(key)
                                         ELSE Min(Group(answers, key))]
    /\ mode' \in {"shared", "per-root", "d4", "portfolio"}
    /\ phase' = "prepare"
    /\ UNCHANGED <<input, order, todo, machine, compiled, output>>

-----------------------------------------------------------------------------
(* compiler.compile_many                                                     *)

\* The cone of a set of nodes: the least set that holds them and their children.
Cone(c, S) ==
    LET grow[i \in 0 .. Cardinality(DOMAIN c)] ==
            IF i = 0 THEN S
            ELSE LET reached == grow[i - 1] IN reached \cup UNION {Kids(c, n) : n \in reached}
    IN  grow[Cardinality(DOMAIN c)]

\* No node of the cone is in the cone of its own children.
Acyclic(c, S) == \A n \in Cone(c, S) : n \notin Cone(c, Kids(c, n))

Support(c, S) == {n \in Cone(c, S) : c[n].op = "leaf"}
RootSet == {roots[key] : key \in DOMAIN roots}

\* _load_weights: a probability file must name every token of the order.
WeightsCover == Support(circ, RootSet) \subseteq DOMAIN weight

\* The order is a depth-first one, or the caller's.
Prepare ==
    /\ phase = "prepare"
    /\ IF ~WeightsCover
       THEN Fails("missing probability")
       ELSE /\ order' \in IF mode \in {"shared", "per-root"}
                         THEN SetToSeqs(Support(circ, RootSet)) ELSE {<< >>}
            /\ todo' = Sorted(DOMAIN roots)
            /\ phase' = CASE mode = "d4" -> "d4" [] mode = "portfolio" -> "portfolio"
                          [] OTHER -> "compile"
            /\ UNCHANGED <<input, table, mode, machine, compiled, output>>

Key == Head(todo)
\* A manager of one root declares the variables of its cone.
OrderOf(key) ==
    IF mode = "shared" THEN order
    ELSE SelectSeq(order, LAMBDA t : t \in Support(circ, {roots[key]}))

\* _compile_roots visits one root after the other; one manager, one memo.
NextRoot ==
    /\ phase = "compile" /\ stack = << >> /\ todo # << >> /\ roots[Key] \notin DOMAIN memo
    /\ stack' = <<<<roots[Key], FALSE>>>>
    /\ UNCHANGED <<input, phase, table, mode, order, todo, visiting, memo, compiled, output>>

\* A new manager starts with an empty memo.
KeptMemo == IF mode = "shared" THEN memo ELSE << >>

RootCompiled ==
    /\ phase = "compile" /\ stack = << >> /\ todo # << >> /\ roots[Key] \in DOMAIN memo
    /\ compiled' = With(compiled, Key, [bdd |-> memo[roots[Key]], order |-> OrderOf(Key)])
    /\ todo' = Tail(todo) /\ memo' = KeptMemo
    /\ UNCHANGED <<input, phase, table, mode, order, stack, visiting, output>>

Node == Last(stack)[1]
Expanded == Last(stack)[2]

\* finish(node) of _compile_roots.
Combined(g, value) ==
    LET args == [i \in DOMAIN g.kids |-> value[g.kids[i]]]
    IN  CASE g.op = "const" -> IF g.value THEN True ELSE False
          [] g.op = "times" -> FoldRight(And, args, True)
          [] g.op = "plus"  -> FoldRight(Or, args, False)
          [] g.op = "not"   -> Not(args[1])
          [] g.op = "minus" -> And(args[1], Not(args[2]))

Compiled(n) ==
    IF circ[n].op = "leaf"
    THEN Variable(CHOOSE i \in DOMAIN OrderOf(Key) : OrderOf(Key)[i] = n)
    ELSE Combined(circ[n], memo)

PopKnown ==
    /\ phase = "compile" /\ stack # << >> /\ Node \in DOMAIN memo
    /\ stack' = Front(stack)
    /\ UNCHANGED <<input, phase, table, mode, order, todo, visiting, memo, compiled, output>>

PopExpanded ==
    /\ phase = "compile" /\ stack # << >> /\ Node \notin DOMAIN memo /\ Expanded
    /\ memo' = With(memo, Node, Compiled(Node))
    /\ visiting' = visiting \ {Node}
    /\ stack' = Front(stack)
    /\ UNCHANGED <<input, phase, table, mode, order, todo, compiled, output>>

OnCycle_Stacked(n) == \E k \in Kids(circ, n) : \E i \in DOMAIN stack : stack[i][1] = k

\* "cycle detected": a child is being visited.
OnCycle(n) == \E k \in Kids(circ, n) : k \in visiting \cup {n}

\* The entries of the children that have no diagram yet, the last child first.
Unknown(kids) ==
    LET left == Reverse(Sorted({i \in DOMAIN kids : kids[i] \notin DOMAIN memo}))
    IN  [j \in DOMAIN left |-> <<kids[left[j]], FALSE>>]

Expand ==
    /\ phase = "compile" /\ stack # << >> /\ Node \notin DOMAIN memo /\ ~Expanded
    /\ IF OnCycle(Node)
       THEN Fails("cycle")
       ELSE /\ stack' = Append(Front(stack), <<Node, TRUE>>) \o Unknown(circ[Node].kids)
            /\ visiting' = visiting \cup {Node}
            /\ UNCHANGED <<input, phase, table, mode, order, todo, memo, compiled, output>>

\* CompiledBatch.wmc_many; the rows are written and the file renamed.
CountModels ==
    /\ phase = "compile" /\ stack = << >> /\ todo = << >>
    /\ \E backend \in {"cudd", "oracle"} :
           partial' = [key \in DOMAIN roots |->
               LET weights == [i \in DOMAIN compiled[key].order |-> weight[compiled[key].order[i]]]
               IN  IF backend = "cudd" THEN CuddCount(compiled[key].bdd, weights)
                   ELSE OracleCount(compiled[key].bdd, weights)]
    /\ phase' = "persist"
    /\ UNCHANGED <<input, table, mode, order, todo, machine, compiled, published>>

-----------------------------------------------------------------------------
(* d4_from_artifact: one compilation per answer within the method's deadline  *)

Lit(n, sign) == <<n, sign>>

\* export_cnf: the Tseitin clauses of a gate.  The cases without children coincide.
ClausesOf(c, n) ==
    LET K == Kids(c, n) IN
    CASE c[n].op = "leaf" -> {}
      [] c[n].op = "plus" ->
             {{Lit(n, FALSE)} \cup {Lit(k, TRUE) : k \in K}} \cup {{Lit(n, TRUE), Lit(k, FALSE)} : k \in K}
      [] c[n].op = "times" ->
             {{Lit(n, TRUE)} \cup {Lit(k, FALSE) : k \in K}} \cup {{Lit(n, FALSE), Lit(k, TRUE)} : k \in K}
      [] c[n].op = "minus" ->
             LET a == c[n].kids[1]  b == c[n].kids[2]
             IN  {{Lit(n, FALSE), Lit(a, TRUE)}, {Lit(n, FALSE), Lit(b, FALSE)},
                  {Lit(n, TRUE), Lit(a, FALSE), Lit(b, TRUE)}}

Export(c, root) == UNION {ClausesOf(c, n) : n \in Cone(c, {root})} \cup {{Lit(root, TRUE)}}

\* The clauses once a literal is true.
Given(clauses, lit) ==
    {cl \ {Lit(lit[1], ~lit[2])} : cl \in {d \in clauses : lit \notin d}}

\* ddnnf_wmc.evaluate_tseitin_text on a dump of the external compiler, which decides one
\* variable after the other and names none that no clause is left to mention.  Inputs have
\* their weights, in Unit-ths; an auxiliary has half for each sign, and the missing factor
\* two per auxiliary is the doubling here.  scale is the value of a dump that is true.
DumpCount(clauses, c, scale) ==
    LET variables == UNION {{lit[1] : lit \in cl} : cl \in clauses}
        Share(v, sign, value) ==
            IF c[v].op = "leaf"
            THEN ((IF sign THEN weight[v] ELSE Unit - weight[v]) * value) \div Unit
            ELSE value \div 2
        count[S \in SUBSET variables, known \in SUBSET (variables \X BOOLEAN)] ==
            LET rest == FoldSet(LAMBDA lit, cls : Given(cls, lit), clauses, known)
                named == UNION {{lit[1] : lit \in cl} : cl \in rest}
                v == Min(named)
            IN  IF {} \in rest THEN 0
                ELSE IF named = {} THEN scale
                ELSE Share(v, TRUE, count[S \ {v}, known \cup {Lit(v, TRUE)}])
                     + Share(v, FALSE, count[S \ {v}, known \cup {Lit(v, FALSE)}])
    IN  count[variables, {}]

Auxiliaries(c, root) == {n \in Cone(c, {root}) : c[n].op # "leaf"}

Pow(b, n) == LET p[i \in 0 .. n] == IF i = 0 THEN 1 ELSE b * p[i - 1] IN p[n]

D4Count(root) ==
    DumpCount(Export(circ, root), circ, Pow(2, Cardinality(Auxiliaries(circ, root))) * Whole)

\* d4 answers within what is left of the deadline.
D4Answer ==
    /\ phase = "d4" /\ todo # << >>
    /\ partial' = With(partial, Key, D4Count(roots[Key]))
    /\ todo' = Tail(todo)
    /\ UNCHANGED <<input, phase, table, mode, order, machine, compiled, published>>

\* D4MethodTimeout, exit code 124; the partial file stays.
D4Timeout == phase = "d4" /\ todo # << >> /\ Fails("timeout")

D4Done == phase = "d4" /\ todo = << >> /\ phase' = "persist"
          /\ UNCHANGED <<input, table, mode, order, todo, machine, compiled, output>>

-----------------------------------------------------------------------------
(* compile_portfolio                                                         *)

References(c, root, k) ==
    FoldSet(LAMBDA n, sum : sum + Cardinality({i \in DOMAIN c[n].kids : c[n].kids[i] = k}),
            0, Cone(c, {root}))

\* Every node is a child at most once, so that siblings are independent.
IsReadOnce(c, root) == \A k \in Cone(c, {root}) : References(c, root, k) <= 1

\* prob_read_once, in units of Whole.
ReadOnceCount(c, root) ==
    LET Times(a, b) == (a * b) \div Whole
        count[n \in DOMAIN c] ==
            LET args == [i \in DOMAIN c[n].kids |-> count[c[n].kids[i]]]
            IN  CASE c[n].op = "leaf"  -> weight[n] * (Whole \div Unit)
                  [] c[n].op = "times" -> FoldRight(Times, args, Whole)
                  [] c[n].op = "plus"  ->
                         Whole - FoldRight(Times, [i \in DOMAIN args |-> Whole - args[i]], Whole)
                  [] c[n].op = "minus" -> Times(args[1], Whole - args[2])
    IN  count[root]

\* The roots that take the one pass; the others are counted by enumeration, which is the
\* reference below, or by d4 or the bundled diagrams as above.
ReadOnceKeys == {key \in DOMAIN roots : IsReadOnce(circ, roots[key])}

Portfolio ==
    /\ phase = "portfolio"
    /\ IF \E key \in ReadOnceKeys : ~Acyclic(circ, {roots[key]})
       THEN Fails("RecursionError")
       ELSE /\ published' = [key \in ReadOnceKeys |-> ReadOnceCount(circ, roots[key])]
            /\ phase' = "done"
            /\ UNCHANGED <<input, table, mode, order, todo, machine, compiled, partial>>

-----------------------------------------------------------------------------

Publish ==
    /\ phase = "persist" /\ published' = partial /\ phase' = "done"
    /\ UNCHANGED <<input, table, mode, order, todo, machine, compiled, partial>>

Errors == {"CircuitFormatError", "ArtifactPqeError", "missing probability", "cycle", "timeout",
           "RecursionError"}
Ended == phase \in Errors \cup {"done"} /\ UNCHANGED compilerVars

Step ==
    \/ ReadCircuit \/ ReadDag \/ MergeAnswerRoots \/ Prepare
    \/ NextRoot \/ RootCompiled \/ PopKnown \/ PopExpanded \/ Expand \/ CountModels
    \/ D4Answer \/ D4Timeout \/ D4Done \/ Portfolio \/ Publish

CompilerNext == Step \/ Ended

CompilerSpec == CompilerInit /\ [][CompilerNext]_compilerVars

-----------------------------------------------------------------------------

\* The circuit that was stored, before any of this code read it.
Meant == IF source.kind = "dag" THEN source.nodes ELSE source.meant
RawRoots(key) ==
    IF source.kind = "dag" THEN {source.roots[key]} ELSE {r \in DOMAIN source.triples.answers : source.triples.answers[r] = key}
Keys == IF source.kind = "dag" THEN DOMAIN source.roots
        ELSE {source.triples.answers[r] : r \in DOMAIN source.triples.answers}

\* What a node says in the world of the tokens W.
Holds(c, W, node) ==
    LET holds[n \in DOMAIN c] ==
            LET K(i) == holds[c[n].kids[i]] IN
            CASE c[n].op = "leaf"  -> n \in W
              [] c[n].op = "const" -> c[n].value
              [] c[n].op = "times" -> \A i \in DOMAIN c[n].kids : K(i)
              [] c[n].op = "plus"  -> \E i \in DOMAIN c[n].kids : K(i)
              [] c[n].op = "not"   -> ~K(1)
              [] c[n].op = "minus" -> K(1) /\ ~K(2)
    IN  holds[node]

\* The weight of a world, and the sum over the worlds in which the answer exists.
WorldWeight(W) ==
    FoldSet(LAMBDA t, w : (w * (IF t \in W THEN weight[t] ELSE Unit - weight[t])) \div Unit,
            Whole, DOMAIN weight)
Truth(key) ==
    FoldSet(LAMBDA W, sum : sum + WorldWeight(W), 0,
            {W \in SUBSET DOMAIN weight : \E r \in RawRoots(key) : Holds(Meant, W, r)})

\* What is published is the probability of every answer, as the sum over the possible
\* worlds of the circuit that was stored: whatever the back end, the variable order,
\* the sharing between roots, and the number of roots that denote one answer.
ProbabilitiesAreExact ==
    phase = "done" /\ Acyclic(Meant, UNION {RawRoots(key) : key \in Keys}) =>
        /\ mode # "portfolio" => DOMAIN published = Keys
        /\ \A key \in DOMAIN published : published[key] = Truth(key)

\* The compiler refuses a circuit exactly when a cycle can be reached from a root; the
\* pending siblings on its stack are no cycle.
CyclesAreRejected ==
    /\ phase = "cycle" => ~Acyclic(circ, RootSet)
    /\ phase \in {"persist", "done"} /\ mode \in {"shared", "per-root"} => Acyclic(circ, RootSet)

=============================================================================
