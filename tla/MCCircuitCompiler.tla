-------------------------- MODULE MCCircuitCompiler --------------------------
(* Instances of CircuitCompiler for TLC.  Nodes 1 .. 3 are facts, 4 .. 6 are *)
(* gates; a gate may refer to any node, itself included.                     *)
EXTENDS CircuitCompiler, TLC

\* The triples of a gate table as the engine writes them (external), with rdf:type or
\* without; answers maps answer gates to their keys.
Triples(c, typed, answers) ==
    LET gates == {n \in DOMAIN c : c[n].op # "leaf"}
        of(op) == {n \in gates : c[n].op = op}
    IN  [type |-> {<<n, c[n].op>> : n \in IF typed THEN gates ELSE {}},
         in |-> UNION {{<<n, k>> : k \in Kids(c, n)} : n \in of("times")},
         feeds |-> UNION {{<<k, n>> : k \in Kids(c, n)} : n \in of("plus")},
         minuend |-> {<<n, c[n].kids[1]>> : n \in of("minus")},
         subtrahend |-> {<<n, c[n].kids[2]>> : n \in of("minus")},
         answers |-> answers]

Stored(c, typed, answers) ==
    [kind |-> "circuit", triples |-> Triples(c, typed, answers), meant |-> c]

Leaf == Gate("leaf", << >>)
Facts(n) == [l \in 1 .. n |-> Leaf]
OneOf(nodes) ==
    {Gate(op, Sorted(K)) : op \in {"times", "plus"}, K \in {K \in SUBSET nodes : Cardinality(K) \in 1 .. 2}}
    \cup {Gate("minus", p) : p \in nodes \X nodes}
PlusOf(nodes) == {Gate("plus", Sorted(K)) : K \in SUBSET nodes}

\* Two facts, an inner gate and an answer gate, with every reference, cyclic ones too.
Small == {Stored(Facts(2) @@ (3 :> g) @@ (4 :> h) @@ (5 :> a), FALSE, 5 :> 1) :
              g \in OneOf(1 .. 4), h \in {Gate("times", <<1, 3>>), Gate("minus", <<2, 3>>),
              Gate("plus", <<2, 3>>)}, a \in PlusOf({1, 3, 4})}

\* Three facts, two inner gates that may share, two answer gates of one answer or two.
Inner == {Gate("times", <<1, 2>>), Gate("plus", <<1, 2>>), Gate("minus", <<1, 2>>), Gate("times", <<2, 3>>)}
Outer == {Gate("times", <<3, 4>>), Gate("plus", <<2, 4>>), Gate("minus", <<3, 4>>),
          Gate("minus", <<4, 2>>), Gate("minus", <<4, 4>>)}
Shared == {Stored(Facts(3) @@ (4 :> g) @@ (5 :> h) @@ (6 :> Gate("plus", <<4, 5>>))
                     @@ (7 :> a), TRUE, (6 :> 1) @@ (7 :> key)) :
               g \in Inner, h \in Outer, a \in PlusOf({3, 5}), key \in {1, 2}}

\* Triples no engine writes: a type that contradicts the operands, a lost operand.
Broken == LET c == Facts(2) @@ (3 :> Gate("minus", <<1, 2>>)) @@ (4 :> Gate("plus", <<3>>))
              t == Triples(c, TRUE, 4 :> 1)
          IN  {[kind |-> "circuit", meant |-> c, triples |-> u] :
                  u \in {[t EXCEPT !.type = @ \cup {<<3, "times">>}], [t EXCEPT !.subtrahend = {}],
                         [t EXCEPT !.feeds = @ \cup {<<1, 3>>}]}}

\* NPCS graphs: negation, constants, repeated children; the last one is not bottom up.
Dags == LET const(v) == [op |-> "const", kids |-> << >>, value |-> v] IN
    {[kind |-> "dag", nodes |-> n, roots |-> (1 :> 5) @@ (2 :> 4)] :
        n \in {<<Leaf, Leaf, Gate("not", <<2>>), Gate("times", <<1, 3>>), Gate("plus", <<4, 2, 2>>)>>,
               <<Leaf, const(TRUE), Gate("plus", <<1, 2>>), Gate("not", <<3>>), Gate("plus", << >>)>>,
               <<Leaf, const(FALSE), Gate("times", <<1, 2>>), Gate("not", <<1>>), Gate("times", << >>)>>,
               <<Leaf, Leaf, Gate("plus", <<4, 1>>), Gate("not", <<3>>), Gate("times", <<3, 4>>)>>}}

AllSources == Small \cup Shared \cup Broken \cup Dags

\* 1/3, 2/3, certain; 2/3, impossible, in a file that does not cover every token.
AllWeights == {<<1, 2, 3>>, <<1, 1, 2>>, <<2, 0>>}
=============================================================================
