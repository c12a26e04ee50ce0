--------------------------- MODULE MCPathFixpoint ---------------------------
(* Instances of PathFixpoint for TLC.                                       *)
EXTENDS PathFixpoint, TLC

CONSTANTS a, b, c, d, p, q, r1, r2

PathOf(alts, srcs, s, e) == [alternatives |-> alts, sources |-> srcs, star |-> s, exact |-> e]

Nodes3 == {a, b, c}

\* Every graph of at most MaxFacts facts over three nodes with one predicate, up to the
\* names of the nodes that are not a: cycles, self-loops, islands.
MaxFacts == 5
Swapped(g) == LET name(n) == CASE n = b -> c [] n = c -> b [] OTHER -> n
              IN  {<<name(f[1]), name(f[2]), f[3]>> : f \in g}
AllGraphs == {CHOOSE h \in {g, Swapped(g)} : TRUE :
                 g \in {h \in SUBSET (Nodes3 \X Nodes3 \X {p}) : Cardinality(h) <= MaxFacts}}

\* p+ and p* from a bound source and from all sources, exact and cumulative.
SimpleQueries ==
    {PathOf({<<p>>}, <<s>>, star, exact) : s \in {a, AllSources}, star \in BOOLEAN,
                                           exact \in BOOLEAN}

\* Hand-picked graphs with two predicates: parallel facts, a cycle through all
\* four nodes, a chain as long as the round bound allows, a diamond.
RichGraphs == {
    {<<a,b,p>>, <<b,c,p>>, <<c,d,p>>, <<d,a,p>>, <<a,c,q>>},
    {<<a,b,p>>, <<a,b,q>>, <<b,c,q>>, <<c,d,p>>, <<c,c,q>>},
    {<<a,b,p>>, <<a,c,p>>, <<b,d,q>>, <<c,d,q>>, <<d,a,q>>},
    {<<b,a,p>>, <<b,c,q>>, <<c,b,p>>, <<d,d,q>>} }

\* Alternatives and sequences, replayed for the sources a preceding operand binds
\* (none, one or two of them).
RichQueries ==
    {PathOf(alts, srcs, star, exact) :
        alts \in {{<<p>>, <<q>>}, {<<p, q>>, <<q>>}},
        srcs \in {<< >>, <<a>>, <<a, c>>, <<AllSources>>},
        star \in BOOLEAN, exact \in BOOLEAN}

\* One query, run twice at the same time, by runs that may fail.
SharedGraph == {<<a,b,p>>, <<b,a,p>>}
SharedQueries == {PathOf({<<p>>}, <<a, b>>, TRUE, TRUE), PathOf({<<p>>}, <<a>>, FALSE, TRUE)}

\* A query that no preceding operand binds a source for.
Idle == PathOf({<<p>>}, << >>, FALSE, TRUE)

Graphs == AllGraphs \cup RichGraphs \cup {SharedGraph}
AllQueries == SimpleQueries \cup RichQueries \cup SharedQueries \cup {Idle}

\* r1 alone has something to do, but on the shared graph, where both have.
WorkFor(g, r) == IF r = r2 THEN {Idle} \cup IF g = SharedGraph THEN SharedQueries ELSE {}
                 ELSE IF g \in RichGraphs THEN RichQueries
                 ELSE SimpleQueries \cup IF g = SharedGraph THEN SharedQueries ELSE {}

MCInit == Init /\ \A r \in Runs : query[r] \in WorkFor(data, r)

\* Any run may fail on the shared graph.
MCNext == \/ \E r \in Runs : RunStep(r)
          \/ data = SharedGraph /\ \E r \in Runs : Fail(r)
          \/ Terminated

MCSpec == MCInit /\ [][MCNext]_vars /\ Fairness
=============================================================================
