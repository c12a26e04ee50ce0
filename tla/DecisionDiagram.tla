--------------------------- MODULE DecisionDiagram ---------------------------
(***************************************************************************)
(* Reduced ordered binary decision diagrams: the bundled oracle              *)
(* (compile_bdd.ROBDD) and the complement edges of CUDD as compiler.py       *)
(* walks them.  A node is <<level, low, high>>, so that the unique table is  *)
(* equality; levels are 1 .. MaxVars.  Probabilities are exact: a weight is  *)
(* a number of Unit-ths and a value a number of Whole-ths.                   *)
(***************************************************************************)
EXTENDS Integers, Sequences

CONSTANTS MaxVars, Unit

ASSUME DiagramAssumption == MaxVars \in Nat \ {0} /\ Unit \in Nat \ {0}

False == <<0>>
True == <<1>>

Whole == LET power[i \in 0 .. MaxVars] == IF i = 0 THEN 1 ELSE Unit * power[i - 1]
         IN  power[MaxVars]

Level(n) == IF Len(n) = 1 THEN MaxVars + 1 ELSE n[1]

Mk(level, low, high) == IF low = high THEN low ELSE <<level, low, high>>

\* The nodes with levels from k on.
DiagramsFrom[k \in 1 .. MaxVars + 1] ==
    IF k = MaxVars + 1 THEN {False, True}
    ELSE DiagramsFrom[k + 1]
         \cup {<<k, p[1], p[2]>> : p \in {q \in DiagramsFrom[k + 1] \X DiagramsFrom[k + 1] : q[1] # q[2]}}

Diagrams == DiagramsFrom[1]

Variable(level) == Mk(level, False, True)

\* The cofactor of a node at a level not below it.
Cofactor(n, level, branch) == IF Level(n) = level THEN n[branch] ELSE n
Low == 2
High == 3

Top(f, g, h) == CHOOSE l \in {Level(f), Level(g), Level(h)} :
                    l <= Level(f) /\ l <= Level(g) /\ l <= Level(h)

Ite[f \in Diagrams, g \in Diagrams, h \in Diagrams] ==
    IF f = True THEN g
    ELSE IF f = False THEN h
    ELSE IF g = h THEN g
    ELSE IF g = True /\ h = False THEN f
    ELSE  LET level == Top(f, g, h)
              Branch(b) == Ite[Cofactor(f, level, b), Cofactor(g, level, b), Cofactor(h, level, b)]
          IN  Mk(level, Branch(Low), Branch(High))

And(a, b) == Ite[a, b, False]
Or(a, b) == Ite[a, True, b]
Not(a) == Ite[a, False, True]

\* ROBDD.wmc_many.
OracleCount(root, weights) ==
    LET value[n \in Diagrams] ==
            CASE n = False -> 0
              [] n = True  -> Whole
              [] OTHER -> ((Unit - weights[n[1]]) * value[n[Low]] + weights[n[1]] * value[n[High]]) \div Unit
    IN  value[root]

-----------------------------------------------------------------------------
(* CUDD (external): an edge carries a complement flag, there is one terminal, *)
(* and the high edge of a node is never complemented.                        *)

One == <<1>>
Flip(edge, negated) == <<edge[1] # negated, edge[2]>>

Edge[n \in Diagrams] ==
    CASE n = True  -> <<FALSE, One>>
      [] n = False -> <<TRUE, One>>
      [] OTHER -> LET negated == Edge[n[High]][1]
                  IN  <<negated, <<n[1], Flip(Edge[n[Low]], negated), Flip(Edge[n[High]], negated)>>>>

CuddNodes == {Edge[n][2] : n \in Diagrams}

\* _cudd_wmc_many keeps the value of a function and of its complement at every edge, so
\* that a complement is a swap.
PairOf(edge, pair) == IF edge[1] THEN <<pair[2], pair[1]>> ELSE pair

CuddCount(root, weights) ==
    LET pair[edge \in BOOLEAN \X CuddNodes] ==
            LET node == edge[2]
                Mix(i) == ((Unit - weights[node[1]]) * pair[node[Low]][i]
                           + weights[node[1]] * pair[node[High]][i]) \div Unit
            IN  PairOf(edge, IF node = One THEN <<Whole, 0>> ELSE <<Mix(1), Mix(2)>>)
    IN  pair[Edge[root]][1]
=============================================================================
