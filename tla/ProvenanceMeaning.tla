-------------------------- MODULE ProvenanceMeaning --------------------------
(***************************************************************************)
(* What the texts of an NPCS response mean, and what the graph and the       *)
(* artifacts of module ProvenanceDag must therefore say.                     *)
(***************************************************************************)
EXTENDS ProvenanceDag

(* What an endpoint evaluates NpcsRewriter's expressions to (Prov.java)      *)

\* An expression is a record: a token, or an operator over a sequence; the second operand
\* of a difference is a sequence, which GROUP_CONCAT joins, empty when OPTIONAL matched none.
RECURSIVE Text(_)
Text(e) ==
    LET after(s, x) == s \o Text(x)
        listed(s, x) == s \o Text(x) \o <<Comma>>
    IN  CASE e.op = "token" -> <<Lexeme("atom", e.token)>>
          [] e.op = "plus"  -> FoldLeft(after, <<Open("plus")>>, e.of) \o <<Close>>
          [] e.op = "times" -> FoldLeft(listed, <<Open("times")>>, e.of) \o <<Close>>
          [] e.op = "minus" -> FoldLeft(after, <<Open("minus")>> \o Text(e.left) \o <<Comma>>, e.of)
                                   \o <<Comma, Close>>

\* Its meaning: whether it holds when exactly the tuples of a world are present.
RECURSIVE Holds(_, _)
Holds(e, world) ==
    CASE e.op = "token" -> e.token \in world
      [] e.op = "plus"  -> \E i \in DOMAIN e.of : Holds(e.of[i], world)
      [] e.op = "times" -> \A i \in DOMAIN e.of : Holds(e.of[i], world)
      [] e.op = "minus" -> Holds(e.left, world) /\ ~\E i \in DOMAIN e.of : Holds(e.of[i], world)

\* A row says in its text what its expression, row.of, is; all of it when it is complete.
ASSUME TextsAssumption == \A r \in Responses : \A i \in DOMAIN r : r[i].text = Text(r[i].of)
Complete(row) == row.kept = Len(row.text)

-----------------------------------------------------------------------------

RECURSIVE TokensOf(_)
TokensOf(e) ==
    (IF e.op = "token" THEN {e.token} ELSE UNION {TokensOf(e.of[i]) : i \in DOMAIN e.of})
    \cup (IF e.op = "minus" THEN TokensOf(e.left) ELSE {})

ResponseTokens == UNION {TokensOf(rows[i].of) : i \in DOMAIN rows}
Means(key, world) == \E i \in DOMAIN rows : rows[i].key = key /\ Holds(rows[i].of, world)

\* A published graph says of every answer, in every world, what its rows say, all of them;
\* and no row of the response was lost or cut short.
DagDenotesResponse ==
    "npcs-answer-metrics.jsonl" \in files =>
        /\ \A i \in DOMAIN rows : Complete(rows[i])
        /\ DOMAIN graphs = Keys
        /\ \A world \in SUBSET ResponseTokens : \A key \in Keys :
               HoldsIn(graphs[key].nodes, world)[graphs[key].root] = Means(key, world)

\* Metrics vouch for a complete run: when they exist and a back end was asked for, every
\* answer has its probability on disk; and it is that of the answer's rows, whether the
\* answers shared a graph and a variable order or not.
Power(n) == MapThenFoldSet(LAMBDA x, y : x * y, 1, LAMBDA i : Unit, LAMBDA S : CHOOSE i \in S : TRUE, 1 .. n)
MetricsVouch ==
    "metrics.json" \in files /\ counting =>
        /\ "probabilities.jsonl" \in files /\ DOMAIN probabilities = Keys
        /\ \A key \in Keys :
               probabilities[key].count * Power(Cardinality(ResponseTokens) - probabilities[key].over)
               = MapThenSumSet(LAMBDA w : Weight(w, ResponseTokens),
                               {w \in SUBSET ResponseTokens : Means(key, w)})
==============================================================================
