---------------------------- MODULE ProvenanceDag ----------------------------
(***************************************************************************)
(* npcs_postprocess: the rows of an NPCS response, one provenance text each,  *)
(* become one Boolean graph with a root per answer.  Rows of one answer are   *)
(* merged under a sum; a text is parsed by a stack machine, normalised, and   *)
(* interned into the query's graph, or into a graph of its own per answer.    *)
(* What the texts mean, and the graphs, is module ProvenanceMeaning.          *)
(*                                                                           *)
(* Data abstraction: a tuple token is a number, a text a sequence of lexemes. *)
(* A normalised expression is its shape, the sort key of the code: operands   *)
(* are sorted by it and equal ones dropped, so that they form a set.          *)
(***************************************************************************)
EXTENDS Integers, Sequences, FiniteSets, FiniteSetsExt, SequencesExt

CONSTANTS
    Responses,  \* sequences of rows [key, text: its lexemes, kept: how many were received]
    Weights,    \* probability files: functions from tokens to 0 .. Unit
    Unit

ASSUME ProvenanceAssumption ==
    /\ Unit \in Nat \ {0}
    /\ \A r \in Responses : r \in Seq(ToSet(r)) /\ \A i \in DOMAIN r : r[i].key \in Int

VARIABLES
    rows, mode,         \* the response; shared or per-answer
    arrived,            \* the rows that were kept of it, in a stream beside the row count
    counting, weights,  \* whether a back end is asked for, and its probability file
    phase,              \* extract, next, parse, normalize, reach, intern, validate, compile,
                        \* done, rejected, killed
    answers,            \* the merged answers: a sequence of [key, text]
    at,                 \* the answer at work
    input, arena, frames, root,   \* of parse_expression
    local, mapped,      \* the shapes of the normalised arena, in order of creation; per raw node, its
    reached, frontier,  \* of _Arena.reachable: the shapes seen, and those to look at
    toGlobal,           \* of add_answer: the node of each interned shape
    nodes, answerRoots, \* of MultiRootDag: its nodes, and which are answer roots
    graphs,             \* per answer, its graph and its root in it
    probabilities,      \* per answer, its weighted count and over how many tokens
    files               \* the published artifacts

response == <<rows, arrived, mode, counting, weights>>
parser == <<input, arena, frames, root>>
normal == <<local, mapped>>
search == <<reached, frontier, toGlobal>>
dag == <<nodes, answerRoots>>
result == <<probabilities, files>>
dagVars == <<response, phase, answers, at, parser, normal, search, dag, graphs, result>>

-----------------------------------------------------------------------------
(* The text of a provenance expression                                       *)

Lexeme(kind, value) == [kind |-> kind, value |-> value]
Open(op) == Lexeme("open", op)
Comma == Lexeme("comma", 0)
Close == Lexeme("close", 0)

\* A store may cut a long literal.
Received(row) == SubSeq(row.text, 1, row.kept)

-----------------------------------------------------------------------------

\* All of them, or all but the last: a worker died while the response was streamed.
Arrivals(all) == {all} \cup {Front(r) : r \in {all} \ {<< >>}}

DagInit ==
    /\ rows \in Responses /\ arrived \in Arrivals(rows) /\ mode \in {"shared", "per-answer"}
    /\ phase = "extract" /\ answers = << >> /\ at = 0
    /\ input = << >> /\ arena = << >> /\ frames = << >> /\ root = 0
    /\ local = << >> /\ mapped = << >> /\ reached = {} /\ frontier = {} /\ toGlobal = << >>
    /\ nodes = << >> /\ answerRoots = {} /\ graphs = << >>
    /\ counting \in BOOLEAN /\ weights \in IF counting THEN Weights ELSE {<< >>}
    /\ probabilities = << >> /\ files = {}

Keys == {rows[i].key : i \in DOMAIN rows}
RowsOf(key) == SelectSeq(arrived, LAMBDA row : row.key = key)

MergedText_Last(key) == Received(Last(RowsOf(key)))

\* The rows of one answer, under a sum.  (The code sorts them; a sum does not care.)
MergedText(key) ==
    LET all == RowsOf(key)
        after(s, row) == s \o Received(row)
    IN  IF Len(all) = 1 THEN Received(all[1])
        ELSE FoldLeft(after, <<Open("plus")>>, all) \o <<Close>>

Reject ==
    /\ phase' = "rejected"
    /\ UNCHANGED <<response, answers, at, parser, normal, search, dag, graphs, result>>

\* The row count of the response is known apart from the rows (or a response that is
\* cut short is not JSON).
AllArrived == Len(arrived) = Len(rows)

Answered == {arrived[i].key : i \in DOMAIN arrived}
InKeyOrder == CHOOSE s \in [1 .. Cardinality(Answered) -> Answered] : \A i, j \in DOMAIN s : i < j => s[i] < s[j]

\* The rows are kept on disk before any of them is parsed.
Extract ==
    /\ phase = "extract"
    /\ IF ~AllArrived THEN Reject
       ELSE /\ phase' = "next"
            /\ answers' = [i \in 1 .. Cardinality(Answered) |->
                              [key |-> InKeyOrder[i], text |-> MergedText(InKeyOrder[i])]]
            /\ files' = {"npcs-provenance.jsonl"}
            /\ UNCHANGED <<response, at, parser, normal, search, dag, graphs, probabilities>>

\* The next answer; a graph of its own when answers are processed one by one.
NextAnswer ==
    /\ phase = "next" /\ at < Len(answers)
    /\ IF answers[at + 1].text = << >> THEN Reject
       ELSE /\ at' = at + 1 /\ phase' = "parse"
            /\ input' = answers[at + 1].text
            /\ arena' = << >> /\ frames' = << >> /\ root' = 0 /\ local' = << >> /\ mapped' = << >>
            /\ IF mode = "per-answer" THEN nodes' = << >> /\ answerRoots' = {} ELSE UNCHANGED dag
            /\ UNCHANGED <<response, answers, search, graphs, result>>

-----------------------------------------------------------------------------
(* parse_expression                                                          *)

RawNode(op, token, kids) == [op |-> op, token |-> token, kids |-> kids]

\* A new node goes to the last group of the innermost operator, or becomes the root.
Attached(stack, id) ==
    LET top == Last(stack)
        group == Append(Last(top.groups), id)
    IN  Append(Front(stack), [top EXCEPT !.groups = Append(Front(@), group)])

Attach(stack, node) ==
    /\ arena' = Append(arena, node)
    /\ IF stack # << >> THEN frames' = Attached(stack, Len(arena')) /\ UNCHANGED root
       ELSE frames' = << >> /\ root' = Len(arena')

Lexed(kind) == phase = "parse" /\ input # << >> /\ Head(input).kind = kind
Consume == input' = Tail(input)
           /\ UNCHANGED <<response, phase, answers, at, normal, search, dag, graphs, result>>

\* A second expression at top level.
Misplaced == frames = << >> /\ root # 0

ParseOpen ==
    /\ Lexed("open")
    /\ frames' = Append(frames, [op |-> Head(input).value, groups |-> << << >> >>])
    /\ Consume /\ UNCHANGED <<arena, root>>

ParseAtom ==
    /\ Lexed("atom")
    /\ IF Misplaced THEN Reject
       ELSE Attach(frames, RawNode("leaf", Head(input).value, << >>)) /\ Consume

ParseComma ==
    /\ Lexed("comma")
    /\ IF frames = << >> THEN Reject
       ELSE /\ frames' = Append(Front(frames), [Last(frames) EXCEPT !.groups = Append(@, << >>)])
            /\ Consume /\ UNCHANGED <<arena, root>>

\* A comma before the closing parenthesis opens no operand.
Operands(op, groups) ==
    IF ((op = "times" /\ Len(groups) > 1) \/ (op = "minus" /\ Len(groups) = 3)) /\ Last(groups) = << >>
    THEN Front(groups) ELSE groups

WellFormed(op, groups) ==
    \/ op = "plus" /\ Len(groups) = 1
    \/ op = "times" /\ (groups = << << >> >> \/ \A i \in DOMAIN groups : Len(groups[i]) = 1)
    \/ op = "minus" /\ Len(groups) = 2 /\ Len(groups[1]) = 1

\* The operands of a sum are adjacent; other operands are between commas.
Listed(groups) == IF Len(groups) = 1 THEN groups[1] ELSE [i \in DOMAIN groups |-> groups[i][1]]

\* The subtrahend's slot may hold any number of expressions: their sum.
ParseClose ==
    /\ Lexed("close")
    /\ IF frames = << >> THEN Reject
       ELSE LET op == Last(frames).op
                groups == Operands(op, Last(frames).groups)
                outer == Front(frames)
            IN  IF ~WellFormed(op, groups) \/ (outer = << >> /\ root # 0) THEN Reject
                ELSE /\ Consume
                     /\ IF op = "minus" /\ Len(groups[2]) # 1
                        THEN LET sum == RawNode("plus", 0, groups[2])
                                 id == Len(arena) + 1
                                 node == RawNode("minus", 0, <<groups[1][1], id>>)
                             IN  /\ arena' = arena \o <<sum, node>>
                                 /\ IF outer # << >> THEN frames' = Attached(outer, id + 1) /\ UNCHANGED root
                                    ELSE frames' = << >> /\ root' = id + 1
                        ELSE Attach(outer, RawNode(op, 0, Listed(groups)))

ParseEnd ==
    /\ phase = "parse" /\ input = << >>
    /\ IF frames # << >> \/ root = 0 THEN Reject
       ELSE phase' = "normalize" /\ UNCHANGED <<response, answers, at, parser, normal, search, dag, graphs, result>>

-----------------------------------------------------------------------------
(* normalize_boolean                                                         *)

Shape(op, token, kids) == [op |-> op, token |-> token, kids |-> kids]
Const(value) == Shape("const", value, {})
False == Const(0)
True == Const(1)

MakeNot(s) ==
    CASE s.op = "const" -> Const(1 - s.token)
      [] s.op = "not"   -> CHOOSE k \in s.kids : TRUE
      [] OTHER          -> Shape("not", 0, {s})

\* Operands of the same operator are flattened, constants absorbed, equal operands merged.
MakeNary(op, kids) ==
    LET identity == IF op = "and" THEN True ELSE False
        annihilator == IF op = "and" THEN False ELSE True
        flat == UNION {IF k.op = op THEN k.kids ELSE {k} : k \in kids}
        kept == flat \ {identity}
    IN  IF annihilator \in flat THEN annihilator
        ELSE IF kept = {} THEN identity
        ELSE IF Cardinality(kept) = 1 THEN CHOOSE k \in kept : TRUE
        ELSE Shape(op, 0, kept)

\* The raw nodes in order, each after its operands; the shapes made on the way are kept.
NormalizeNode ==
    /\ phase = "normalize" /\ Len(mapped) < Len(arena)
    /\ LET raw == arena[Len(mapped) + 1]
           operand(i) == mapped[raw.kids[i]]
           operands == {operand(i) : i \in DOMAIN raw.kids}
           negated == MakeNot(operand(2))
           made == CASE raw.op = "leaf"  -> <<Shape("leaf", raw.token, {})>>
                     [] raw.op = "plus"  -> <<MakeNary("or", operands)>>
                     [] raw.op = "times" -> <<MakeNary("and", operands)>>
                     [] raw.op = "minus" -> <<negated, MakeNary("and", {operand(1), negated})>>
       IN  local' = local \o made /\ mapped' = Append(mapped, Last(made))
    /\ UNCHANGED <<response, phase, answers, at, parser, search, dag, graphs, result>>

Expression == mapped[root]

Normalized ==
    /\ phase = "normalize" /\ Len(mapped) = Len(arena) /\ phase' = "reach"
    /\ reached' = {} /\ frontier' = {Expression} /\ toGlobal' = << >>
    /\ UNCHANGED <<response, answers, at, parser, normal, dag, graphs, result>>

-----------------------------------------------------------------------------
(* MultiRootDag                                                              *)

\* _Arena.reachable, all that is to be looked at in one step.
Reach ==
    /\ phase = "reach" /\ frontier # {}
    /\ reached' = reached \cup frontier
    /\ frontier' = (UNION {s.kids : s \in frontier}) \ reached'
    /\ UNCHANGED <<response, phase, answers, at, parser, normal, toGlobal, dag, graphs, result>>

Reached ==
    /\ phase = "reach" /\ frontier = {} /\ phase' = "intern"
    /\ UNCHANGED <<response, answers, at, parser, normal, search, dag, graphs, result>>

Expressions == DOMAIN nodes \ answerRoots

Interned_Always(node) == Len(nodes) + 1

\* The node's id: that of its equal among the expression nodes, or a new one.
Interned(node) ==
    IF \E i \in Expressions : nodes[i] = node THEN CHOOSE i \in Expressions : nodes[i] = node
    ELSE Len(nodes) + 1

\* What add_answer has still to intern.  (An equal shape made earlier stands for the one
\* reached: that changes the numbering of the nodes, not what they are.)
Waiting == {i \in DOMAIN local : local[i] \in reached \ DOMAIN toGlobal}

\* add_answer: the reachable shapes in the order of their creation, operands first.
InternNode ==
    /\ phase = "intern"
    /\ \E n \in Waiting :
           /\ \A i \in Waiting : n <= i
           /\ LET s == local[n]
                  node == Shape(s.op, s.token, {toGlobal[k] : k \in s.kids})
                  i == Interned(node)
              IN  /\ nodes' = IF i > Len(nodes) THEN Append(nodes, node) ELSE nodes
                  /\ toGlobal' = [t \in DOMAIN toGlobal \cup {s} |-> IF t = s THEN i ELSE toGlobal[t]]
    /\ UNCHANGED <<response, phase, answers, at, parser, normal, reached, frontier, answerRoots, graphs, result>>

\* Then a root of the answer's own, which is never shared.
AddAnswer ==
    /\ phase = "intern" /\ Waiting = {}
    /\ LET new == Len(nodes) + 1
       IN  /\ nodes' = Append(nodes, Shape("or", 0, {toGlobal[Expression]}))
           /\ answerRoots' = answerRoots \cup {new}
           /\ graphs' = [k \in DOMAIN graphs \cup {answers[at].key} |->
                            IF k = answers[at].key THEN [nodes |-> nodes', root |-> new]
                            ELSE IF mode = "shared" THEN [graphs[k] EXCEPT !.nodes = nodes']
                            ELSE graphs[k]]
    /\ phase' = IF mode = "per-answer" \/ at = Len(answers) THEN "validate" ELSE "next"
    /\ UNCHANGED <<response, answers, at, parser, normal, search, result>>

\* MultiRootDag.validate: once per graph.
Valid ==
    /\ \A i \in DOMAIN nodes : \A k \in nodes[i].kids : k < i
    /\ \A i \in answerRoots : nodes[i].op = "or" /\ Cardinality(nodes[i].kids) = 1
    /\ mode = "shared" => answerRoots = {graphs[k].root : k \in DOMAIN graphs}

Validate ==
    /\ phase = "validate"
    /\ IF ~Valid THEN Reject
       ELSE /\ phase' = IF mode = "per-answer" /\ counting THEN "compile" ELSE "next"
            /\ UNCHANGED <<response, answers, at, parser, normal, search, dag, graphs, result>>

-----------------------------------------------------------------------------
(* The back end (module CircuitCompiler) and the artifacts                   *)

\* The nodes that hold in a world, from the leaves up.
HoldsIn(graph, world) ==
    LET value[i \in DOMAIN graph] ==
            LET node == graph[i] IN
            CASE node.op = "leaf"  -> node.token \in world
              [] node.op = "const" -> node.token = 1
              [] node.op = "not"   -> ~\E k \in node.kids : value[k]
              [] node.op = "and"   -> \A k \in node.kids : value[k]
              [] node.op = "or"    -> \E k \in node.kids : value[k]
    IN  value

Tokens(graph) == {node.token : node \in {n \in ToSet(graph) : n.op = "leaf"}}
Covered(graph) == Tokens(graph) \subseteq DOMAIN weights

\* The weight of a world over some tokens; a token without a weight is certain.
Weight(world, tokens) ==
    LET of(t) == IF t \in DOMAIN weights THEN weights[t] ELSE Unit
        factor(t) == IF t \in world THEN of(t) ELSE Unit - of(t)
    IN  MapThenFoldSet(LAMBDA x, y : x * y, 1, factor, LAMBDA S : CHOOSE t \in S : TRUE, tokens)

\* compile_and_wmc.
Counted(g) ==
    LET tokens == Tokens(g.nodes)
        models == {w \in SUBSET tokens : HoldsIn(g.nodes, w)[g.root]}
    IN  [count |-> MapThenSumSet(LAMBDA w : Weight(w, tokens), models), over |-> Cardinality(tokens)]

\* One answer's graph, with the weights of its own tokens.
CompileAnswer ==
    /\ phase = "compile"
    /\ IF ~Covered(nodes) THEN Reject
       ELSE /\ probabilities' = [k \in DOMAIN probabilities \cup {answers[at].key} |->
                   IF k = answers[at].key THEN Counted(graphs[k]) ELSE probabilities[k]]
            /\ phase' = "next"
            /\ UNCHANGED <<response, answers, at, parser, normal, search, dag, graphs, files>>

Artifacts_MetricsFirst == <<"npcs-provenance.jsonl", "metrics.json", "probabilities.jsonl">>

\* In the order of their publication.
Artifacts ==
    <<"npcs-provenance.jsonl">>
    \o (IF mode = "shared" THEN <<"npcs-hc-dag.json">> ELSE << >>)
    \o <<"npcs-answer-metrics.jsonl">>
    \o (IF counting THEN <<"variable-order.txt", "probabilities.jsonl">> ELSE << >>)
    \o <<"metrics.json">>

Unpublished == SelectSeq(Artifacts, LAMBDA name : name \notin files)
AllAnswered == phase = "next" /\ at = Len(answers) /\ Unpublished # << >>

\* The shared graph is compiled when it is on disk.
CompileShared ==
    /\ AllAnswered /\ mode = "shared" /\ counting /\ Head(Unpublished) = "variable-order.txt"
    /\ DOMAIN probabilities # Answered
    /\ IF ~Covered(nodes) THEN Reject
       ELSE /\ probabilities' = [k \in Answered |-> Counted(graphs[k])]
            /\ UNCHANGED <<response, phase, answers, at, parser, normal, search, dag, graphs, files>>

Publish ==
    /\ AllAnswered
    /\ Head(Unpublished) = "variable-order.txt" => DOMAIN probabilities = Answered
    /\ files' = files \cup {Head(Unpublished)}
    /\ phase' = IF Len(Unpublished) = 1 THEN "done" ELSE phase
    /\ UNCHANGED <<response, answers, at, parser, normal, search, dag, graphs, probabilities>>

Crash ==
    /\ phase \notin {"done", "rejected", "killed"} /\ phase' = "killed"
    /\ UNCHANGED <<response, answers, at, parser, normal, search, dag, graphs, result>>

Ended == phase \in {"done", "rejected", "killed"} /\ UNCHANGED dagVars

DagNext ==
    \/ Extract \/ NextAnswer
    \/ ParseOpen \/ ParseAtom \/ ParseComma \/ ParseClose \/ ParseEnd
    \/ NormalizeNode \/ Normalized \/ Reach \/ Reached \/ InternNode \/ AddAnswer
    \/ Validate \/ CompileAnswer \/ CompileShared \/ Publish \/ Crash \/ Ended

DagSpec == DagInit /\ [][DagNext]_dagVars

-----------------------------------------------------------------------------

\* The graph is canonical at all times: an expression occurs once in it, no operand repeats
\* its operator, is a constant or is alone, no negation is negated; every answer has a root
\* to itself, also where answers have one expression; and nodes come after their operands.
DagIsCanonical ==
    /\ \A i, j \in Expressions : nodes[i] = nodes[j] => i = j
    /\ \A i \in Expressions :
           /\ nodes[i].kids \subseteq {j \in Expressions : j < i}
           /\ nodes[i].op \in {"and", "or"} =>
                  /\ Cardinality(nodes[i].kids) > 1
                  /\ \A k \in nodes[i].kids : nodes[k].op \notin {nodes[i].op, "const"}
           /\ nodes[i].op = "not" => \A k \in nodes[i].kids : nodes[k].op \notin {"not", "const"}
    /\ mode = "shared" =>
           /\ answerRoots = {graphs[k].root : k \in DOMAIN graphs}
           /\ Cardinality(answerRoots) = Cardinality(DOMAIN graphs)
    /\ mode = "per-answer" => answerRoots \subseteq {Len(nodes)}
=============================================================================
