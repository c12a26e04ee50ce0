--------------------------- MODULE MCRunPipeline ---------------------------
(* Instances of RunPipeline for TLC.                                        *)
EXTENDS RunPipeline

AllConfigs ==
    {[method |-> m, stream |-> s] : m \in {"B", "R", "N"}, s \in BOOLEAN}
    \cup {[method |-> m, stream |-> TRUE] : m \in {"C-flat", "C-factorised", "C-path"}}

Row(k, w, b) == [key |-> k, why |-> w, bare |-> b]

\* Empty, a repeated row, two derivations of one answer, as many rows as the limit and one
\* more, delimited and bare.
AllResponses ==
    {<< >>,
     <<Row("a", 1, FALSE)>>, <<Row("a", 1, TRUE), Row("a", 1, TRUE)>>,
     <<Row("a", 1, FALSE), Row("b", 1, TRUE), Row("a", 2, FALSE)>>}
=============================================================================
