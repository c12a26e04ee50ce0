---------------------------- MODULE MCCellRunner ----------------------------
(* An instance of CellRunner for TLC: two C cells; the executions of the    *)
(* second may differ.                                                       *)
EXTENDS CellRunner

CONSTANTS cell1, cell2, art1, art2, art3

CellOrder == <<cell1, cell2>>

\* art1 and art2 differ as circuits and have the same answers; art3 has other answers.
AnswersOf == [a \in Artifacts |-> IF a = art2 THEN art1 ELSE a]

\* Only the last run of the second cell may differ: the earlier ones may as well be the
\* same, because only pairs of measured runs are compared.
YieldsOf == [c \in Cells |-> [r \in Runs |->
    IF c = cell2 /\ r = Warmups + Measured THEN Artifacts ELSE {art1}]]
=============================================================================
