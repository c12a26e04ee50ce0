--------------------------- MODULE MCProvenanceDag ---------------------------
(* Instances of ProvenanceDag for TLC.                                      *)
EXTENDS ProvenanceMeaning

Token(t) == [op |-> "token", token |-> t]
Plus(s) == [op |-> "plus", of |-> s]
Times(s) == [op |-> "times", of |-> s]
Monus(e, s) == [op |-> "minus", left |-> e, of |-> s]

Atoms == {Token(t) : t \in 1 .. 2}
Few(S) == {<< >>} \cup {<<x>> : x \in S} \cup {<<x, y>> : x, y \in S}
Over(S) == {Plus(s) : s \in Few(S)} \cup {Times(s) : s \in Few(S)} \cup {Monus(e, s) : e \in S, s \in Few(S)}

\* Operators over tokens, and operators over some of those.
Flat == Over(Atoms)
Some == {Token(1), Plus(<< >>), Times(<< >>), Plus(<<Token(1), Token(2)>>), Times(<<Token(2), Token(1)>>),
         Monus(Token(1), << >>), Monus(Token(2), <<Token(1), Token(2)>>),
         Plus(<<Monus(Token(1), <<Monus(Token(1), <<Token(2)>>)>>)>>)}
Deep == Over(Some)

Row(k, e) == [key |-> k, of |-> e, text |-> Text(e), kept |-> Len(Text(e))]
\* All but the last lexeme, and the first one only.
Cuts(k, e) == {[Row(k, e) EXCEPT !.kept = n] : n \in {1, Len(Text(e)) - 1} \ {0}}

AllResponses ==
    {<< >>} \cup {<<Row(1, e)>> : e \in Flat \cup Deep}
    \cup {<<Row(1, e), Row(k, f), Row(1, g)>> : k \in {1, 2}, e \in Some, f \in Some, g \in {Token(2), Times(<<Token(1)>>)}}
    \cup UNION {{<<c>>, <<Row(2, Token(1)), c, Row(1, Token(2))>>} : c \in UNION {Cuts(1, e) : e \in Some \ Atoms}}

\* All tokens, one impossible; one token only.
AllWeights == {<<1, 0>>, <<2>>}
=============================================================================
