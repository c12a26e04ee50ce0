-------------------------- MODULE MCWikidataShard --------------------------
(* Instances of WikidataShard and WikidataPqe for TLC. *)
EXTENDS WikidataPqe, TLC

CONSTANTS x, y

\* A basic query, whose NPCS and circuit answers can be compared.
BasicQuery == <<"N-paired", "C-factorised">>

AnyNames == Permutations(Answers)
============================================================================
