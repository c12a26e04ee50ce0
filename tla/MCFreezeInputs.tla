-------------------------- MODULE MCFreezeInputs --------------------------
(* An instance of FreezeInputs and StoreRegistration for TLC. *)
EXTENDS FreezeInputs, TLC

AnyOrder == Permutations(Freezers)

SomeOrigins == {<<"http", 0>>, <<"http", 80>>, <<"https", 0>>}

\* "%" is a segment with an escape; a plain name is that of a leaf.
SomeSegments == {"query", "update", "statements", "", "..", "%"}

\* A copy has another name and the same bytes.
SomeFiles == [base |-> 1, reified |-> 2, copy |-> 1]
===========================================================================
