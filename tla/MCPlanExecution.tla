-------------------------- MODULE MCPlanExecution --------------------------
(* Instances of PlanExecution for TLC: plans shaped like those the rewriters *)
(* emit, over relations with two chunks.                                     *)
EXTENDS PlanExecution

MCRelations == {"A", "B", "C", "D"}
MCChunks == {1, 2}

One(reads, writes) == << [reads |-> reads, writes |-> writes] >>

\* A feedback step (a factored pass), a reader, and a closure atom.
Writer(reads, writes) ==
    [declared |-> TRUE, feedback |-> TRUE, path |-> FALSE, rounds |-> One(reads, writes)]
Reader(reads) ==
    [declared |-> TRUE, feedback |-> FALSE, path |-> FALSE, rounds |-> One(reads, {})]
Closure(rounds) ==
    [declared |-> FALSE, feedback |-> TRUE, path |-> TRUE, rounds |-> rounds]

\* Factored BGP: two bases, a join, a marginalisation, the answers.
Factored == << Writer({}, {"A"}), Writer({}, {"B"}), Writer({"A", "B"}, {"C"}),
               Writer({"C"}, {"D"}), Reader({"D"}) >>

\* A closure atom between a materialised operand and the product that joins
\* both; its reach relation C is read by its own second round.
WithClosure == << Writer({}, {"A"}), Reader({}),
                  Closure(<< [reads |-> {}, writes |-> {"C"}],
                             [reads |-> {"C"}, writes |-> {"B"}],
                             [reads |-> {"B"}, writes |-> {}] >>),
                  Reader({}), Reader({"A", "B"}) >>

\* One hash-consed operand planned twice: both steps write the same rows, the
\* second while the first reader may be running.
HashConsed == << Writer({}, {"A"}), Reader({"A"}), Writer({}, {"A"}), Reader({"A"}) >>

\* A MINUS plan of flat readers.
Flat == << Reader({}), Reader({}), Reader({}) >>

\* A mislabelled step: it emits rows and declares no feedback.
Mislabelled == << Writer({}, {"A"}),
                  [declared |-> TRUE, feedback |-> FALSE, path |-> FALSE,
                   rounds |-> One({}, {"B"})],
                  Reader({"A", "B"}) >>

AllPlans == {Factored, WithClosure, HashConsed, Flat, Mislabelled}
ConcurrentPlans == {Factored, HashConsed}
=============================================================================
