----------------------------- MODULE Construction -----------------------------
(***************************************************************************)
(* What executing a construction plan promises, whatever the schedule and   *)
(* whatever fails: gates are accumulated, never retracted, and the caller   *)
(* sees either exactly the wanted circuit or an exception.                  *)
(***************************************************************************)
EXTENDS Integers

VARIABLES
    wanted,    \* the circuit the plan denotes
    circuit,   \* the circuit accumulated so far
    outcome    \* "running", "complete" or "aborted"

vars == <<wanted, circuit, outcome>>

Init == circuit = {} /\ outcome = "running"

Accumulate == /\ outcome = "running"
              /\ circuit \subseteq circuit'
              /\ circuit' \subseteq wanted
              /\ UNCHANGED <<wanted, outcome>>

Complete == /\ outcome = "running"
            /\ circuit = wanted
            /\ outcome' = "complete"
            /\ UNCHANGED <<wanted, circuit>>

Abort == /\ outcome = "running"
         /\ outcome' = "aborted"
         /\ UNCHANGED <<wanted, circuit>>

Next == Accumulate \/ Complete \/ Abort

Spec == Init /\ [][Next]_vars /\ WF_vars(Complete \/ Abort)
=============================================================================
