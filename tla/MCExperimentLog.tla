------------------------- MODULE MCExperimentLog -------------------------
(* Instances of ExperimentLog for TLC. *)
EXTENDS ExperimentLog

TwoCells == <<"shared", "per-root">>
OneInstance == [c \in {"shared", "per-root"} |-> "circuit"]
==========================================================================
