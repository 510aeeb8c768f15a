--------------------------- MODULE MCChronicFailure ---------------------------
(* Small instances of ChronicFailure for TLC. *)
EXTENDS ChronicFailure

\* A clean run, a crashed container, a host without docker.
MCRuns == {[ok |-> TRUE, error |-> ""],
           [ok |-> FALSE, error |-> "exit"],
           [ok |-> FALSE, error |-> "docker"]}

\* The two results that move a model.
MCTwoRuns == {[ok |-> TRUE, error |-> ""], [ok |-> FALSE, error |-> "exit"]}
=============================================================================
