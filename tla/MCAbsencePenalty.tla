-------------------------- MODULE MCAbsencePenalty --------------------------
(* Small instances of AbsencePenalty for TLC. *)
EXTENDS AbsencePenalty

\* The basket covered, one episode left out, a crash of the container, an
\* image that could not be pulled.
MCResults == {[fault |-> "none", preds |-> Episodes],
              [fault |-> "none", preds |-> Episodes - 1],
              [fault |-> "theirs", preds |-> 0],
              [fault |-> "ours", preds |-> 0]}

\* The same without the partial basket.
MCFewResults == {r \in MCResults : r.fault = "none" => r.preds = Episodes}
=============================================================================
