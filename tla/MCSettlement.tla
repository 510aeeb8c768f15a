---------------------------- MODULE MCSettlement ----------------------------
(***************************************************************************)
(* Instances of Settlement for TLC.  Row a settles on day 1 and both       *)
(* miners predicted it, row b on day 2 with one miner, row c on day 1 with *)
(* none, row e on day 1 with one miner.                                    *)
(***************************************************************************)
EXTENDS Settlement

CONSTANTS a, b, c, e, x, y

MCMiners == {x, y}
RowsABC == {a, b, c}
RowsAB == {a, b}
RowsAE == {a, e}
MCAnswers == [r \in Rows |-> CASE r = a -> {x, y} [] r = b -> {x} [] r = c -> {} [] r = e -> {y}]
MCSettlesOn == [r \in Rows |-> IF r = b THEN 2 ELSE 1]
=============================================================================
