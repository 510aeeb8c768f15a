-------------------------- MODULE MCDailyAllocation --------------------------
(***************************************************************************)
(* An instance of DailyAllocation for TLC: three hotkeys, of which one may *)
(* be the house model, and receipts of three days, of which today's may    *)
(* be missing.                                                             *)
(***************************************************************************)
EXTENDS DailyAllocation

MCHotkeys == 1 .. 3
MCColdkeys == {1}
MCHouses == {{}, {3}}
MCPrints == {1, 2}
MCScores == {0, 1}
MCMultipliers == {0, 4}
=============================================================================
