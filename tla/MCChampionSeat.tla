--------------------------- MODULE MCChampionSeat ---------------------------
(***************************************************************************)
(* An instance of ChampionSeat for TLC: a champion and two challengers, so *)
(* that a streak can pass from one to the other.                           *)
(***************************************************************************)
EXTENDS ChampionSeat

MCHotkeys == 1 .. 3
MCShutOuts == {{}, {1}, {2}}
MCRipeSets == {MCHotkeys, {1, 2}}
=============================================================================
