--------------------------- MODULE MCEpochScoring ---------------------------
(***************************************************************************)
(* An instance of EpochScoring for TLC.  The numbers keep the order of the *)
(* defaults: a 9.C.1 record is shown after two intervals, artifacts after  *)
(* four, a full run takes 12 to 13 of 31 units of space.                   *)
(***************************************************************************)
EXTENDS EpochScoring

MCModes == {"weekly", "daily"}
MCBurns == {"off", "none", "part", "full"}
=============================================================================
