---------------------------- MODULE MCDailyPipeline ----------------------------
(* A small instance of DailyPipeline for TLC. *)
EXTENDS DailyPipeline
=============================================================================
