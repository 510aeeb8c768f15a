------------------------- MODULE MCRegistrationIndex -------------------------
(* A small instance of RegistrationIndex for TLC. *)
EXTENDS RegistrationIndex
=============================================================================
