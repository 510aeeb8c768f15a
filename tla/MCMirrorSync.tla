----------------------------- MODULE MCMirrorSync -----------------------------
(***************************************************************************)
(* An instance of MirrorSync for TLC: one large receipt, one small one.    *)
(***************************************************************************)
EXTENDS MirrorSync

MCMiners == {"m1", "m2"}
MCLargeDays == {1, 2}
=============================================================================
