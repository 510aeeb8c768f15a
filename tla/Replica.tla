------------------------------- MODULE Replica -------------------------------
(***************************************************************************)
(* What the mirror promises, with no passes, batches, failures or deaths:  *)
(* documents are issued, again and again, a copy of each follows behind,   *)
(* and what is known of the copy follows behind that.  Neither the copy    *)
(* nor the knowledge of it ever goes back, and neither runs ahead of what  *)
(* it follows: what is known to be served needs no sending.                *)
(***************************************************************************)
EXTENDS Naturals

CONSTANTS Objects, Versions

VARIABLES
  origin,   \* the version of each object that was issued last
  copy,     \* the version the copy serves
  known     \* the version the copy is known to serve

replica == <<origin, copy, known>>

Init == origin \in [Objects -> Versions] /\ copy = origin /\ known = origin

\* Some objects are issued again, in a version none of them had.
Issue(v) ==
  /\ \A obj \in Objects : origin[obj] < v
  /\ origin' \in [Objects -> Versions]
  /\ \A obj \in Objects : origin'[obj] \in {origin[obj], v}
  /\ UNCHANGED <<copy, known>>

\* The copies of some objects are brought up to date.
Copy ==
  /\ copy' \in [Objects -> Versions]
  /\ \A obj \in Objects : copy'[obj] \in {copy[obj], origin[obj]}
  /\ UNCHANGED <<origin, known>>

\* More becomes known of the copy, never more than it serves.
Learn ==
  /\ known' \in [Objects -> Versions]
  /\ \A obj \in Objects : known[obj] <= known'[obj] /\ known'[obj] <= copy[obj]
  /\ UNCHANGED <<origin, copy>>

Next == (\E v \in Versions : Issue(v)) \/ Copy \/ Learn

Spec == Init /\ [][Next]_replica

(* What is known to be served is served, in that version or a later one. *)
NothingAhead == \A obj \in Objects : known[obj] <= copy[obj] /\ copy[obj] <= origin[obj]
=============================================================================
