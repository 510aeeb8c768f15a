------------------------------ MODULE ScoreBook ------------------------------
(***************************************************************************)
(* What the daily settlement promises about the rows it settles, with no   *)
(* files, no process and no failures: a settled row is entered on one run  *)
(* day for good, and a run day publishes one receipt, once, over rows that *)
(* were entered on it.  A row is the outcome of one (episode, horizon).    *)
(***************************************************************************)
EXTENDS FiniteSets

CONSTANTS Rows, RunDays

VARIABLES
  entered,     \* the <<row, run day>> pairs: which run consumed which row
  published    \* run day -> the rows of its receipt, {} before it is published

book == <<entered, published>>

BookTypeOK ==
  /\ entered \subseteq Rows \X RunDays
  /\ published \in [RunDays -> SUBSET Rows]

EnteredOn(d) == {r \in Rows : <<r, d>> \in entered}
Unentered == {r \in Rows : \A d \in RunDays : <<r, d>> \notin entered}

Init ==
  /\ entered = {}
  /\ published = [d \in RunDays |-> {}]

\* A run of day d enters rows no run has entered before.
Enter(d, S) ==
  /\ S \subseteq Unentered
  /\ entered' = entered \cup (S \X {d})
  /\ UNCHANGED published

\* The receipt of day d: rows entered on d, written once.
Publish(d, S) ==
  /\ published[d] = {}
  /\ S \subseteq EnteredOn(d)
  /\ published' = [published EXCEPT ![d] = S]
  /\ UNCHANGED entered

Next ==
  \E d \in RunDays : \E S \in SUBSET Rows : Enter(d, S) \/ Publish(d, S)

Spec == Init /\ [][Next]_book

(* No row is in the receipts of two days: a score is published once. *)
PublishedOnce ==
  \A d, e \in RunDays : d # e => published[d] \cap published[e] = {}
=============================================================================
