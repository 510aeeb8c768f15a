---------------------------- MODULE MCModelRelease ----------------------------
(***************************************************************************)
(* An instance of ModelRelease for TLC: two hotkeys that run the same      *)
(* image until one of them changes to another, and the records that bring  *)
(* every trigger of the rule: both earn, one earns, the seat passes, is    *)
(* empty, nobody earns.                                                    *)
(***************************************************************************)
EXTENDS ModelRelease

MCHotkeys == {"h1", "h2"}
MCDigests == {1, 2}
MCBare == {2}
Record(earning, champion, withheld) ==
  [earning |-> earning, withheld |-> withheld, champion |-> champion, written |-> TRUE]
MCRecords == {Record({"h1", "h2"}, "h1", {}), Record({"h1"}, "h2", {}),
              Record({"h2"}, NoOne, {"h1"}), Record({}, "h1", {})}
MCRuns == {[h \in MCHotkeys |-> 1],
           [h \in MCHotkeys |-> IF h = "h1" THEN 2 ELSE 1],
           [h \in MCHotkeys |-> NoDigest]}
=============================================================================
