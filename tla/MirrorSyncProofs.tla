--------------------------- MODULE MirrorSyncProofs ---------------------------
(***************************************************************************)
(* The mirror for any number of days, miners, failures, repairs and dying  *)
(* passes.  Editions only grow on their way from the record to the mirror  *)
(* to the validator's ledger (`Ordered'), and while a pass goes on every   *)
(* document of the last days is served, still to be sent or failed         *)
(* (`Accounted').                                                          *)
(*                                                                         *)
(* The release rule for any records, runs and parameters.  What the replay *)
(* computes for a day is described by the records up to it (`RuleHolds'),  *)
(* by induction over the days, and it reads nothing later (`ReplayReads'): *)
(* so the ledger of a later day keeps the releases of an earlier one, a    *)
(* record or basket written again leaves those of the days before it       *)
(* alone, and what the step copied stays released but for the rest         *)
(* (`Firm').                                                               *)
(***************************************************************************)
EXTENDS MirrorSync, ModelRelease, FiniteSetTheorems, WellFoundedInduction, TLAPS

-----------------------------------------------------------------------------
(* Documents *)

LEMMA LeastExists ==
  ASSUME NEW S, S \subseteq Nat, S # {}
  PROVE  \E m \in S : \A n \in S : m <= n
<1>1. PICK m \in S : \A n \in S : <<n, m>> \notin OpToRel(<, Nat)
  BY WFMin, NatLessThanWellFounded, Zenon
<1>2. \A n \in S : <<n, m>> \in Nat \X Nat
  OBVIOUS
<1>3. \A n \in S : ~ (n < m)
  BY <1>1, <1>2, Zenon DEF OpToRel
<1> QED
  BY <1>3

\* The large receipt taken next is one of those to be sent.
LEMMA EarliestIsOne ==
  ASSUME NEW S \in SUBSET Receipts, S # {}
  PROVE  Earliest(S) \in S
<1> DEFINE T == {doc[2] : doc \in S}
<1>1. T \subseteq Nat /\ T # {}
  BY DEF Receipts, Days
<1>2. PICK t \in T : \A u \in T : t <= u
  BY <1>1, LeastExists, Zenon
<1>3. PICK doc \in S : doc[2] = t
  OBVIOUS
<1>4. \A other \in S : doc[2] <= other[2]
  BY <1>2, <1>3
<1>5. \E x \in S : \A other \in S : x[2] <= other[2]
  BY <1>4
<1> QED
  BY <1>5, Zenon DEF Earliest

LEMMA DocKinds ==
  /\ Receipts \subseteq Docs /\ Slices \subseteq Docs /\ Index \in Docs
  /\ Items \subseteq Docs
  /\ Receipts \cap Slices = {} /\ Accuracies \cap Slices = {} /\ Index \notin Slices
  /\ Items \cap Slices = {}
  /\ \A doc \in Items : IsLarge(doc) => doc \in Receipts
BY MinersAssumption
   DEF Docs, Items, Receipts, Accuracies, Slices, Index, IsLarge

LEMMA NothingIsZero ==
  /\ Nothing \in [Docs -> Editions]
  /\ \A doc \in Docs : Nothing[doc] = 0
BY DaysAssumption, BoundsAssumption DEF Nothing, Never, Editions

-----------------------------------------------------------------------------
(* The invariant *)

Counted == edition = days + repairs /\ repairs \in 0 .. MaxRepairs

Ordered ==
  \A doc \in Docs :
    /\ shipped[doc] <= mirror[doc] /\ known[doc] <= mirror[doc]
    /\ confirmed[doc] <= mirror[doc] /\ mirror[doc] <= ledger[doc]
    /\ ledger[doc] <= edition

Accounted ==
  pc # "idle" =>
    /\ \A doc \in Items : mirror[doc] = ledger[doc] \/ doc \in small \cup large \cup bad
    /\ pc = "slices" => small = {} /\ large # {}
    /\ pc = "record" => small = {} /\ large = {}

\* A pass confirms no less than it found recorded.
Confirming == pc # "idle" => \A doc \in Docs : shipped[doc] <= confirmed[doc]

Inv == TypeOK /\ Counted /\ Ordered /\ Accounted

LEMMA InitInv == Init => Inv
<1> SUFFICES ASSUME Init PROVE Inv
  OBVIOUS
<1>1. TypeOK /\ Counted
  BY NothingIsZero, DaysAssumption, BoundsAssumption
     DEF Init, NoPass, TypeOK, Counted, Editions
<1>2. Ordered
  BY NothingIsZero DEF Init, NoPass, Ordered
<1>3. Accounted
  BY DEF Init, NoPass, Accounted
<1> QED
  BY <1>1, <1>2, <1>3 DEF Inv

\* What a pass stores and confirms keeps the order of editions.
LEMMA StoreConfirm ==
  ASSUME Inv, NEW S \in SUBSET Docs, NEW C \in SUBSET S, Store(S),
         Confirm(C) \/ UNCHANGED confirmed
  PROVE  /\ mirror' \in [Docs -> Editions] /\ confirmed' \in [Docs -> Editions]
         /\ \A doc \in Docs : /\ mirror[doc] <= mirror'[doc] /\ mirror'[doc] <= ledger[doc]
                              /\ confirmed'[doc] <= mirror'[doc]
         /\ \A doc \in S : mirror'[doc] = ledger[doc]
         /\ \A doc \in Docs : mirror[doc] = ledger[doc] => mirror'[doc] = ledger[doc]
<1>1. /\ ledger \in [Docs -> Editions] /\ mirror \in [Docs -> Editions]
      /\ confirmed \in [Docs -> Editions] /\ Editions \subseteq Nat
  BY DEF Inv, TypeOK, Editions
<1>2. mirror' = [doc \in Docs |-> IF doc \in S THEN ledger[doc] ELSE mirror[doc]]
  BY DEF Store
<1>3. \A doc \in Docs : confirmed'[doc] = confirmed[doc] \/ (doc \in C /\ confirmed'[doc] = ledger[doc])
  BY DEF Confirm
<1>4. confirmed' \in [Docs -> Editions]
  BY <1>1 DEF Confirm
<1>5. \A doc \in Docs : mirror'[doc] = IF doc \in S THEN ledger[doc] ELSE mirror[doc]
  BY <1>2
<1>6. \A doc \in Docs : mirror[doc] <= ledger[doc] /\ confirmed[doc] <= mirror[doc]
  BY DEF Inv, Ordered
<1>7. \A doc \in Docs : ledger[doc] \in Nat /\ mirror[doc] \in Nat /\ confirmed[doc] \in Nat
  BY <1>1
<1>8. mirror' \in [Docs -> Editions]
  BY <1>1, <1>2
<1> QED
  BY <1>3, <1>4, <1>5, <1>6, <1>7, <1>8

\* One batch: what was in it is served or failed.
LEMMA BatchKeeps ==
  ASSUME Inv, NEW docs \in SUBSET Docs, NEW batch \in SUBSET docs, PostBatch(docs, batch)
  PROVE  /\ mirror' \in [Docs -> Editions] /\ confirmed' \in [Docs -> Editions]
         /\ bad' \subseteq Docs /\ bad \subseteq bad'
         /\ \A doc \in Docs : /\ mirror[doc] <= mirror'[doc] /\ mirror'[doc] <= ledger[doc]
                              /\ confirmed'[doc] <= mirror'[doc]
         /\ \A doc \in Docs : mirror[doc] = ledger[doc] => mirror'[doc] = ledger[doc]
         /\ \A doc \in batch : mirror'[doc] = ledger[doc] \/ doc \in bad'
<1>1. bad \subseteq Docs
  BY DEF Inv, TypeOK
<1>2. CASE \E refused \in SUBSET batch : /\ Store(batch \ refused)
                                         /\ Confirm(Confirmed(batch, refused))
                                         /\ bad' = bad \cup refused
  <2>1. PICK refused \in SUBSET batch : /\ Store(batch \ refused)
                                        /\ Confirm(Confirmed(batch, refused))
                                        /\ bad' = bad \cup refused
    BY <1>2
  <2>2. Confirmed(batch, refused) \in SUBSET (batch \ refused) /\ batch \ refused \in SUBSET Docs
    BY DEF Confirmed
  <2> QED
    BY <1>1, <2>1, <2>2, StoreConfirm
<1>3. CASE /\ \E stored \in {{}, batch} : Store(stored)
           /\ bad' = bad \cup batch
           /\ UNCHANGED confirmed
  <2>1. PICK stored \in {{}, batch} : Store(stored)
    BY <1>3
  <2>2. stored \in SUBSET Docs /\ {} \in SUBSET stored
    OBVIOUS
  <2> QED
    BY <1>1, <1>3, <2>1, <2>2, StoreConfirm
<1> QED
  BY <1>2, <1>3 DEF PostBatch

\* Days are published and repaired between passes.
LEMMA IssueInv ==
  ASSUME Inv, NEW S, Issue(S), pc = "idle",
         edition + 1 = days' + repairs', days' \in 0 .. MaxDay, repairs' \in 0 .. MaxRepairs,
         UNCHANGED <<mirror, shipped, pc, pass>>
  PROVE  Inv'
<1>1. edition' = edition + 1 /\ edition' \in Editions /\ edition \in Nat
  <2>1. edition' = edition + 1
    BY DEF Issue
  <2>2. edition \in Nat
    BY DEF Inv, TypeOK, Editions
  <2>3. days' \in Nat /\ repairs' \in Nat /\ days' <= MaxDay /\ repairs' <= MaxRepairs
        /\ MaxDay \in Nat /\ MaxRepairs \in Nat
    BY DaysAssumption, BoundsAssumption
  <2>4. edition + 1 \in 0 .. (MaxDay + MaxRepairs)
    <3>1. \A a, b, c, x, y \in Nat : a + 1 = b + c /\ b <= x /\ c <= y
                                      => a + 1 \in 0 .. (x + y)
      OBVIOUS
    <3>2. edition + 1 = days' + repairs'
      OBVIOUS
    <3> QED
      BY <2>2, <2>3, <3>1, <3>2
  <2> QED
    BY <2>1, <2>2, <2>4 DEF Editions
<1>2. ledger' = [doc \in Docs |-> IF doc[2] \in S \/ doc = Index THEN edition + 1 ELSE ledger[doc]]
  BY DEF Issue
<1>3. ledger' \in [Docs -> Editions]
  BY <1>1, <1>2 DEF Inv, TypeOK
<1>4. \A doc \in Docs : ledger'[doc] = edition + 1 \/ ledger'[doc] = ledger[doc]
  BY <1>2
<1>5. Ordered'
  <2> SUFFICES ASSUME NEW doc \in Docs
               PROVE  mirror[doc] <= ledger'[doc] /\ ledger'[doc] <= edition'
    BY DEF Inv, Ordered, pass
  <2>1. mirror[doc] \in Nat /\ ledger[doc] \in Nat
    BY DEF Inv, TypeOK, Editions
  <2> QED
    BY <1>1, <1>4, <2>1 DEF Inv, Ordered
<1>6. TypeOK'
  BY <1>1, <1>3 DEF Inv, TypeOK, pass
<1>7. Counted' /\ Accounted'
  BY <1>1 DEF Counted, Accounted
<1> QED
  BY <1>5, <1>6, <1>7 DEF Inv

\* Sorting the documents: what is not sent is served as the validator has it.
LEMMA StartPassInv == Inv /\ StartPass => Inv'
<1> SUFFICES ASSUME Inv, StartPass PROVE Inv'
  OBVIOUS
<1>1. PICK deaf \in SUBSET {doc \in Items : MirrorHas(doc)} :
        LET unrecorded == {doc \in Items : Unrecorded(doc)}
            adopted == {doc \in unrecorded \ deaf : MirrorHas(doc)}
            send == (unrecorded \ adopted) \cup {Index}
        IN /\ known' = [doc \in Docs |-> IF doc \in adopted THEN ledger[doc] ELSE shipped[doc]]
           /\ confirmed' = known'
           /\ small' = {doc \in send : ~IsLarge(doc)}
           /\ large' = {doc \in send : IsLarge(doc)}
  BY DEF StartPass
<1> DEFINE unrecorded == {doc \in Items : Unrecorded(doc)}
           adopted == {doc \in unrecorded \ deaf : MirrorHas(doc)}
           send == (unrecorded \ adopted) \cup {Index}
<1>2. /\ pc' = "small"
      /\ UNCHANGED <<edition, days, ledger, mirror, shipped, slices, bad, repairs>>
  BY DEF StartPass, publication
<1>3. /\ ledger \in [Docs -> Editions] /\ mirror \in [Docs -> Editions]
      /\ shipped \in [Docs -> Editions] /\ Editions \subseteq Nat
  BY DEF Inv, TypeOK, Editions
<1>4. known' \in [Docs -> Editions] /\ confirmed' \in [Docs -> Editions]
  BY <1>1, <1>3
<1>5. \A doc \in Docs : known'[doc] = shipped[doc] \/ (known'[doc] = ledger[doc] /\ MirrorHas(doc))
  BY <1>1
<1>6. send \subseteq Items /\ Items \subseteq Docs /\ Items \cap Slices = {}
      /\ \A doc \in Items : IsLarge(doc) => doc \in Receipts
  BY DocKinds DEF Items
<1>7. small' \subseteq Docs \ Slices /\ large' \subseteq Receipts /\ send = small' \cup large'
  BY <1>1, <1>6
<1>8. TypeOK'
  BY <1>2, <1>4, <1>7 DEF Inv, TypeOK
<1>9. Ordered'
  <2> SUFFICES ASSUME NEW doc \in Docs
               PROVE  known'[doc] <= mirror[doc]
    BY <1>1, <1>2 DEF Inv, Ordered
  <2>1. shipped[doc] <= mirror[doc] /\ mirror[doc] \in Nat
    BY <1>3 DEF Inv, Ordered
  <2> QED
    BY <1>5, <2>1 DEF MirrorHas
<1>10. ASSUME NEW doc \in Items, doc \notin send
       PROVE  mirror[doc] = ledger[doc]
  <2>1. doc \in adopted \/ shipped[doc] = ledger[doc]
    BY <1>10 DEF Unrecorded, IsImmutable
  <2>2. /\ shipped[doc] <= mirror[doc] /\ mirror[doc] <= ledger[doc]
        /\ mirror[doc] \in Nat /\ ledger[doc] \in Nat
    BY <1>3, <1>6 DEF Inv, Ordered
  <2> QED
    BY <2>1, <2>2 DEF MirrorHas
<1>11. Items' = Items
  BY <1>2 DEF Items
<1>12. Accounted'
  BY <1>2, <1>7, <1>10, <1>11 DEF Accounted
<1> QED
  BY <1>2, <1>8, <1>9, <1>12 DEF Inv, Counted

\* Facts about the calls of a pass that carry the invariant over.
LEMMA CallInv ==
  ASSUME Inv, pc # "idle",
         UNCHANGED <<edition, days, ledger, shipped, known, repairs>>,
         mirror' \in [Docs -> Editions], confirmed' \in [Docs -> Editions],
         \A doc \in Docs : /\ mirror[doc] <= mirror'[doc] /\ mirror'[doc] <= ledger[doc]
                           /\ confirmed'[doc] <= mirror'[doc],
         bad' \subseteq Docs, slices' \subseteq Slices,
         small' \subseteq small, large' \subseteq large,
         pc' \in {"small", "slices", "record"}, Accounted'
  PROVE  Inv'
<1>1. TypeOK'
  BY DEF Inv, TypeOK
<1>2. Ordered'
  <2> SUFFICES ASSUME NEW doc \in Docs
               PROVE  shipped[doc] <= mirror'[doc] /\ known[doc] <= mirror'[doc]
    BY DEF Inv, Ordered
  <2>1. /\ shipped[doc] \in Nat /\ known[doc] \in Nat /\ mirror[doc] \in Nat
        /\ mirror'[doc] \in Nat
    BY DEF Inv, TypeOK, Editions
  <2>2. mirror[doc] <= mirror'[doc] /\ shipped[doc] <= mirror[doc] /\ known[doc] <= mirror[doc]
    BY DEF Inv, Ordered
  <2> QED
    BY <2>1, <2>2
<1> QED
  BY <1>1, <1>2 DEF Inv, Counted

LEMMA PostSmallInv == Inv /\ PostSmall => Inv'
<1> SUFFICES ASSUME Inv, PostSmall PROVE Inv'
  OBVIOUS
<1>1. PICK batch \in SUBSET small : PostBatch(small, batch) /\ small' = small \ batch
  BY DEF PostSmall
<1>2. /\ pc = "small" /\ small \in SUBSET Docs
      /\ UNCHANGED <<edition, days, ledger, shipped, pc, known, large, slices, repairs>>
  BY DEF PostSmall, publication, Inv, TypeOK
<1>3. /\ mirror' \in [Docs -> Editions] /\ confirmed' \in [Docs -> Editions]
      /\ bad' \subseteq Docs /\ bad \subseteq bad'
      /\ \A doc \in Docs : /\ mirror[doc] <= mirror'[doc] /\ mirror'[doc] <= ledger[doc]
                           /\ confirmed'[doc] <= mirror'[doc]
      /\ \A doc \in Docs : mirror[doc] = ledger[doc] => mirror'[doc] = ledger[doc]
      /\ \A doc \in batch : mirror'[doc] = ledger[doc] \/ doc \in bad'
  BY <1>1, <1>2, BatchKeeps
<1>4. Accounted'
  <2>1. Items' = Items /\ Items \subseteq Docs
    BY <1>2, DocKinds DEF Items
  <2> QED
    BY <1>1, <1>2, <1>3, <2>1 DEF Accounted, Inv
<1>5. slices' \subseteq Slices
  BY <1>2 DEF Inv, TypeOK
<1> QED
  BY <1>1, <1>2, <1>3, <1>4, <1>5, CallInv

LEMMA PostSlicesInv == Inv /\ PostSlices => Inv'
<1> SUFFICES ASSUME Inv, PostSlices PROVE Inv'
  OBVIOUS
<1>1. PICK batch \in SUBSET slices : PostBatch(slices, batch) /\ slices' = slices \ batch
  BY DEF PostSlices
<1>2. /\ pc = "slices" /\ slices \in SUBSET Docs /\ slices \subseteq Slices
      /\ UNCHANGED <<edition, days, ledger, shipped, pc, known, small, large, repairs>>
  BY DocKinds DEF PostSlices, publication, Inv, TypeOK
<1>3. /\ mirror' \in [Docs -> Editions] /\ confirmed' \in [Docs -> Editions]
      /\ bad' \subseteq Docs /\ bad \subseteq bad'
      /\ \A doc \in Docs : /\ mirror[doc] <= mirror'[doc] /\ mirror'[doc] <= ledger[doc]
                           /\ confirmed'[doc] <= mirror'[doc]
      /\ \A doc \in Docs : mirror[doc] = ledger[doc] => mirror'[doc] = ledger[doc]
  BY <1>1, <1>2, BatchKeeps
<1>4. Accounted'
  <2>1. Items' = Items /\ Items \subseteq Docs
    BY <1>2, DocKinds DEF Items
  <2> QED
    BY <1>2, <1>3, <2>1 DEF Accounted, Inv
<1> QED
  BY <1>1, <1>2, <1>3, <1>4, CallInv

LEMMA NextLargeInv == Inv /\ NextLarge => Inv'
<1> SUFFICES ASSUME Inv, NextLarge PROVE Inv'
  OBVIOUS
<1>1. /\ pc = "small" /\ small = {}
      /\ UNCHANGED <<edition, days, ledger, mirror, shipped, known, small, large, confirmed,
                     bad, repairs>>
  BY DEF NextLarge, publication
<1>2. /\ large = {} => pc' = "record" /\ slices' = slices
      /\ large # {} => pc' = "slices" /\ slices' = {doc \in Miners \X {Earliest(large)[2]} :
                                                      known[doc] # ledger[doc]}
  BY DEF NextLarge
<1>3. large # {} => Earliest(large)[2] \in Days
  BY EarliestIsOne DEF Inv, TypeOK, Receipts
<1>4. slices' \subseteq Slices
  BY <1>2, <1>3 DEF Slices, Inv, TypeOK
<1>5. Accounted'
  <2>1. Items' = Items
    BY <1>1 DEF Items
  <2> QED
    BY <1>1, <1>2, <2>1 DEF Accounted, Inv
<1>6. /\ mirror' \in [Docs -> Editions] /\ confirmed' \in [Docs -> Editions]
      /\ \A doc \in Docs : mirror[doc] \in Nat /\ confirmed[doc] <= mirror[doc]
                             /\ mirror[doc] <= ledger[doc]
      /\ bad' \subseteq Docs
  BY <1>1 DEF Inv, TypeOK, Ordered, Editions
<1> QED
  BY <1>1, <1>2, <1>4, <1>5, <1>6, CallInv

LEMMA ShipObjectInv == Inv /\ ShipObject => Inv'
<1> SUFFICES ASSUME Inv, ShipObject PROVE Inv'
  OBVIOUS
<1> DEFINE receipt == Earliest(large)
<1>1. /\ pc = "slices" /\ pc' = "small" /\ large' = large \ {receipt}
      /\ UNCHANGED <<edition, days, ledger, shipped, known, small, slices, repairs>>
  BY DEF ShipObject, publication
<1>2. receipt \in large /\ receipt \in Docs
  BY <1>1, EarliestIsOne, DocKinds DEF Inv, Accounted, TypeOK
<1>3. \/ /\ Store({receipt}) /\ bad' = bad
         /\ Confirm({receipt}) \/ Confirm({})
      \/ /\ \E stored \in {{}, {receipt}} : Store(stored)
         /\ bad' = bad \cup {receipt} /\ UNCHANGED confirmed
  BY DEF ShipObject
<1>4. bad \subseteq Docs
  BY DEF Inv, TypeOK
<1>5. /\ mirror' \in [Docs -> Editions] /\ confirmed' \in [Docs -> Editions]
      /\ bad' \subseteq Docs /\ bad \subseteq bad'
      /\ \A doc \in Docs : /\ mirror[doc] <= mirror'[doc] /\ mirror'[doc] <= ledger[doc]
                           /\ confirmed'[doc] <= mirror'[doc]
      /\ \A doc \in Docs : mirror[doc] = ledger[doc] => mirror'[doc] = ledger[doc]
      /\ mirror'[receipt] = ledger[receipt] \/ receipt \in bad'
  <2> HIDE DEF receipt
  <2>1. {receipt} \in SUBSET Docs /\ {} \in SUBSET {receipt} /\ {receipt} \in SUBSET {receipt}
        /\ {} \in SUBSET Docs /\ {} \in SUBSET {}
    BY <1>2
  <2>2. CASE /\ Store({receipt}) /\ bad' = bad
             /\ Confirm({receipt}) \/ Confirm({})
    BY <1>4, <2>1, <2>2, StoreConfirm
  <2>3. CASE /\ \E stored \in {{}, {receipt}} : Store(stored)
             /\ bad' = bad \cup {receipt} /\ UNCHANGED confirmed
    <3>1. PICK stored \in {{}, {receipt}} : Store(stored)
      BY <2>3
    <3> QED
      BY <1>2, <1>4, <2>1, <2>3, <3>1, StoreConfirm
  <2> QED
    BY <1>3, <2>2, <2>3
<1>6. Accounted'
  <2>1. Items' = Items /\ Items \subseteq Docs
    BY <1>1, DocKinds DEF Items
  <2> QED
    BY <1>1, <1>2, <1>5, <2>1 DEF Accounted, Inv
<1>7. slices' \subseteq Slices
  BY <1>1 DEF Inv, TypeOK
<1> QED
  BY <1>1, <1>5, <1>6, <1>7, CallInv

\* The pass ends or dies: what was confirmed is recorded, or nothing is.
LEMMA EndPassInv ==
  ASSUME Inv, EndPass, shipped' \in {shipped, confirmed},
         UNCHANGED <<edition, days, ledger, mirror, repairs>>
  PROVE  Inv'
<1>1. TypeOK'
  BY NothingIsZero DEF Inv, TypeOK, EndPass
<1>2. Ordered'
  <2> SUFFICES ASSUME NEW doc \in Docs
               PROVE  shipped'[doc] <= mirror[doc] /\ Nothing[doc] <= mirror[doc]
    BY DEF Inv, Ordered, EndPass
  <2>1. mirror[doc] \in Nat
    BY DEF Inv, TypeOK, Editions
  <2> QED
    BY <2>1, NothingIsZero DEF Inv, Ordered
<1>3. Counted' /\ Accounted'
  BY DEF Inv, Counted, Accounted, EndPass
<1> QED
  BY <1>1, <1>2, <1>3 DEF Inv

LEMMA StepInv == Inv /\ [Next]_vars => Inv'
<1> SUFFICES ASSUME Inv, [Next]_vars PROVE Inv'
  OBVIOUS
<1>1. CASE PublishDay
  <2>1. /\ Issue({days + 1}) /\ pc = "idle" /\ days' = days + 1 /\ days < MaxDay
        /\ UNCHANGED <<mirror, shipped, pc, pass, repairs>>
    BY <1>1 DEF PublishDay
  <2>2. /\ edition + 1 = days' + repairs' /\ days' \in 0 .. MaxDay
        /\ repairs' \in 0 .. MaxRepairs
    BY <2>1, DaysAssumption, BoundsAssumption DEF Inv, TypeOK, Counted
  <2> QED
    BY <2>1, <2>2, IssueInv
<1>2. CASE RepairFrom
  <2>1. /\ pc = "idle" /\ repairs' = repairs + 1 /\ repairs < MaxRepairs
        /\ UNCHANGED <<days, mirror, shipped, pc, pass>>
    BY <1>2 DEF RepairFrom
  <2>2. /\ edition + 1 = days' + repairs' /\ days' \in 0 .. MaxDay
        /\ repairs' \in 0 .. MaxRepairs
    BY <2>1, DaysAssumption, BoundsAssumption DEF Inv, TypeOK, Counted
  <2>3. PICK d \in 1 .. days : Issue(d .. days)
    BY <1>2 DEF RepairFrom
  <2> QED
    BY <2>1, <2>2, <2>3, IssueInv
<1>3. CASE RecordShipped
  BY <1>3, EndPassInv DEF RecordShipped, publication
<1>4. CASE PassDies
  BY <1>4, EndPassInv DEF PassDies, publication
<1>5. CASE UNCHANGED vars
  BY <1>5 DEF vars, publication, pass, Inv, TypeOK, Counted, Ordered, Accounted, Items
<1> QED
  BY <1>1, <1>2, <1>3, <1>4, <1>5, StartPassInv, PostSmallInv, NextLargeInv,
     PostSlicesInv, ShipObjectInv DEF Next

-----------------------------------------------------------------------------
(* Theorems *)

\* Every variable keeps its type; in particular no pass takes an edition the
\* validator has not issued.
THEOREM TypeCorrect == Spec => []TypeOK
<1>1. Inv => TypeOK
  BY DEF Inv
<1> QED
  BY <1>1, InitInv, StepInv, PTL DEF Spec

\* A recorded document is served in the recorded edition or a later one,
\* whatever calls failed, were refused or lost their answer (sync_mirror, flush).
THEOREM RecordIsServed == Spec => []RecordedIsServed
<1>1. Inv => RecordedIsServed
  BY DEF Inv, Ordered, RecordedIsServed, Served!NothingAhead
<1> QED
  BY <1>1, InitInv, StepInv, PTL DEF Spec

-----------------------------------------------------------------------------
(* The mirror and its record implement the abstract replica. *)

\* One or more calls: something is stored, nothing recorded, and a confirmation
\* is of an edition as new as any recorded.
LEMMA CallIsCopy ==
  ASSUME Inv, Confirming, NEW S \in SUBSET Docs, Store(S), NEW C \in SUBSET Docs,
         Confirm(C) \/ UNCHANGED confirmed, UNCHANGED <<ledger, shipped>>, pc # "idle"
  PROVE  Confirming' /\ Served!Copy
<1>1. /\ shipped \in [Docs -> Editions] /\ confirmed \in [Docs -> Editions]
      /\ ledger \in [Docs -> Editions] /\ mirror \in [Docs -> Editions] /\ Editions \subseteq Nat
  BY DEF Inv, TypeOK, Editions
<1>2. \A doc \in Docs : confirmed'[doc] = confirmed[doc] \/ confirmed'[doc] = ledger[doc]
  BY DEF Confirm
<1>3. \A doc \in Docs : shipped[doc] <= mirror[doc] /\ mirror[doc] <= ledger[doc]
                        /\ shipped[doc] <= confirmed[doc]
  BY DEF Inv, Ordered, Confirming
<1>4. ASSUME NEW doc \in Docs PROVE shipped'[doc] <= confirmed'[doc]
  <2>1. shipped[doc] \in Nat /\ mirror[doc] \in Nat /\ ledger[doc] \in Nat
    BY <1>1
  <2> QED
    BY <1>2, <1>3, <2>1
<1>5. /\ mirror' \in [Docs -> Editions]
      /\ \A doc \in Docs : mirror'[doc] \in {mirror[doc], ledger[doc]}
  BY <1>1 DEF Store
<1> QED
  BY <1>4, <1>5 DEF Confirming, Served!Copy

LEMMA BatchIsCopy ==
  ASSUME Inv, Confirming, NEW docs \in SUBSET Docs, NEW batch \in SUBSET docs,
         PostBatch(docs, batch), UNCHANGED <<ledger, shipped>>, pc # "idle"
  PROVE  Confirming' /\ Served!Copy
<1>1. CASE \E refused \in SUBSET batch :
             Store(batch \ refused) /\ Confirm(Confirmed(batch, refused))
  <2>1. PICK refused \in SUBSET batch :
               Store(batch \ refused) /\ Confirm(Confirmed(batch, refused))
    BY <1>1
  <2>2. batch \ refused \in SUBSET Docs /\ Confirmed(batch, refused) \in SUBSET Docs
    BY DEF Confirmed
  <2> QED
    BY <2>1, <2>2, CallIsCopy
<1>2. CASE (\E stored \in {{}, batch} : Store(stored)) /\ UNCHANGED confirmed
  <2>1. PICK stored \in {{}, batch} : Store(stored)
    BY <1>2
  <2>2. stored \in SUBSET Docs /\ {} \in SUBSET Docs
    OBVIOUS
  <2> QED
    BY <1>2, <2>1, <2>2, CallIsCopy
<1> QED
  BY <1>1, <1>2 DEF PostBatch

\* The documents of some days are issued in an edition nobody has seen.
LEMMA IssueIsIssue ==
  ASSUME Inv, edition + 1 \in Editions, NEW D, Issue(D), UNCHANGED <<mirror, shipped>>
  PROVE  \E v \in Editions : Served!Issue(v)
<1>1. \A doc \in Docs : ledger[doc] < edition + 1
  BY DEF Inv, TypeOK, Ordered, Editions
<1>2. Served!Issue(edition + 1)
  BY <1>1 DEF Issue, Inv, TypeOK, Served!Issue
<1> QED
  BY <1>2

\* Every step is a step of the replica or leaves it alone.
LEMMA ReplicaStep ==
  ASSUME Inv, Inv', Confirming, [Next]_vars
  PROVE  Confirming' /\ [Served!Next]_(Served!replica)
<1> DEFINE Goal == Confirming' /\ [Served!Next]_(Served!replica)
<1>1. ASSUME Confirming', (\E v \in Editions : Served!Issue(v)) \/ Served!Copy PROVE Goal
  BY <1>1 DEF Served!Next
<1>2. ASSUME UNCHANGED <<ledger, mirror, shipped, pc, confirmed>> PROVE Goal
  BY <1>2 DEF Confirming, Served!replica
<1>3. CASE PublishDay \/ RepairFrom
  <2>1. Confirming'
    BY <1>3 DEF PublishDay, RepairFrom, Confirming
  <2>2. PICK D : Issue(D)
    BY <1>3 DEF PublishDay, RepairFrom
  <2>3. edition' = edition + 1 /\ edition' \in Editions
    BY <2>2 DEF Issue, Inv, TypeOK
  <2>4. UNCHANGED <<mirror, shipped>>
    BY <1>3 DEF PublishDay, RepairFrom
  <2> QED
    BY <1>1, <2>1, <2>2, <2>3, <2>4, IssueIsIssue
<1>4. CASE StartPass
  <2>1. /\ UNCHANGED <<ledger, mirror, shipped>>
        /\ \E A : confirmed' = [doc \in Docs |-> IF doc \in A THEN ledger[doc] ELSE shipped[doc]]
    BY <1>4 DEF StartPass, publication
  <2>2. PICK A : confirmed' = [doc \in Docs |-> IF doc \in A THEN ledger[doc] ELSE shipped[doc]]
    BY <2>1
  <2>3. ASSUME NEW doc \in Docs PROVE shipped[doc] <= confirmed'[doc]
    <3>1. /\ shipped[doc] \in Nat /\ mirror[doc] \in Nat /\ ledger[doc] \in Nat
          /\ shipped[doc] <= mirror[doc] /\ mirror[doc] <= ledger[doc]
      BY DEF Inv, TypeOK, Ordered, Editions
    <3>2. confirmed'[doc] = ledger[doc] \/ confirmed'[doc] = shipped[doc]
      BY <2>2
    <3> QED
      BY <3>1, <3>2
  <2> QED
    BY <2>1, <2>3 DEF Confirming, Served!replica
<1>5. CASE PostSmall
  <2>1. PICK batch \in SUBSET small : PostBatch(small, batch)
    BY <1>5 DEF PostSmall
  <2>2. small \in SUBSET Docs /\ pc # "idle" /\ UNCHANGED <<ledger, shipped>>
    BY <1>5 DEF PostSmall, publication, Inv, TypeOK
  <2> QED
    BY <1>1, <2>1, <2>2, BatchIsCopy
<1>6. CASE NextLarge
  BY <1>6 DEF NextLarge, publication, Confirming, Served!replica
<1>7. CASE PostSlices
  <2>1. PICK batch \in SUBSET slices : PostBatch(slices, batch)
    BY <1>7 DEF PostSlices
  <2>2. slices \in SUBSET Docs /\ pc # "idle" /\ UNCHANGED <<ledger, shipped>>
    BY <1>7, DocKinds DEF PostSlices, publication, Inv, TypeOK
  <2> QED
    BY <1>1, <2>1, <2>2, BatchIsCopy
<1>8. CASE ShipObject
  <2> DEFINE receipt == Earliest(large)
  <2>1. pc # "idle" /\ UNCHANGED <<ledger, shipped>>
    BY <1>8 DEF ShipObject, publication
  <2>2. receipt \in Docs
    BY <1>8, EarliestIsOne, DocKinds DEF ShipObject, Inv, Accounted, TypeOK
  <2>3. \E stored \in {{}, {receipt}} : \E C \in {{}, {receipt}} :
          Store(stored) /\ (Confirm(C) \/ UNCHANGED confirmed)
    BY <1>8 DEF ShipObject
  <2> HIDE DEF receipt
  <2>4. PICK stored \in {{}, {receipt}}, C \in {{}, {receipt}} :
          Store(stored) /\ (Confirm(C) \/ UNCHANGED confirmed)
    BY <2>3
  <2>5. stored \in SUBSET Docs /\ C \in SUBSET Docs
    BY <2>2
  <2> QED
    BY <1>1, <2>1, <2>4, <2>5, CallIsCopy
<1>9. CASE RecordShipped
  <2>1. /\ shipped' = confirmed /\ pc = "record" /\ pc' = "idle" /\ UNCHANGED <<ledger, mirror>>
    BY <1>9 DEF RecordShipped, EndPass, publication
  <2>2. Served!Learn
    BY <2>1 DEF Served!Learn, Inv, TypeOK, Ordered, Confirming
  <2> QED
    BY <2>1, <2>2 DEF Confirming, Served!Next
<1>10. CASE PassDies
  BY <1>10 DEF PassDies, EndPass, publication, Confirming, Served!replica
<1>11. CASE UNCHANGED vars
  BY <1>2, <1>11 DEF vars, publication, pass
<1> QED
  BY <1>3, <1>4, <1>5, <1>6, <1>7, <1>8, <1>9, <1>10, <1>11 DEF Next

\* The mirror implements the replica: it never serves what was not issued, its
\* record says no more than it serves, and neither goes back, whatever calls
\* failed or were answered in part and whenever passes died (sync_mirror).
THEOREM MirrorImplementsReplica == Spec => ImplementsReplica
<1>1. Init => Confirming /\ Served!Init
  BY NothingIsZero DEF Init, NoPass, Confirming, Served!Init
<1>2. [](Inv /\ Confirming) /\ [][Next]_vars => [][Served!Next]_(Served!replica)
  <2>1. Inv /\ Inv' /\ Confirming /\ [Next]_vars => [Served!Next]_(Served!replica)
    BY ReplicaStep
  <2> QED
    BY <2>1, PTL
<1>3. Spec => [](Inv /\ Confirming)
  BY <1>1, InitInv, StepInv, ReplicaStep, PTL DEF Spec
<1> QED
  BY <1>1, <1>2, <1>3, PTL DEF Spec, ImplementsReplica, Served!Spec

\* A pass that ends without a failure or refusal leaves the documents of the
\* last days on the mirror as the validator has them (sync_mirror).
THEOREM CleanPassServes == Spec => []SuccessMeansServed
<1>1. Inv => SuccessMeansServed
  BY DEF Inv, Accounted, SuccessMeansServed
<1> QED
  BY <1>1, InitInv, StepInv, PTL DEF Spec

-----------------------------------------------------------------------------
(* ModelRelease: the replay, day by day *)

\* What holds on day 0 and passes from each day to the next holds on every day.
LEMMA DayInduction ==
  ASSUME NEW S, 0 \in S, \A n \in Nat : n \in S => n + 1 \in S
  PROVE  \A n \in Nat : n \in S
<1> SUFFICES ASSUME Nat \ S # {} PROVE FALSE
  OBVIOUS
<1>1. PICK m \in Nat \ S : \A n \in Nat \ S : m <= n
  BY LeastExists
<1>2. m - 1 \in Nat /\ m - 1 \in S
  BY <1>1
<1> QED
  BY <1>1, <1>2

\* f replays the days up to n.
Folds(f, n) ==
  f = [d \in 0 .. n |-> IF d = 0 THEN EmptyRelease
                        ELSE IF rec[d].written THEN ObserveDay(f[d - 1], d) ELSE f[d - 1]]

LEMMA FoldExists == \A n \in Nat : \E f : Folds(f, n)
<1> DEFINE S == {n \in Nat : \E f : Folds(f, n)}
<1>1. 0 \in S
  <2> DEFINE f == [d \in 0 .. 0 |-> EmptyRelease]
  <2>1. f = [d \in 0 .. 0 |-> IF d = 0 THEN EmptyRelease
                              ELSE IF rec[d].written THEN ObserveDay(f[d - 1], d) ELSE f[d - 1]]
    OBVIOUS
  <2>2. Folds(f, 0)
    BY <2>1, Zenon DEF Folds
  <2> QED
    BY <2>2
<1>2. ASSUME NEW n \in Nat, n \in S PROVE n + 1 \in S
  <2>1. PICK f : Folds(f, n)
    BY <1>2
  <2> DEFINE last == IF rec[n + 1].written THEN ObserveDay(f[n], n + 1) ELSE f[n]
             g == [d \in 0 .. n + 1 |-> IF d = n + 1 THEN last ELSE f[d]]
  <2>2. f = [d \in 0 .. n |-> IF d = 0 THEN EmptyRelease
                              ELSE IF rec[d].written THEN ObserveDay(f[d - 1], d) ELSE f[d - 1]]
    BY <2>1 DEF Folds
  <2>3. ASSUME NEW d \in 0 .. n + 1
        PROVE  g[d] = IF d = 0 THEN EmptyRelease
                      ELSE IF rec[d].written THEN ObserveDay(g[d - 1], d) ELSE g[d - 1]
    <3>1. CASE d = n + 1
      <4>1. d # 0 /\ d - 1 = n /\ g[n] = f[n] /\ g[d] = last
        BY <3>1
      <4> QED
        BY <3>1, <4>1
    <3>2. CASE d # n + 1
      <4>1. d \in 0 .. n /\ g[d] = f[d] /\ (d # 0 => g[d - 1] = f[d - 1])
        BY <3>2
      <4> HIDE DEF g
      <4>2. f[d] = IF d = 0 THEN EmptyRelease
                   ELSE IF rec[d].written THEN ObserveDay(f[d - 1], d) ELSE f[d - 1]
        BY <2>2, <4>1
      <4> QED
        BY <4>1, <4>2
    <3> QED
      BY <3>1, <3>2
  <2>4. g = [d \in 0 .. n + 1 |-> g[d]]
    OBVIOUS
  <2> HIDE DEF g
  <2>5. Folds(g, n + 1)
    BY <2>3, <2>4 DEF Folds
  <2> QED
    BY <2>5
<1> HIDE DEF S
<1>3. \A n \in Nat : n \in S
  BY <1>1, <1>2, DayInduction
<1> QED
  BY <1>3 DEF S

\* Two replays agree as far as they both go.
LEMMA FoldsAgree ==
  ASSUME NEW n \in Nat, NEW f, NEW g, Folds(f, n), Folds(g, n + 1)
  PROVE  \A d \in 0 .. n : f[d] = g[d]
<1> DEFINE S == {d \in Nat : d <= n => f[d] = g[d]}
<1>1. \A d \in 0 .. n : f[d] = IF d = 0 THEN EmptyRelease
                               ELSE IF rec[d].written THEN ObserveDay(f[d - 1], d) ELSE f[d - 1]
  BY DEF Folds
<1>2. \A d \in 0 .. n : g[d] = IF d = 0 THEN EmptyRelease
                               ELSE IF rec[d].written THEN ObserveDay(g[d - 1], d) ELSE g[d - 1]
  BY DEF Folds
<1>3. 0 \in S
  BY <1>1, <1>2
<1>4. ASSUME NEW d \in Nat, d \in S PROVE d + 1 \in S
  <2> SUFFICES ASSUME d + 1 <= n PROVE f[d + 1] = g[d + 1]
    OBVIOUS
  <2>1. d + 1 \in 0 .. n /\ d + 1 # 0 /\ (d + 1) - 1 = d /\ f[d] = g[d]
    BY <1>4
  <2> QED
    BY <1>1, <1>2, <2>1
<1> HIDE DEF S
<1>5. \A d \in Nat : d \in S
  BY <1>3, <1>4, DayInduction
<1> QED
  BY <1>5 DEF S

\* The replay starts empty and observes the recorded days in their order.
LEMMA ReplayFrom == Replay(0) = EmptyRelease
<1>1. PICK f : f = (CHOOSE x : Folds(x, 0)) /\ Folds(f, 0)
  BY FoldExists
<1>2. Replay(0) = f[0]
  BY <1>1, Zenon DEF Replay, Folds
<1> QED
  BY <1>1, <1>2 DEF Folds

LEMMA ReplayNext ==
  ASSUME NEW n \in Nat
  PROVE  Replay(n + 1) = IF rec[n + 1].written THEN ObserveDay(Replay(n), n + 1) ELSE Replay(n)
<1>1. PICK f : f = (CHOOSE x : Folds(x, n)) /\ Folds(f, n)
  BY FoldExists
<1>2. PICK g : g = (CHOOSE x : Folds(x, n + 1)) /\ Folds(g, n + 1)
  BY FoldExists
<1>3. Replay(n) = f[n] /\ Replay(n + 1) = g[n + 1]
  BY <1>1, <1>2, Zenon DEF Replay, Folds
<1>4. f[n] = g[n]
  BY <1>1, <1>2, FoldsAgree
<1>5. g[n + 1] = IF rec[n + 1].written THEN ObserveDay(g[n], n + 1) ELSE g[n]
  <2>1. \A d \in 0 .. n + 1 : g[d] = IF d = 0 THEN EmptyRelease
                               ELSE IF rec[d].written THEN ObserveDay(g[d - 1], d) ELSE g[d - 1]
    BY <1>2 DEF Folds
  <2> QED
    BY <2>1
<1> QED
  BY <1>3, <1>4, <1>5

-----------------------------------------------------------------------------
(* ModelRelease: a day observed *)

ReleaseInputs ==
  /\ rec \in [RunDays -> Records \cup {NotRecorded}]
  /\ ran \in [RunDays -> [Hotkeys -> Digests \cup {NoDigest}]]

LEMMA RecordType ==
  ASSUME ReleaseInputs, NEW d \in RunDays
  PROVE  /\ rec[d].earning \subseteq Hotkeys /\ rec[d].champion \in Hotkeys \cup {NoOne}
         /\ rec[d].written \in BOOLEAN
<1>1. rec[d] \in Records \/ rec[d] = NotRecorded
  BY DEF ReleaseInputs
<1>2. rec[d] \in Records => rec[d] \in [earning : SUBSET Hotkeys, withheld : SUBSET Hotkeys,
                                        champion : Hotkeys \cup {NoOne}, written : {TRUE}]
  BY InputsAssumption
<1>3. CASE rec[d] \in Records
  <2>1. PICK e \in SUBSET Hotkeys, w \in SUBSET Hotkeys, c \in Hotkeys \cup {NoOne}, b \in {TRUE} :
          rec[d] = [earning |-> e, withheld |-> w, champion |-> c, written |-> b]
    BY <1>2, <1>3
  <2> QED
    BY <2>1
<1>4. CASE rec[d] = NotRecorded
  BY <1>4 DEF NotRecorded
<1> QED
  BY <1>1, <1>3, <1>4

\* A nonempty set of run days has a last one.
LEMMA LastExists ==
  ASSUME NEW S, S \subseteq RunDays, S # {}
  PROVE  \E k \in S : \A n \in S : n <= k
<1> DEFINE T == {LastRunDay - n : n \in S}
<1>0. \A n \in S : n \in Nat /\ LastRunDay \in Nat /\ LastRunDay - n \in Nat
  BY ReleaseBoundsAssumption DEF RunDays
<1>1. T \subseteq Nat /\ T # {}
  BY <1>0
<1>2. PICK m \in T : \A u \in T : m <= u
  BY <1>1, LeastExists, Zenon
<1>3. PICK k \in S : m = LastRunDay - k
  OBVIOUS
<1>4. \A n \in S : LastRunDay - k <= LastRunDay - n
  BY <1>2, <1>3
<1> QED
  BY <1>0, <1>4

LEMMA RefType ==
  ASSUME ReleaseInputs, NEW h \in Hotkeys, NEW d \in RunDays
  PROVE  RefBefore(h, d) \in Digests \cup {NoDigest}
<1> DEFINE on == {n \in RunDays : n < d /\ n >= d - Lookback /\ ran[n][h] # NoDigest}
           k == CHOOSE k \in on : \A n \in on : n <= k
<1>1. RefBefore(h, d) = IF on = {} THEN NoDigest ELSE ran[CHOOSE n \in on : \A m \in on : m <= n][h]
  BY Zenon DEF RefBefore
<1>2. on # {} => (CHOOSE n \in on : \A m \in on : m <= n) \in on
  <2>1. on \subseteq RunDays
    OBVIOUS
  <2> HIDE DEF on
  <2>2. on # {} => \E n \in on : \A m \in on : m <= n
    BY <2>1, LastExists
  <2> QED
    BY <2>2, Zenon
<1>3. \A n \in on : ran[n][h] \in Digests
  BY DEF ReleaseInputs
<1> QED
  BY <1>1, <1>2, <1>3

\* What a day pays is pairs of a hotkey and its one digest.
LEMMA EarningType ==
  ASSUME ReleaseInputs, NEW d \in RunDays
  PROVE  /\ \A e \in DayEarning(d) :
              /\ e[1] \in Hotkeys /\ e[2] \in Digests
              /\ e[2] = RefBefore(e[1], d)
         /\ \A e, x \in DayEarning(d) : e[1] = x[1] => e = x
<1>1. \A e \in DayEarning(d) : \E h \in Hotkeys :
        e = <<h, RefBefore(h, d)>> /\ RefBefore(h, d) # NoDigest
  BY RecordType DEF DayEarning
<1>2. \A h \in Hotkeys : RefBefore(h, d) # NoDigest => RefBefore(h, d) \in Digests
  BY RefType
<1> QED
  BY <1>1, <1>2

PaidOn(d) == {e[2] : e \in DayEarning(d)}

DigestStates == [hotkeys : SUBSET Hotkeys, since : RunDays, out : Nat,
                 released : RunDays \cup {NoDay}, reason : Reasons \cup {NoReason}]
RuleStateOK(s) ==
  /\ s = [digests |-> s.digests, champion |-> s.champion, held |-> s.held]
  /\ s.digests \in [DOMAIN s.digests -> DigestStates] /\ DOMAIN s.digests \subseteq Digests
  /\ s.champion \in Hotkeys \cup {NoOne} /\ s.held \in Digests \cup {NoDigest}

\* The reason for which a day releases a digest closed since then and out so long.
ReasonFor(g, since, out, dethroned, d) ==
  IF g \notin PaidOn(d) /\ out >= ReleaseAfterDaysOut THEN "left_earning_set"
  ELSE IF g \in dethroned THEN "dethroned"
  ELSE IF d >= since + MaxEmbargoDays THEN "max_embargo"
  ELSE NoReason

ReleasedAsDue(g, since, out, released, why, dethroned, d) ==
  LET reason == ReasonFor(g, since, out, dethroned, d)
  IN IF reason = NoReason THEN released = NoDay ELSE released = d /\ why = reason

\* What a day does to a digest: nothing to a released one; any other is closed
\* since the first day paid, out for the days since the last, and released when due.
Updates(old, new, s, d) ==
  /\ DOMAIN new = DOMAIN old \cup PaidOn(d) /\ new = [g \in DOMAIN new |-> new[g]]
  /\ \A g \in DOMAIN new :
       /\ new[g] \in DigestStates
       /\ g \in DOMAIN old /\ old[g].released # NoDay => new[g] = old[g]
       /\ ~(g \in DOMAIN old /\ old[g].released # NoDay) =>
            /\ new[g].since = IF g \in DOMAIN old THEN old[g].since ELSE d
            /\ new[g].out = IF g \in PaidOn(d) THEN 0 ELSE old[g].out + 1
            /\ ReleasedAsDue(g, new[g].since, new[g].out, new[g].released, new[g].reason,
                             Dethroned(s, rec[d].champion), d)

LEMMA FreshTyped ==
  ASSUME NEW hks \in SUBSET Hotkeys, NEW d \in RunDays
  PROVE  /\ Fresh(hks, d) \in DigestStates
         /\ Fresh(hks, d).released = NoDay
         /\ Fresh(hks, d).since = d /\ Fresh(hks, d).out = 0
<1>1. Fresh(hks, d) = [hotkeys |-> hks, since |-> d, out |-> 0, released |-> NoDay, reason |-> NoReason]
  BY DEF Fresh
<1>2. [hotkeys |-> hks, since |-> d, out |-> 0, released |-> NoDay, reason |-> NoReason] \in DigestStates
  BY Zenon DEF DigestStates
<1>3. Fresh(hks, d) \in DigestStates
  BY <1>1, <1>2, Zenon
<1>4. Fresh(hks, d).released = NoDay
  BY DEF Fresh
<1>5. Fresh(hks, d).since = d
  BY DEF Fresh
<1>6. Fresh(hks, d).out = 0
  BY DEF Fresh
<1> QED
  BY <1>3, <1>4, <1>5, <1>6, Zenon

LEMMA UpdateTyped ==
  ASSUME NEW x \in DigestStates, NEW hks \in SUBSET Hotkeys, NEW n \in Nat
  PROVE  /\ [x EXCEPT !.hotkeys = hks, !.out = n] \in DigestStates
         /\ [x EXCEPT !.out = n] \in DigestStates
  BY Zenon DEF DigestStates

LEMMA FieldTypes ==
  ASSUME NEW x \in DigestStates
  PROVE  /\ x.hotkeys \in SUBSET Hotkeys /\ x.since \in RunDays /\ x.out \in Nat /\ x.out + 1 \in Nat
         /\ x.released \in RunDays \cup {NoDay} /\ x.reason \in Reasons \cup {NoReason}
<1>1. x.hotkeys \in SUBSET Hotkeys
  BY DEF DigestStates
<1>2. x.since \in RunDays
  BY DEF DigestStates
<1>3. x.out \in Nat
  BY Zenon DEF DigestStates
<1>4. x.released \in RunDays \cup {NoDay} /\ x.reason \in Reasons \cup {NoReason}
  BY DEF DigestStates
<1>5. x.out + 1 \in Nat
  BY <1>3
<1> QED
  BY <1>1, <1>2, <1>3, <1>4, <1>5, Zenon

LEMMA Observed ==
  ASSUME ReleaseInputs, NEW d \in RunDays, NEW s, RuleStateOK(s)
  PROVE  LET t == ObserveDay(s, d)
         IN /\ t = [digests |-> t.digests, champion |-> t.champion, held |-> t.held]
            /\ Updates(s.digests, t.digests, s, d)
            /\ t.champion = IF rec[d].champion = NoOne THEN s.champion ELSE rec[d].champion
            /\ t.held \in Digests \cup {NoDigest}
            /\ rec[d].champion = NoOne => t.held = s.held
            /\ rec[d].champion # NoOne =>
                 /\ \A e \in DayEarning(d) : e[1] = rec[d].champion => t.held = e[2]
                 /\ (\A e \in DayEarning(d) : e[1] # rec[d].champion)
                      => t.held = IF rec[d].champion = s.champion THEN s.held ELSE NoDigest
<1> DEFINE earning   == DayEarning(d)
           paid      == {e[2] : e \in earning}
           by        == [g \in paid |-> {e[1] : e \in {x \in earning : x[2] = g}}]
           champion  == rec[d].champion
           seated    == {e[2] : e \in {x \in earning : x[1] = champion}}
           seatDigest == IF seated = {} THEN NoDigest ELSE CHOOSE g \in seated : TRUE
           closed    == Close(s.digests, by, d)
           counted   == CountOut(closed, by, DayWithheld(d))
           dethroned == Dethroned(s, champion)
           Due(g)    == IF counted[g].released # NoDay THEN NoReason
                        ELSE DueReason(g, counted, by, dethroned, d)
           t == ObserveDay(s, d)
<1>1. t = [digests  |-> [g \in DOMAIN counted |->
                      IF Due(g) = NoReason THEN counted[g]
                      ELSE [counted[g] EXCEPT !.released = d, !.reason = Due(g)]],
           champion |-> IF champion = NoOne THEN s.champion ELSE champion,
           held     |-> IF champion = NoOne \/ (champion = s.champion /\ seatDigest = NoDigest)
                        THEN s.held ELSE seatDigest]
  BY Zenon DEF ObserveDay
<1>2. /\ \A e \in earning : e[1] \in Hotkeys /\ e[2] \in Digests
      /\ \A e, x \in earning : e[1] = x[1] => e = x
  BY EarningType, Zenon
<1>3. paid = PaidOn(d) /\ paid \subseteq Digests
  BY <1>2 DEF PaidOn
<1>4. DOMAIN by = paid /\ \A g \in paid : by[g] \subseteq Hotkeys
  BY <1>2
<1>5. /\ t.champion = IF champion = NoOne THEN s.champion ELSE champion
      /\ t.held = IF champion = NoOne \/ (champion = s.champion /\ seatDigest = NoDigest)
                  THEN s.held ELSE seatDigest
      /\ t.digests = [g \in DOMAIN counted |->
                      IF Due(g) = NoReason THEN counted[g]
                      ELSE [counted[g] EXCEPT !.released = d, !.reason = Due(g)]]
      /\ t = [digests |-> t.digests, champion |-> t.champion, held |-> t.held]
  <2> HIDE DEF counted, dethroned, seatDigest, t
  <2> QED
    BY <1>1
<1>6. NoDigest \notin Digests
  BY ParamsAssumption
<1>7. /\ \A e \in earning : e[1] = champion => seatDigest = e[2]
      /\ (\A e \in earning : e[1] # champion) => seatDigest = NoDigest
      /\ seatDigest \in Digests \cup {NoDigest}
  <2>1. \A e \in earning : e[1] = champion => seated = {e[2]}
    BY <1>2
  <2>2. (\A e \in earning : e[1] # champion) => seated = {}
    OBVIOUS
  <2>3. seated \subseteq Digests
    BY <1>2
  <2> HIDE DEF earning, seated
  <2> QED
    BY <2>1, <2>2, <2>3
<1>8. /\ t.held \in Digests \cup {NoDigest}
      /\ champion = NoOne => t.held = s.held
      /\ champion # NoOne =>
           /\ \A e \in earning : e[1] = champion => t.held = e[2]
           /\ (\A e \in earning : e[1] # champion)
                => t.held = IF champion = s.champion THEN s.held ELSE NoDigest
  <2> HIDE DEF earning, seatDigest, champion, t
  <2>1. s.held \in Digests \cup {NoDigest}
    BY DEF RuleStateOK
  <2>2. \A e \in earning : e[1] = champion => seatDigest # NoDigest
    BY <1>2, <1>6, <1>7
  <2> QED
    BY <1>5, <1>7, <2>1, <2>2
<1> HIDE DEF paid, by, t
<1>9. /\ DOMAIN closed = DOMAIN s.digests \cup paid
      /\ \A g \in DOMAIN closed :
           closed[g] = IF g \notin DOMAIN s.digests THEN Fresh(by[g], d)
                       ELSE IF g \in paid /\ s.digests[g].released = NoDay
                       THEN [s.digests[g] EXCEPT !.hotkeys = @ \cup by[g], !.out = 0]
                       ELSE s.digests[g]
  BY <1>4 DEF Close
<1>10. /\ DOMAIN counted = DOMAIN closed
       /\ \A g \in DOMAIN closed :
            counted[g] = IF closed[g].released # NoDay \/ g \in paid
                         THEN closed[g] ELSE [closed[g] EXCEPT !.out = @ + 1]
  BY <1>4 DEF CountOut, DayWithheld
<1> HIDE DEF closed, counted, dethroned
<1>11. ASSUME NEW g \in DOMAIN counted
       PROVE  /\ counted[g] \in DigestStates
              /\ g \in DOMAIN s.digests /\ s.digests[g].released # NoDay => counted[g] = s.digests[g]
              /\ ~(g \in DOMAIN s.digests /\ s.digests[g].released # NoDay) =>
                   /\ counted[g].released = NoDay
                   /\ counted[g].since = IF g \in DOMAIN s.digests THEN s.digests[g].since ELSE d
                   /\ counted[g].out = IF g \in paid THEN 0 ELSE s.digests[g].out + 1
  <2>1. g \in DOMAIN closed /\ (g \notin DOMAIN s.digests => g \in paid)
    BY <1>9, <1>10
  <2>2. CASE g \notin DOMAIN s.digests
    <3>1. counted[g] = Fresh(by[g], d)
      BY <1>9, <1>10, <2>1, <2>2
    <3>2. by[g] \in SUBSET Hotkeys /\ g \in paid
      BY <1>4, <2>1, <2>2
    <3> QED
      BY <2>2, <3>1, <3>2, FreshTyped
  <2>3. CASE g \in DOMAIN s.digests
    <3>1. s.digests[g] \in DigestStates
      BY <2>3 DEF RuleStateOK
    <3>2. CASE s.digests[g].released # NoDay
      BY <1>9, <1>10, <2>1, <2>3, <3>1, <3>2
    <3>3. CASE s.digests[g].released = NoDay /\ g \in paid
      <4>1. counted[g] = [s.digests[g] EXCEPT !.hotkeys = @ \cup by[g], !.out = 0]
        BY <1>9, <1>10, <2>1, <2>3, <3>3
      <4>2. /\ counted[g].since = s.digests[g].since /\ counted[g].out = 0
            /\ counted[g].released = s.digests[g].released
        BY <3>1, <4>1 DEF DigestStates
      <4>3. counted[g] \in DigestStates
        <5>1. s.digests[g].hotkeys \cup by[g] \in SUBSET Hotkeys
          BY <1>4, <3>1, <3>3, FieldTypes
        <5>2. [s.digests[g] EXCEPT !.hotkeys = s.digests[g].hotkeys \cup by[g], !.out = 0] \in DigestStates
          <6>1. 0 \in Nat
            OBVIOUS
          <6> QED
            BY <3>1, <5>1, <6>1, UpdateTyped, Zenon
        <5> QED
          BY <4>1, <5>2, Zenon
      <4> QED
        BY <2>3, <3>3, <4>2, <4>3
    <3>4. CASE s.digests[g].released = NoDay /\ g \notin paid
      <4>1. counted[g] = [s.digests[g] EXCEPT !.out = @ + 1]
        BY <1>9, <1>10, <2>1, <2>3, <3>4
      <4>2. /\ counted[g].since = s.digests[g].since /\ counted[g].out = s.digests[g].out + 1
            /\ counted[g].released = s.digests[g].released
        BY <3>1, <4>1 DEF DigestStates
      <4>3. counted[g] \in DigestStates
        <5>1. s.digests[g].out + 1 \in Nat
          BY <3>1, FieldTypes, Zenon
        <5> QED
          BY <3>1, <4>1, <5>1, UpdateTyped, Zenon
      <4> QED
        BY <2>3, <3>4, <4>2, <4>3
    <3> QED
      BY <3>2, <3>3, <3>4
  <2> QED
    BY <2>2, <2>3
<1>12. ASSUME NEW g \in DOMAIN counted
       PROVE  /\ t.digests[g] \in DigestStates
              /\ counted[g].released # NoDay => t.digests[g] = counted[g]
              /\ counted[g].released = NoDay =>
                   /\ t.digests[g].since = counted[g].since /\ t.digests[g].out = counted[g].out
                   /\ ReleasedAsDue(g, counted[g].since, counted[g].out, t.digests[g].released,
                                    t.digests[g].reason, dethroned, d)
  <2>1. t.digests[g] = IF Due(g) = NoReason THEN counted[g]
                       ELSE [counted[g] EXCEPT !.released = d, !.reason = Due(g)]
    BY <1>5
  <2>2. counted[g] \in DigestStates
    BY <1>11
  <2>3. counted[g].released = NoDay =>
          Due(g) = ReasonFor(g, counted[g].since, counted[g].out, dethroned, d)
    BY <1>3, <1>4 DEF DueReason, ReasonFor
  <2>4. Due(g) \in Reasons \cup {NoReason}
    BY DEF DueReason, Reasons
  <2>5. counted[g].released # NoDay => Due(g) = NoReason
    OBVIOUS
  <2> HIDE DEF Due
  <2>6. CASE Due(g) = NoReason
    BY <2>1, <2>2, <2>3, <2>6 DEF ReleasedAsDue
  <2>7. CASE Due(g) # NoReason
    <3>1. t.digests[g] = [counted[g] EXCEPT !.released = d, !.reason = Due(g)]
      BY <2>1, <2>7
    <3> QED
      BY <2>2, <2>3, <2>4, <2>5, <2>7, <3>1 DEF DigestStates, ReleasedAsDue
  <2> QED
    BY <2>6, <2>7
<1>13. Updates(s.digests, t.digests, s, d)
  <2>1. DOMAIN t.digests = DOMAIN counted /\ t.digests = [g \in DOMAIN t.digests |-> t.digests[g]]
    BY <1>5
  <2>2. DOMAIN counted = DOMAIN s.digests \cup PaidOn(d)
    BY <1>3, <1>9, <1>10
  <2> QED
    BY <1>3, <1>11, <1>12, <2>1, <2>2 DEF Updates, dethroned
<1> QED
  BY <1>5, <1>8, <1>13 DEF t

-----------------------------------------------------------------------------
(* ModelRelease: what the replay computes *)

Earned(g, n) == {d \in EarnedOn(g) : d <= n}
OutSince(g, n) == {d \in RecordedUpTo(n) : \A e \in Earned(g, n) : d > e}

ClosedSince(g, since, n) == Earned(g, n) # {} /\ \A e \in Earned(g, n) : since <= e

\* Why a digest closed since then was released on day n, by the records up to it.
DueOn(g, since, reason, n) ==
  /\ reason \in Reasons
  /\ reason = "left_earning_set" => Cardinality(OutSince(g, n)) = ReleaseAfterDaysOut
  /\ reason = "max_embargo" => n - since >= MaxEmbargoDays
  /\ reason = "dethroned" => \E d \in Earned(g, n) : rec[d].champion \notin {NoOne, rec[n].champion}

\* A closed digest is closed since it first earned and counts the recorded days
\* since it last did; a released one was due on the day of its release.
FieldsHold(g, since, out, released, reason, n) ==
  /\ released = NoDay => /\ ClosedSince(g, since, n)
                         /\ out = Cardinality(OutSince(g, n)) /\ out < ReleaseAfterDaysOut
  /\ released # NoDay => /\ released <= n
                         /\ ClosedSince(g, since, released) /\ DueOn(g, since, reason, released)
DigestHolds(g, x, n) == FieldsHold(g, x.since, x.out, x.released, x.reason, n)

\* The seat is that of the last day with a champion, and so is what it held if
\* that day paid it; whatever is held, the champion earned with.
SeatHolds(s, n) ==
  /\ \A d \in RunDays :
       /\ d <= n /\ rec[d].champion # NoOne
       /\ \A k \in RunDays : d < k /\ k <= n => rec[k].champion = NoOne
       => /\ s.champion = rec[d].champion
          /\ \A e \in DayEarning(d) : e[1] = rec[d].champion => s.held = e[2]
  /\ s.held # NoDigest =>
       /\ s.champion # NoOne
       /\ \E d \in Earned(s.held, n) : rec[d].champion = s.champion

\* Whoever takes the seat over on day k from the holder of day d.
Successor(d, k) ==
  /\ d < k
  /\ rec[d].champion # NoOne /\ rec[k].champion # NoOne
  /\ rec[d].champion # rec[k].champion
  /\ \A i \in RunDays : d < i /\ i < k => rec[i].champion = NoOne

DethronedHolds(s, n) ==
  \A d, k \in RunDays :
    k <= n /\ Successor(d, k) =>
      \A e \in DayEarning(d) : e[1] = rec[d].champion =>
        /\ e[2] \in DOMAIN s.digests
        /\ s.digests[e[2]].released # NoDay /\ s.digests[e[2]].released <= k

RuleHolds(s, n) ==
  /\ RuleStateOK(s)
  /\ \A g \in Digests : g \in DOMAIN s.digests <=> Earned(g, n) # {}
  /\ \A g \in DOMAIN s.digests : DigestHolds(g, s.digests[g], n)
  /\ SeatHolds(s, n)
  /\ DethronedHolds(s, n)

LEMMA EarnedNext ==
  ASSUME ReleaseInputs, NEW n \in Nat, n + 1 \in RunDays, NEW g
  PROVE  /\ Earned(g, n) \subseteq RunDays /\ \A d \in Earned(g, n) : d <= n
         /\ Earned(g, n + 1) = IF g \in PaidOn(n + 1) /\ rec[n + 1].written
                               THEN Earned(g, n) \cup {n + 1} ELSE Earned(g, n)
<1>1. \A d \in RunDays : d \in Nat /\ (d <= n + 1 <=> d <= n \/ d = n + 1)
  BY DEF RunDays
<1>2. EarnedOn(g) \subseteq RunDays
  BY DEF EarnedOn, Recorded
<1>3. n + 1 \in EarnedOn(g) <=> g \in PaidOn(n + 1) /\ rec[n + 1].written
  BY DEF EarnedOn, Recorded, PaidOn
<1>4. Earned(g, n) \subseteq RunDays /\ \A d \in Earned(g, n) : d <= n
  BY <1>2 DEF Earned
<1>5. CASE n + 1 \in EarnedOn(g)
  BY <1>1, <1>2, <1>3, <1>4, <1>5 DEF Earned
<1>6. CASE n + 1 \notin EarnedOn(g)
  BY <1>1, <1>2, <1>3, <1>4, <1>6 DEF Earned
<1> QED
  BY <1>4, <1>5, <1>6

LEMMA OutNext ==
  ASSUME ReleaseInputs, NEW n \in Nat, n + 1 \in RunDays, NEW g
  PROVE  /\ ~rec[n + 1].written => OutSince(g, n + 1) = OutSince(g, n)
         /\ rec[n + 1].written /\ g \in PaidOn(n + 1) => OutSince(g, n + 1) = {}
         /\ rec[n + 1].written /\ g \notin PaidOn(n + 1) => OutSince(g, n + 1) = OutSince(g, n) \cup {n + 1}
         /\ n + 1 \notin OutSince(g, n) /\ IsFiniteSet(OutSince(g, n))
<1>1. \A d \in RunDays : d \in Nat /\ (d <= n + 1 <=> d <= n \/ d = n + 1)
  BY DEF RunDays
<1>2. /\ Recorded \subseteq RunDays
      /\ n + 1 \in Recorded <=> rec[n + 1].written
      /\ RecordedUpTo(n) \subseteq RunDays
      /\ RecordedUpTo(n + 1) = IF rec[n + 1].written THEN RecordedUpTo(n) \cup {n + 1} ELSE RecordedUpTo(n)
  <2>1. Recorded \subseteq RunDays /\ (n + 1 \in Recorded <=> rec[n + 1].written)
    BY DEF Recorded
  <2>2. CASE n + 1 \in Recorded
    BY <1>1, <2>1, <2>2 DEF RecordedUpTo
  <2>3. CASE n + 1 \notin Recorded
    BY <1>1, <2>1, <2>3 DEF RecordedUpTo
  <2> QED
    BY <2>1, <2>2, <2>3 DEF RecordedUpTo
<1>3. /\ Earned(g, n) \subseteq RunDays /\ \A d \in Earned(g, n) : d <= n
      /\ Earned(g, n + 1) = IF g \in PaidOn(n + 1) /\ rec[n + 1].written
                            THEN Earned(g, n) \cup {n + 1} ELSE Earned(g, n)
  BY EarnedNext
<1>4. \A d \in RecordedUpTo(n) : d <= n
  BY DEF RecordedUpTo
<1>5. ~rec[n + 1].written => OutSince(g, n + 1) = OutSince(g, n)
  BY <1>2, <1>3 DEF OutSince
<1>6. rec[n + 1].written /\ g \in PaidOn(n + 1) => OutSince(g, n + 1) = {}
  <2> SUFFICES ASSUME rec[n + 1].written, g \in PaidOn(n + 1), NEW d \in RecordedUpTo(n + 1)
               PROVE  ~(d > n + 1)
    BY <1>3 DEF OutSince
  <2> QED
    BY <1>1, <1>2, <1>4
<1>7. rec[n + 1].written /\ g \notin PaidOn(n + 1) => OutSince(g, n + 1) = OutSince(g, n) \cup {n + 1}
  <2>1. \A e \in Earned(g, n) : n + 1 > e
    BY <1>1, <1>3
  <2> QED
    BY <1>2, <1>3, <2>1 DEF OutSince
<1>8. n + 1 \notin OutSince(g, n)
  BY <1>4 DEF OutSince
<1>9. IsFiniteSet(OutSince(g, n))
  <2>1. IsFiniteSet(RunDays)
    BY FS_Interval, ReleaseBoundsAssumption DEF RunDays
  <2>2. OutSince(g, n) \subseteq RunDays
    BY <1>2 DEF OutSince
  <2> QED
    BY <2>1, <2>2, FS_Subset
<1> QED
  BY <1>5, <1>6, <1>7, <1>8, <1>9

LEMMA UnwrittenIsEmpty ==
  ASSUME ReleaseInputs, NEW d \in RunDays, ~rec[d].written
  PROVE  rec[d].champion = NoOne
<1>1. rec[d] \in Records => rec[d].written = TRUE
  BY InputsAssumption
<1>2. rec[d] = NotRecorded
  BY <1>1 DEF ReleaseInputs
<1> QED
  BY <1>2 DEF NotRecorded

\* A day without a record changes nothing.
LEMMA RuleSkips ==
  ASSUME ReleaseInputs, NEW n \in Nat, n + 1 \in RunDays, ~rec[n + 1].written,
         NEW s, RuleHolds(s, n)
  PROVE  RuleHolds(s, n + 1)
<1>1. \A g : Earned(g, n + 1) = Earned(g, n) /\ OutSince(g, n + 1) = OutSince(g, n)
  BY EarnedNext, OutNext
<1>2. rec[n + 1].champion = NoOne
  BY UnwrittenIsEmpty
<1>3. \A d \in RunDays : d \in Nat /\ (d <= n + 1 <=> d <= n \/ d = n + 1)
  BY DEF RunDays
<1>4. RuleStateOK(s) /\ \A g \in Digests : g \in DOMAIN s.digests <=> Earned(g, n + 1) # {}
  BY <1>1 DEF RuleHolds
<1>5. ASSUME NEW g, NEW since, NEW out, NEW released \in RunDays \cup {NoDay}, NEW reason,
             FieldsHold(g, since, out, released, reason, n)
      PROVE  FieldsHold(g, since, out, released, reason, n + 1)
  <2>1. released # NoDay /\ released <= n => released <= n + 1
    BY <1>3
  <2> QED
    BY <1>1, <1>5, <2>1 DEF FieldsHold, ClosedSince
<1>8. ASSUME NEW g \in DOMAIN s.digests PROVE DigestHolds(g, s.digests[g], n + 1)
  <2>1. DigestHolds(g, s.digests[g], n) /\ s.digests[g].released \in RunDays \cup {NoDay}
    BY <1>8, FieldTypes DEF RuleHolds, RuleStateOK
  <2> QED
    BY <1>5, <2>1, Zenon DEF DigestHolds
<1>6. SeatHolds(s, n + 1)
  BY <1>1, <1>2, <1>3 DEF RuleHolds, SeatHolds
<1>7. DethronedHolds(s, n + 1)
  BY <1>2, <1>3 DEF RuleHolds, DethronedHolds, Successor
<1> QED
  BY <1>4, <1>6, <1>7, <1>8 DEF RuleHolds

LEMMA NoReasonIsNone == NoReason \notin Reasons
  BY Zenon DEF NoReason, Reasons

LEMMA WhyReleased ==
  ASSUME NEW g, NEW since, NEW out, NEW dethroned, NEW d
  PROVE  LET reason == ReasonFor(g, since, out, dethroned, d)
         IN /\ reason \in Reasons \cup {NoReason}
            /\ reason = NoReason => ~(g \notin PaidOn(d) /\ out >= ReleaseAfterDaysOut)
            /\ reason = "left_earning_set" => out >= ReleaseAfterDaysOut
            /\ reason = "dethroned" => g \in dethroned
            /\ reason = "max_embargo" => d >= since + MaxEmbargoDays
<1>1. NoReason \notin Reasons
  BY NoReasonIsNone
<1> QED
  BY <1>1 DEF ReasonFor, Reasons

\* A digest closed before a recorded day, after it: the day it is due is the day
\* it goes out.
LEMMA DigestObserved ==
  ASSUME ReleaseInputs, NEW n \in Nat, n + 1 \in RunDays, rec[n + 1].written,
         NEW s, RuleHolds(s, n), NEW g \in DOMAIN s.digests \cup PaidOn(n + 1),
         NEW was \in Nat, NEW before \in RunDays,
         g \in DOMAIN s.digests => FieldsHold(g, before, was, NoDay, NoReason, n),
         NEW since \in RunDays, NEW out \in Nat, NEW released, NEW why,
         since = IF g \in DOMAIN s.digests THEN before ELSE n + 1,
         out = IF g \in PaidOn(n + 1) THEN 0 ELSE was + 1,
         ReleasedAsDue(g, since, out, released, why, Dethroned(s, rec[n + 1].champion), n + 1)
  PROVE  FieldsHold(g, since, out, released, why, n + 1)
<1> DEFINE c == rec[n + 1].champion
           reason == ReasonFor(g, since, out, Dethroned(s, c), n + 1)
<1>1. /\ Earned(g, n) \subseteq RunDays /\ \A d \in Earned(g, n) : d <= n
      /\ Earned(g, n + 1) = IF g \in PaidOn(n + 1) THEN Earned(g, n) \cup {n + 1} ELSE Earned(g, n)
  BY EarnedNext
<1>2. /\ g \in PaidOn(n + 1) => OutSince(g, n + 1) = {}
      /\ g \notin PaidOn(n + 1) => OutSince(g, n + 1) = OutSince(g, n) \cup {n + 1}
      /\ n + 1 \notin OutSince(g, n) /\ IsFiniteSet(OutSince(g, n))
  BY OutNext
<1>3. g \in DOMAIN s.digests =>
        /\ ClosedSince(g, before, n)
        /\ was = Cardinality(OutSince(g, n)) /\ was < ReleaseAfterDaysOut
  BY DEF FieldsHold
<1>4. g \in Digests
  BY EarningType DEF RuleHolds, RuleStateOK, PaidOn
<1>6. ClosedSince(g, since, n + 1)
  <2>1. CASE g \in DOMAIN s.digests
    <3>1. since = before
      BY <2>1
    <3>2. Earned(g, n) # {} /\ \A e \in Earned(g, n) : since <= e
      BY <1>3, <2>1, <3>1 DEF ClosedSince
    <3>3. since <= n + 1
      BY <1>1, <3>2 DEF RunDays
    <3> QED
      BY <1>1, <3>2, <3>3 DEF ClosedSince
  <2>2. CASE g \notin DOMAIN s.digests
    <3>1. Earned(g, n) = {} /\ since = n + 1 /\ g \in PaidOn(n + 1)
      BY <1>4, <2>2 DEF RuleHolds
    <3> QED
      BY <1>1, <3>1 DEF ClosedSince
  <2> QED
    BY <2>1, <2>2
<1>7. out = Cardinality(OutSince(g, n + 1)) /\ out <= ReleaseAfterDaysOut
  <2>1. CASE g \in PaidOn(n + 1)
    BY <1>2, <2>1, FS_EmptySet, ParamsAssumption
  <2>2. CASE g \notin PaidOn(n + 1)
    <3>1. out = was + 1 /\ g \in DOMAIN s.digests
      BY <2>2
    <3>2. Cardinality(OutSince(g, n) \cup {n + 1}) = Cardinality(OutSince(g, n)) + 1
      BY <1>2, FS_AddElement
    <3>3. OutSince(g, n + 1) = OutSince(g, n) \cup {n + 1}
      BY <1>2, <2>2
    <3>4. was + 1 <= ReleaseAfterDaysOut
      BY <1>3, <3>1, ParamsAssumption
    <3> QED
      BY <1>3, <3>1, <3>2, <3>3, <3>4
  <2> QED
    BY <2>1, <2>2
<1>8. CASE reason = NoReason
  <2>1. released = NoDay
    BY <1>8 DEF ReleasedAsDue
  <2>2. ~(out >= ReleaseAfterDaysOut)
    <3>1. g \in PaidOn(n + 1) => out = 0
      OBVIOUS
    <3>2. ~(g \notin PaidOn(n + 1) /\ out >= ReleaseAfterDaysOut)
      BY <1>8, WhyReleased
    <3> QED
      BY <3>1, <3>2, ParamsAssumption
  <2>3. out < ReleaseAfterDaysOut
    BY <2>2, ParamsAssumption
  <2> QED
    BY <1>6, <1>7, <2>1, <2>3 DEF FieldsHold
<1>9. CASE reason # NoReason
  <2>1. released = n + 1 /\ released # NoDay /\ why = reason
    BY <1>9 DEF NoDay, ReleasedAsDue
  <2>2. reason = "left_earning_set" => Cardinality(OutSince(g, n + 1)) = ReleaseAfterDaysOut
    <3>1. reason = "left_earning_set" => out >= ReleaseAfterDaysOut
      BY WhyReleased
    <3>2. out >= ReleaseAfterDaysOut => out = ReleaseAfterDaysOut
      BY <1>7, ParamsAssumption
    <3> QED
      BY <1>7, <3>1, <3>2
  <2>3. reason = "max_embargo" => (n + 1) - since >= MaxEmbargoDays
    <3>1. reason = "max_embargo" => n + 1 >= since + MaxEmbargoDays
      BY WhyReleased
    <3> QED
      BY <3>1, ParamsAssumption DEF RunDays
  <2>4. reason = "dethroned" => \E d \in Earned(g, n + 1) : rec[d].champion \notin {NoOne, c}
    <3> SUFFICES ASSUME reason = "dethroned" PROVE \E d \in Earned(g, n) : rec[d].champion \notin {NoOne, c}
      BY <1>1
    <3>1. g \in Dethroned(s, c)
      BY WhyReleased
    <3>2. g = s.held /\ g # NoDigest /\ s.champion # NoOne /\ c # s.champion
      BY <3>1 DEF Dethroned
    <3>3. \E d \in Earned(g, n) : rec[d].champion = s.champion
      BY <3>2 DEF RuleHolds, SeatHolds
    <3> QED
      BY <3>2, <3>3
  <2>5. reason \in Reasons
    BY <1>9, WhyReleased
  <2> HIDE DEF reason
  <2>6. DueOn(g, since, why, n + 1)
    BY <2>1, <2>2, <2>3, <2>4, <2>5 DEF DueOn
  <2> QED
    BY <1>6, <2>1, <2>6 DEF FieldsHold
<1> QED
  BY <1>8, <1>9

\* A recorded day observed keeps all the replay computes true.
LEMMA RuleObserves ==
  ASSUME ReleaseInputs, NEW n \in Nat, n + 1 \in RunDays, rec[n + 1].written,
         NEW s, RuleHolds(s, n)
  PROVE  RuleHolds(ObserveDay(s, n + 1), n + 1)
<1> DEFINE d == n + 1
           c == rec[d].champion
           t == ObserveDay(s, d)
<1>1. /\ t = [digests |-> t.digests, champion |-> t.champion, held |-> t.held]
      /\ Updates(s.digests, t.digests, s, d)
      /\ t.champion = IF c = NoOne THEN s.champion ELSE c
      /\ t.held \in Digests \cup {NoDigest}
      /\ c = NoOne => t.held = s.held
      /\ c # NoOne =>
           /\ \A e \in DayEarning(d) : e[1] = c => t.held = e[2]
           /\ (\A e \in DayEarning(d) : e[1] # c)
                => t.held = IF c = s.champion THEN s.held ELSE NoDigest
  BY Observed DEF RuleHolds
<1> HIDE DEF t
<1>2. RuleStateOK(s) /\ SeatHolds(s, n) /\ DethronedHolds(s, n)
  BY DEF RuleHolds
<1>3. /\ DOMAIN t.digests = DOMAIN s.digests \cup PaidOn(d)
      /\ DOMAIN s.digests \subseteq Digests /\ PaidOn(d) \subseteq Digests
      /\ \A g \in DOMAIN t.digests : t.digests[g] \in DigestStates
  BY <1>1, <1>2, EarningType DEF Updates, RuleStateOK, PaidOn
<1>4. c \in Hotkeys \cup {NoOne}
  BY RecordType
<1>5. \A g : /\ Earned(g, n) \subseteq RunDays /\ \A k \in Earned(g, n) : k <= n
             /\ Earned(g, d) = IF g \in PaidOn(d) THEN Earned(g, n) \cup {d} ELSE Earned(g, n)
  BY EarnedNext
<1>6. \A k \in RunDays : k \in Nat /\ (k <= d <=> k <= n \/ k = d)
  BY DEF RunDays
<1>7. RuleStateOK(t)
  <2>1. t.digests \in [DOMAIN t.digests -> DigestStates]
    <3>1. t.digests = [g \in DOMAIN t.digests |-> t.digests[g]]
      BY <1>1 DEF Updates
    <3> QED
      BY <1>3, <3>1
  <2>2. t.champion \in Hotkeys \cup {NoOne}
    BY <1>1, <1>2, <1>4 DEF RuleStateOK
  <2> QED
    BY <1>1, <1>3, <2>1, <2>2 DEF RuleStateOK
<1>8. \A g \in Digests : g \in DOMAIN t.digests <=> Earned(g, d) # {}
  BY <1>3, <1>5 DEF RuleHolds
<1>9. ASSUME NEW g \in DOMAIN t.digests PROVE DigestHolds(g, t.digests[g], d)
  <2>1. CASE g \in DOMAIN s.digests /\ s.digests[g].released # NoDay
    <3>1. t.digests[g] = s.digests[g] /\ s.digests[g].released <= n
      BY <1>1, <2>1 DEF Updates, RuleHolds, DigestHolds, FieldsHold
    <3>2. DigestHolds(g, s.digests[g], n) /\ s.digests[g].released \in RunDays \cup {NoDay}
      BY <2>1, FieldTypes DEF RuleHolds, RuleStateOK
    <3>3. ASSUME NEW since, NEW out, NEW released \in RunDays \cup {NoDay}, NEW reason,
                 FieldsHold(g, since, out, released, reason, n), released # NoDay
          PROVE  FieldsHold(g, since, out, released, reason, d)
      <4>1. released <= n => released <= d
        BY <1>6, <3>3
      <4> QED
        BY <3>3, <4>1 DEF FieldsHold
    <3> QED
      BY <2>1, <3>1, <3>2, <3>3, Zenon DEF DigestHolds
  <2>2. CASE ~(g \in DOMAIN s.digests /\ s.digests[g].released # NoDay)
    <3> DEFINE x == t.digests[g]
               before == IF g \in DOMAIN s.digests THEN s.digests[g].since ELSE d
               was == IF g \in DOMAIN s.digests THEN s.digests[g].out ELSE 0
    <3>1. g \in DOMAIN s.digests => s.digests[g] \in DigestStates /\ DigestHolds(g, s.digests[g], n)
      BY DEF RuleHolds, RuleStateOK
    <3>2. g \in DOMAIN s.digests => s.digests[g].since \in RunDays /\ s.digests[g].out \in Nat
      BY <3>1, FieldTypes, Zenon
    <3>3. before \in RunDays
      BY <3>2
    <3>4. was \in Nat
      BY <3>2
    <3>5. g \in DOMAIN s.digests => FieldsHold(g, before, was, NoDay, NoReason, n)
      <4>1. ASSUME NEW since, NEW out, NEW reason, FieldsHold(g, since, out, NoDay, reason, n)
            PROVE  FieldsHold(g, since, out, NoDay, NoReason, n)
        BY <4>1 DEF FieldsHold
      <4>2. g \in DOMAIN s.digests =>
              FieldsHold(g, s.digests[g].since, s.digests[g].out, NoDay, s.digests[g].reason, n)
        BY <2>2, <3>1, Zenon DEF DigestHolds
      <4> QED
        BY <4>1, <4>2, Zenon
    <3>6. /\ x.since = IF g \in DOMAIN s.digests THEN s.digests[g].since ELSE d
          /\ x.out = IF g \in PaidOn(d) THEN 0 ELSE s.digests[g].out + 1
          /\ ReleasedAsDue(g, x.since, x.out, x.released, x.reason, Dethroned(s, c), d)
      BY <1>1, <2>2, Zenon DEF Updates
    <3>7. x.since = IF g \in DOMAIN s.digests THEN before ELSE d
      BY <3>6, Zenon
    <3>8. x.out = IF g \in PaidOn(d) THEN 0 ELSE was + 1
      BY <1>3, <3>6
    <3>9. x.since \in RunDays /\ x.out \in Nat
      BY <1>3, FieldTypes, Zenon
    <3>10. g \in DOMAIN s.digests \cup PaidOn(d)
      BY <1>3
    <3> HIDE DEF before, was, x
    <3>11. FieldsHold(g, x.since, x.out, x.released, x.reason, d)
      BY <3>3, <3>4, <3>5, <3>6, <3>7, <3>8, <3>9, <3>10, DigestObserved, Zenon
    <3> QED
      BY <3>11 DEF DigestHolds, x
  <2> QED
    BY <2>1, <2>2
<1>10. SeatHolds(t, d)
  <2>1. ASSUME NEW k \in RunDays, k <= d, rec[k].champion # NoOne,
               \A i \in RunDays : k < i /\ i <= d => rec[i].champion = NoOne
        PROVE  /\ t.champion = rec[k].champion
               /\ \A e \in DayEarning(k) : e[1] = rec[k].champion => t.held = e[2]
    <3>1. CASE k = d
      BY <1>1, <2>1, <3>1
    <3>2. CASE k # d
      <4>1. k <= n /\ c = NoOne
        BY <1>6, <2>1, <3>2
      <4>2. \A i \in RunDays : k < i /\ i <= n => rec[i].champion = NoOne
        BY <1>6, <2>1
      <4>3. /\ s.champion = rec[k].champion
            /\ \A e \in DayEarning(k) : e[1] = rec[k].champion => s.held = e[2]
        BY <1>2, <2>1, <4>1, <4>2 DEF SeatHolds
      <4> QED
        BY <1>1, <4>1, <4>3
    <3> QED
      BY <3>1, <3>2
  <2>2. ASSUME t.held # NoDigest
        PROVE  t.champion # NoOne /\ \E k \in Earned(t.held, d) : rec[k].champion = t.champion
    <3>1. CASE \E e \in DayEarning(d) : e[1] = c /\ c # NoOne
      <4>1. PICK e \in DayEarning(d) : e[1] = c /\ c # NoOne
        BY <3>1
      <4>2. t.held = e[2] /\ e[2] \in PaidOn(d) /\ t.champion = c
        BY <1>1, <4>1 DEF PaidOn
      <4>3. d \in Earned(t.held, d)
        BY <1>5, <4>2
      <4> QED
        BY <4>1, <4>2, <4>3
    <3>2. CASE ~ \E e \in DayEarning(d) : e[1] = c /\ c # NoOne
      <4>1. t.held = s.held /\ t.champion = s.champion
        BY <1>1, <2>2, <3>2
      <4>2. s.champion # NoOne /\ \E k \in Earned(s.held, n) : rec[k].champion = s.champion
        BY <1>2, <2>2, <4>1 DEF SeatHolds
      <4>3. Earned(s.held, n) \subseteq Earned(s.held, d)
        BY <1>5
      <4> QED
        BY <4>1, <4>2, <4>3
    <3> QED
      BY <3>1, <3>2
  <2> QED
    BY <2>1, <2>2 DEF SeatHolds
<1>11. DethronedHolds(t, d)
  <2> SUFFICES ASSUME NEW i \in RunDays, NEW k \in RunDays, k <= d, Successor(i, k),
                      NEW e \in DayEarning(i), e[1] = rec[i].champion
               PROVE  /\ e[2] \in DOMAIN t.digests
                      /\ t.digests[e[2]].released # NoDay /\ t.digests[e[2]].released <= k
    BY DEF DethronedHolds
  <2> DEFINE g == e[2]
  <2>1. CASE k <= n
    <3>1. g \in DOMAIN s.digests /\ s.digests[g].released # NoDay /\ s.digests[g].released <= k
      BY <1>2, <2>1, Zenon DEF DethronedHolds
    <3>2. g \in DOMAIN t.digests /\ t.digests[g] = s.digests[g]
      BY <1>1, <1>3, <3>1, Zenon DEF Updates
    <3> QED
      BY <3>1, <3>2
  <2>2. CASE k = d
    <3>1. /\ i <= n /\ rec[i].champion # NoOne /\ c # NoOne /\ rec[i].champion # c
          /\ \A j \in RunDays : i < j /\ j <= n => rec[j].champion = NoOne
      <4>1. i < d /\ rec[i].champion # NoOne /\ c # NoOne /\ rec[i].champion # c
        BY <2>2 DEF Successor
      <4>2. \A j \in RunDays : i < j /\ j < d => rec[j].champion = NoOne
        BY <2>2, Zenon DEF Successor
      <4>3. i <= n
        BY <1>6, <4>1
      <4>4. \A j \in RunDays : j <= n => j < d
        BY <1>6
      <4> QED
        BY <4>1, <4>2, <4>3, <4>4, Zenon
    <3>2. s.champion = rec[i].champion /\ s.held = g
      BY <1>2, <3>1 DEF SeatHolds
    <3>3. g \in Digests /\ g # NoDigest
      BY EarningType, ParamsAssumption
    <3>4. g \in Dethroned(s, c)
      BY <3>1, <3>2, <3>3 DEF Dethroned
    <3>5. g \in DOMAIN s.digests
      <4>1. Earned(g, n) # {}
        BY <1>2, <3>2, <3>3 DEF SeatHolds
      <4> QED
        BY <3>3, <4>1 DEF RuleHolds
    <3>6. CASE s.digests[g].released # NoDay
      <4>1. t.digests[g] = s.digests[g]
        BY <1>1, <1>3, <3>5, <3>6, Zenon DEF Updates
      <4>2. s.digests[g].released <= n
        BY <3>5, <3>6 DEF RuleHolds, DigestHolds, FieldsHold
      <4>3. s.digests[g].released \in RunDays \cup {NoDay}
        BY <3>5, FieldTypes DEF RuleStateOK, RuleHolds
      <4>4. ASSUME NEW r \in RunDays \cup {NoDay}, r # NoDay, r <= n PROVE r <= k
        BY <1>6, <2>2, <4>4
      <4> QED
        BY <1>3, <3>5, <3>6, <4>1, <4>2, <4>3, <4>4
    <3>7. CASE s.digests[g].released = NoDay
      <4>1. ReleasedAsDue(g, t.digests[g].since, t.digests[g].out, t.digests[g].released,
                          t.digests[g].reason, Dethroned(s, c), d)
        BY <1>1, <1>3, <3>5, <3>7, Zenon DEF Updates
      <4>2. ASSUME NEW since, NEW out, NEW released, NEW why,
                   ReleasedAsDue(g, since, out, released, why, Dethroned(s, c), d)
            PROVE  released = d
        <5>1. ReasonFor(g, since, out, Dethroned(s, c), d) \in Reasons
          BY <3>4 DEF ReasonFor, Reasons
        <5> QED
          BY <4>2, <5>1, NoReasonIsNone, Zenon DEF ReleasedAsDue
      <4>3. t.digests[g].released = d
        BY <4>1, <4>2, Zenon
      <4> QED
        BY <1>3, <2>2, <3>5, <4>3 DEF NoDay
    <3> QED
      BY <3>6, <3>7
  <2> QED
    BY <1>6, <2>1, <2>2
<1> QED
  BY <1>7, <1>8, <1>9, <1>10, <1>11 DEF RuleHolds, t

\* Whatever the records, the replay is as the rule describes it on every day.
LEMMA RuleHeld ==
  ASSUME ReleaseInputs
  PROVE  \A n \in RunDays \cup {NoDay} : RuleHolds(Replay(n), n)
<1> DEFINE S == {n \in Nat : n <= LastRunDay => RuleHolds(Replay(n), n)}
<1>1. RuleHolds(Replay(0), 0)
  <2>1. /\ EmptyRelease.digests = [g \in {} |-> 0] /\ EmptyRelease.champion = NoOne
        /\ EmptyRelease.held = NoDigest
        /\ EmptyRelease = [digests |-> EmptyRelease.digests, champion |-> EmptyRelease.champion,
                           held |-> EmptyRelease.held]
    BY DEF EmptyRelease
  <2>2. DOMAIN EmptyRelease.digests = {}
    BY <2>1
  <2>3. \A g : Earned(g, 0) = {}
    BY DEF Earned, EarnedOn, Recorded, RunDays
  <2>4. RuleStateOK(EmptyRelease)
    BY <2>1, <2>2 DEF RuleStateOK
  <2>5. \A d \in RunDays : ~(d <= 0)
    BY DEF RunDays
  <2>6. SeatHolds(EmptyRelease, 0) /\ DethronedHolds(EmptyRelease, 0)
    BY <2>1, <2>5 DEF SeatHolds, DethronedHolds
  <2> QED
    BY <2>2, <2>3, <2>4, <2>6, ReplayFrom DEF RuleHolds
<1>2. ASSUME NEW n \in Nat, n \in S PROVE n + 1 \in S
  <2> SUFFICES ASSUME n + 1 <= LastRunDay PROVE RuleHolds(Replay(n + 1), n + 1)
    OBVIOUS
  <2>1. n + 1 \in RunDays /\ n <= LastRunDay
    BY ReleaseBoundsAssumption DEF RunDays
  <2>2. RuleHolds(Replay(n), n)
    BY <1>2, <2>1
  <2>3. Replay(n + 1) = IF rec[n + 1].written THEN ObserveDay(Replay(n), n + 1) ELSE Replay(n)
    BY ReplayNext
  <2>4. CASE rec[n + 1].written
    BY <2>1, <2>2, <2>3, <2>4, RuleObserves
  <2>5. CASE ~rec[n + 1].written
    BY <2>1, <2>2, <2>3, <2>5, RuleSkips
  <2> QED
    BY <2>4, <2>5
<1>3. 0 \in S
  BY <1>1
<1> HIDE DEF S
<1>4. \A n \in Nat : n \in S
  BY <1>2, <1>3, DayInduction
<1>5. ASSUME NEW n \in RunDays \cup {NoDay} PROVE n \in Nat /\ n <= LastRunDay
  BY ReleaseBoundsAssumption DEF RunDays, NoDay
<1> QED
  BY <1>4, <1>5 DEF S

\* What a day releases stays as released on every later day.
LEMMA ReleasedStays ==
  ASSUME ReleaseInputs, NEW m \in RunDays \cup {NoDay}, NEW n \in RunDays \cup {NoDay}, m <= n,
         NEW g \in DOMAIN Replay(m).digests, Replay(m).digests[g].released # NoDay
  PROVE  g \in DOMAIN Replay(n).digests /\ Replay(n).digests[g] = Replay(m).digests[g]
<1> DEFINE Kept(k) == g \in DOMAIN Replay(k).digests /\ Replay(k).digests[g] = Replay(m).digests[g]
           S == {k \in Nat : m <= k /\ k <= LastRunDay => Kept(k)}
<1>0. /\ m \in Nat /\ n \in Nat /\ n <= LastRunDay /\ LastRunDay \in Nat
  BY ReleaseBoundsAssumption DEF RunDays, NoDay
<1>1. 0 \in S
  BY <1>0
<1>2. ASSUME NEW k \in Nat, k \in S PROVE k + 1 \in S
  <2> SUFFICES ASSUME m <= k + 1, k + 1 <= LastRunDay PROVE Kept(k + 1)
    OBVIOUS
  <2>1. CASE m = k + 1
    BY <2>1
  <2>2. CASE m # k + 1
    <3>1. m <= k /\ k <= LastRunDay /\ k + 1 \in RunDays /\ k \in RunDays \cup {NoDay}
      BY <1>0, <2>2 DEF RunDays, NoDay
    <3>2. Kept(k)
      BY <1>2, <3>1
    <3>3. RuleStateOK(Replay(k))
      BY <3>1, RuleHeld DEF RuleHolds
    <3>4. Replay(k + 1) = IF rec[k + 1].written THEN ObserveDay(Replay(k), k + 1) ELSE Replay(k)
      BY ReplayNext
    <3>5. rec[k + 1].written =>
            Updates(Replay(k).digests, Replay(k + 1).digests, Replay(k), k + 1)
      BY <3>1, <3>3, <3>4, Observed
    <3>6. CASE rec[k + 1].written
      BY <3>2, <3>5, <3>6, Zenon DEF Updates
    <3>7. CASE ~rec[k + 1].written
      BY <3>2, <3>4, <3>7
    <3> QED
      BY <3>6, <3>7
  <2> QED
    BY <2>1, <2>2
<1> HIDE DEF S
<1>3. \A k \in Nat : k \in S
  BY <1>1, <1>2, DayInduction
<1> QED
  BY <1>0, <1>3 DEF S

\* What is released was released by the replay of its day already, as it is now.
LEMMA ReleasedOnItsDay ==
  ASSUME ReleaseInputs, NEW n \in RunDays \cup {NoDay},
         NEW g \in DOMAIN Replay(n).digests, Replay(n).digests[g].released # NoDay,
         NEW d, d = Replay(n).digests[g].released
  PROVE  /\ d \in RunDays /\ d <= n
         /\ g \in DOMAIN Replay(d).digests /\ Replay(d).digests[g] = Replay(n).digests[g]
<1> DEFINE Same(x, k, on) == x \in DOMAIN Replay(on).digests
                               /\ Replay(on).digests[x] = Replay(k).digests[x]
           AsOnItsDay(k) == \A x \in DOMAIN Replay(k).digests :
             Replay(k).digests[x].released # NoDay => Same(x, k, Replay(k).digests[x].released)
           S == {k \in Nat : k <= LastRunDay => AsOnItsDay(k)}
<1>0. n \in Nat /\ n <= LastRunDay /\ LastRunDay \in Nat
  BY ReleaseBoundsAssumption DEF RunDays, NoDay
<1>1. AsOnItsDay(0)
  <2>1. DOMAIN EmptyRelease.digests = {}
    BY DEF EmptyRelease
  <2> QED
    BY <2>1, ReplayFrom
<1>2. ASSUME NEW k \in Nat, k \in S PROVE k + 1 \in S
  <2> SUFFICES ASSUME k + 1 <= LastRunDay, NEW x \in DOMAIN Replay(k + 1).digests,
                      Replay(k + 1).digests[x].released # NoDay
               PROVE  Same(x, k + 1, Replay(k + 1).digests[x].released)
    OBVIOUS
  <2>1. k <= LastRunDay /\ k + 1 \in RunDays /\ k \in RunDays \cup {NoDay}
    BY <1>0 DEF RunDays, NoDay
  <2>2. AsOnItsDay(k)
    BY <1>2, <2>1
  <2>3. RuleStateOK(Replay(k))
    BY <2>1, RuleHeld DEF RuleHolds
  <2>4. Replay(k + 1) = IF rec[k + 1].written THEN ObserveDay(Replay(k), k + 1) ELSE Replay(k)
    BY ReplayNext
  <2>5. CASE ~rec[k + 1].written
    <3>1. Replay(k + 1) = Replay(k)
      BY <2>4, <2>5
    <3> QED
      BY <2>2, <3>1
  <2>6. CASE rec[k + 1].written
    <3>1. Updates(Replay(k).digests, Replay(k + 1).digests, Replay(k), k + 1)
      BY <2>1, <2>3, <2>4, <2>6, Observed
    <3>2. CASE x \in DOMAIN Replay(k).digests /\ Replay(k).digests[x].released # NoDay
      <4>1. Replay(k + 1).digests[x] = Replay(k).digests[x]
        BY <3>1, <3>2, Zenon DEF Updates
      <4> QED
        BY <2>2, <3>2, <4>1
    <3>3. CASE ~(x \in DOMAIN Replay(k).digests /\ Replay(k).digests[x].released # NoDay)
      <4>1. Replay(k + 1).digests[x].released = k + 1
        BY <3>1, <3>3, Zenon DEF Updates, ReleasedAsDue
      <4> QED
        BY <4>1
    <3> QED
      BY <3>2, <3>3
  <2> QED
    BY <2>5, <2>6
<1>3. 0 \in S
  BY <1>1
<1> HIDE DEF S
<1>4. \A k \in Nat : k \in S
  BY <1>2, <1>3, DayInduction
<1>5. Same(g, n, d)
  BY <1>0, <1>4 DEF S
<1>6. d \in RunDays /\ d <= n
  <2>1. RuleHolds(Replay(n), n)
    BY RuleHeld
  <2>2. Replay(n).digests[g] \in DigestStates /\ DigestHolds(g, Replay(n).digests[g], n)
    BY <2>1 DEF RuleHolds, RuleStateOK
  <2>3. d \in RunDays \cup {NoDay} /\ d # NoDay
    BY <2>2, FieldTypes
  <2> QED
    BY <2>2, <2>3 DEF DigestHolds, FieldsHold
<1> QED
  BY <1>5, <1>6

-----------------------------------------------------------------------------
(* ModelRelease: what the replay of a day reads *)

\* The digest of a hotkey is read from the baskets before the day.
LEMMA RefReads ==
  ASSUME NEW h \in Hotkeys, NEW d \in RunDays,
         \A k \in RunDays : k < d => ran'[k] = ran[k]
  PROVE  RefBefore(h, d)' = RefBefore(h, d)
<1> DEFINE on == {n \in RunDays : n < d /\ n >= d - Lookback /\ ran[n][h] # NoDigest}
           newOn == {n \in RunDays : n < d /\ n >= d - Lookback /\ ran'[n][h] # NoDigest}
           last(S) == CHOOSE k \in S : \A n \in S : n <= k
<1>1. on = newOn
  OBVIOUS
<1>2. RefBefore(h, d) = IF on = {} THEN NoDigest ELSE ran[last(on)][h]
  BY Zenon DEF RefBefore
<1>3. RefBefore(h, d)' = IF newOn = {} THEN NoDigest ELSE ran'[last(newOn)][h]
  BY Zenon DEF RefBefore
<1>4. on # {} => last(on) \in on
  <2>1. on \subseteq RunDays
    OBVIOUS
  <2> HIDE DEF on
  <2>2. on # {} => \E k \in on : \A n \in on : n <= k
    BY <2>1, LastExists
  <2> QED
    BY <2>2, Zenon
<1>5. last(newOn) = last(on)
  BY <1>1
<1>6. on # {} => last(on) \in RunDays /\ last(on) < d
  BY <1>4
<1> HIDE DEF on, newOn, last
<1> QED
  BY <1>1, <1>2, <1>3, <1>5, <1>6

LEMMA EarningReads ==
  ASSUME ReleaseInputs, NEW d \in RunDays, rec'[d] = rec[d],
         \A k \in RunDays : k < d => ran'[k] = ran[k]
  PROVE  DayEarning(d)' = DayEarning(d)
<1>1. \A h \in Hotkeys : RefBefore(h, d)' = RefBefore(h, d)
  BY RefReads
<1>2. rec[d].earning \subseteq Hotkeys
  BY RecordType
<1>3. DayEarning(d) = {<<h, RefBefore(h, d)>> : h \in {x \in rec[d].earning : RefBefore(x, d) # NoDigest}}
  BY Zenon DEF DayEarning
<1>4. DayEarning(d)' = {<<h, RefBefore(h, d)'>> :
                           h \in {x \in rec'[d].earning : RefBefore(x, d)' # NoDigest}}
  BY Zenon DEF DayEarning
<1> QED
  BY <1>1, <1>2, <1>3, <1>4

\* The replay up to a day reads the records up to it, and the baskets before it.
LEMMA ReplayReads ==
  ASSUME ReleaseInputs, NEW n \in RunDays \cup {NoDay},
         \A d \in RunDays : d <= n => rec'[d] = rec[d],
         \A d \in RunDays : d < n => ran'[d] = ran[d]
  PROVE  Replay(n)' = Replay(n)
<1>0. n \in Nat /\ \A d \in 0 .. n : d # 0 => d \in RunDays /\ d <= n
  BY ReleaseBoundsAssumption DEF RunDays, NoDay
<1>1. ASSUME NEW d \in RunDays, d <= n, NEW s PROVE ObserveDay(s, d)' = ObserveDay(s, d)
  <2>1. rec'[d] = rec[d] /\ DayEarning(d)' = DayEarning(d)
    BY <1>0, <1>1, EarningReads DEF RunDays
  <2> QED
    BY <2>1 DEF ObserveDay, DayWithheld
<1>2. ASSUME NEW f PROVE Folds(f, n)' <=> Folds(f, n)
  <2> DEFINE next(d) == IF d = 0 THEN EmptyRelease
                        ELSE IF rec[d].written THEN ObserveDay(f[d - 1], d) ELSE f[d - 1]
             newNext(d) == IF d = 0 THEN EmptyRelease
                        ELSE IF rec'[d].written THEN ObserveDay(f[d - 1], d)' ELSE f[d - 1]
  <2>1. Folds(f, n) <=> f = [d \in 0 .. n |-> next(d)]
    BY Zenon DEF Folds
  <2>2. Folds(f, n)' <=> f = [d \in 0 .. n |-> newNext(d)]
    BY Zenon DEF Folds
  <2>3. ASSUME NEW d \in 0 .. n PROVE next(d) = newNext(d)
    <3>1. CASE d = 0
      BY <3>1
    <3>2. CASE d # 0
      <4>1. d \in RunDays /\ d <= n
        BY <1>0, <3>2
      <4>2. rec'[d] = rec[d] /\ ObserveDay(f[d - 1], d)' = ObserveDay(f[d - 1], d)
        BY <1>1, <4>1
      <4> QED
        BY <4>2
    <3> QED
      BY <3>1, <3>2
  <2> HIDE DEF next, newNext
  <2>4. [d \in 0 .. n |-> next(d)] = [d \in 0 .. n |-> newNext(d)]
    BY <2>3
  <2> QED
    BY <2>1, <2>2, <2>4
<1>3. (CHOOSE f : Folds(f, n)') = (CHOOSE f : Folds(f, n))
  BY <1>2
<1>4. Replay(n) = (CHOOSE f : Folds(f, n))[n]
  BY Zenon DEF Replay, Folds
<1>5. Replay(n)' = (CHOOSE f : Folds(f, n)')[n]
  BY Zenon DEF Replay, Folds
<1> QED
  BY <1>3, <1>4, <1>5

LEMMA LedgerReads ==
  ASSUME ReleaseInputs, NEW n \in RunDays \cup {NoDay},
         \A d \in RunDays : d <= n => rec'[d] = rec[d],
         \A d \in RunDays : d < n => ran'[d] = ran[d]
  PROVE  BuildLedger(n)' = BuildLedger(n)
<1>1. Replay(n)' = Replay(n)
  BY ReplayReads
<1> QED
  BY <1>1, Zenon DEF BuildLedger

-----------------------------------------------------------------------------
(* ModelRelease: the daily step *)

\* What a ledger built from the records looks like.
LEMMA LedgerBuilt ==
  ASSUME ReleaseInputs, NEW n \in RunDays \cup {NoDay}
  PROVE  LET l == BuildLedger(n)
             digests == Replay(n).digests
         IN /\ l.asOf = n /\ l.releases \subseteq Releases /\ l.closed \subseteq Digests
            /\ DigestsOf(l.releases) \cap l.closed = {}
            /\ \A r \in l.releases :
                 /\ r.digest \in DOMAIN digests
                 /\ digests[r.digest].released # NoDay
                 /\ r = [digest |-> r.digest, on |-> digests[r.digest].released,
                         reason |-> digests[r.digest].reason, since |-> digests[r.digest].since]
            /\ \A g \in DOMAIN digests : digests[g].released # NoDay =>
                 [digest |-> g, on |-> digests[g].released, reason |-> digests[g].reason,
                  since |-> digests[g].since] \in l.releases
<1> DEFINE l == BuildLedger(n)
           digests == Replay(n).digests
           out == {g \in DOMAIN digests : digests[g].released # NoDay}
           row(g) == [digest |-> g, on |-> digests[g].released, reason |-> digests[g].reason,
                      since |-> digests[g].since]
<1>1. l = [asOf |-> n, releases |-> {row(g) : g \in out}, closed |-> DOMAIN digests \ out]
  BY Zenon DEF BuildLedger
<1>2. l.asOf = n /\ l.releases = {row(g) : g \in out} /\ l.closed = DOMAIN digests \ out
  BY <1>1
<1>3. RuleHolds(Replay(n), n)
  BY RuleHeld
<1>4. DOMAIN digests \subseteq Digests
  BY <1>3 DEF RuleHolds, RuleStateOK
<1>5. ASSUME NEW g \in out PROVE row(g) \in Releases
  <2>1. digests[g] \in DigestStates /\ DigestHolds(g, digests[g], n)
    BY <1>3 DEF RuleHolds, RuleStateOK
  <2>2. digests[g].since \in RunDays /\ digests[g].released \in RunDays
    BY <2>1, FieldTypes
  <2>3. digests[g].reason \in Reasons
    BY <2>1 DEF DigestHolds, FieldsHold, DueOn
  <2>4. g \in Digests
    BY <1>4
  <2> QED
    BY <2>2, <2>3, <2>4, Zenon DEF Releases
<1>6. \A g : row(g).digest = g
  OBVIOUS
<1>7. \A r \in {row(g) : g \in out} : r.digest \in out /\ r = row(r.digest)
  BY <1>6, Zenon
<1>8. DigestsOf(l.releases) \subseteq out
  BY <1>2, <1>7 DEF DigestsOf
<1>9. DigestsOf(l.releases) \cap l.closed = {}
  BY <1>2, <1>8
<1>10. l.releases \subseteq Releases /\ l.closed \subseteq Digests
  BY <1>2, <1>4, <1>5
<1> HIDE DEF row
<1>11. /\ \A r \in l.releases : r.digest \in DOMAIN digests /\ digests[r.digest].released # NoDay
                                /\ r = row(r.digest)
       /\ \A g \in DOMAIN digests : digests[g].released # NoDay => row(g) \in l.releases
  <2> HIDE DEF digests, l
  <2> QED
    BY <1>2, <1>7
<1> QED
  BY <1>2, <1>9, <1>10, <1>11, Zenon DEF row

\* A later ledger keeps the releases of an earlier one.
LEMMA LedgerGrows ==
  ASSUME ReleaseInputs, NEW m \in RunDays \cup {NoDay}, NEW n \in RunDays \cup {NoDay}, m <= n
  PROVE  BuildLedger(m).releases \subseteq BuildLedger(n).releases
<1> SUFFICES ASSUME NEW r \in BuildLedger(m).releases PROVE r \in BuildLedger(n).releases
  OBVIOUS
<1> DEFINE g == r.digest
           x == Replay(m).digests[g]
<1>1. /\ g \in DOMAIN Replay(m).digests /\ x.released # NoDay
      /\ r = [digest |-> g, on |-> x.released, reason |-> x.reason, since |-> x.since]
  BY LedgerBuilt, Zenon
<1>2. g \in DOMAIN Replay(n).digests /\ Replay(n).digests[g] = x
  BY <1>1, ReleasedStays, Zenon
<1>3. [digest |-> g, on |-> Replay(n).digests[g].released, reason |-> Replay(n).digests[g].reason,
       since |-> Replay(n).digests[g].since] \in BuildLedger(n).releases
  BY <1>1, <1>2, LedgerBuilt, Zenon
<1> QED
  BY <1>1, <1>2, <1>3, Zenon

\* A release stands in the ledger of its own day.
LEMMA OnItsDay ==
  ASSUME ReleaseInputs, NEW n \in RunDays \cup {NoDay}, NEW r \in BuildLedger(n).releases
  PROVE  r.on \in RunDays /\ r.on <= n /\ r \in BuildLedger(r.on).releases
<1> DEFINE g == r.digest
           x == Replay(n).digests[g]
<1>1. /\ g \in DOMAIN Replay(n).digests /\ x.released # NoDay
      /\ r = [digest |-> g, on |-> x.released, reason |-> x.reason, since |-> x.since]
  BY LedgerBuilt, Zenon
<1>2. r.on = x.released
  BY <1>1
<1> DEFINE d == r.on
<1>3. /\ d \in RunDays /\ d <= n
      /\ g \in DOMAIN Replay(d).digests /\ Replay(d).digests[g] = x
  <2> HIDE DEF d, g
  <2>1. d = Replay(n).digests[g].released
    BY <1>2 DEF d
  <2> QED
    BY <1>1, <2>1, ReleasedOnItsDay
<1>4. [digest |-> g, on |-> Replay(d).digests[g].released, reason |-> Replay(d).digests[g].reason,
       since |-> Replay(d).digests[g].since] \in BuildLedger(d).releases
  BY <1>1, <1>3, LedgerBuilt, Zenon
<1> QED
  BY <1>1, <1>3, <1>4, Zenon

\* The copy tried next is one still to try: a first day, and a first digest on it.
LEMMA NextCopyIsDue ==
  ASSUME ReleaseTypeOK, todo # {}
  PROVE  NextCopy \in todo
<1> DEFINE Row(x) == CHOOSE r \in releaseLedger.releases : r.digest = x
           before(g, k) == Row(g).on < Row(k).on \/ (Row(g).on = Row(k).on /\ g <= k)
<1>1. \A g \in todo : Row(g).on \in Nat /\ g \in Nat
  <2> SUFFICES ASSUME NEW g \in todo PROVE Row(g).on \in Nat /\ g \in Nat
    OBVIOUS
  <2>1. \E r \in releaseLedger.releases : r.digest = g
    BY DEF ReleaseTypeOK, DigestsOf
  <2>2. Row(g) \in releaseLedger.releases /\ Row(g).digest = g
    BY <2>1, Zenon
  <2> HIDE DEF Row
  <2>3. Row(g) \in Releases
    BY <2>2 DEF ReleaseTypeOK
  <2>4. Row(g).on \in RunDays /\ Row(g).digest \in Digests
    BY <2>3 DEF Releases
  <2>5. Row(g).on \in Nat
    BY <2>4 DEF RunDays
  <2>6. g \in Digests
    BY <2>2, <2>4, Zenon
  <2>7. g \in Nat
    BY <2>6, ParamsAssumption
  <2> QED
    BY <2>5, <2>7, Zenon
<1> HIDE DEF Row
<1>2. PICK on \in {Row(g).on : g \in todo} : \A x \in {Row(g).on : g \in todo} : on <= x
  <2>1. {Row(g).on : g \in todo} \subseteq Nat /\ {Row(g).on : g \in todo} # {}
    BY <1>1
  <2> QED
    BY <2>1, LeastExists, Zenon
<1>3. PICK g \in {x \in todo : Row(x).on = on} : \A x \in {y \in todo : Row(y).on = on} : g <= x
  <2>1. {x \in todo : Row(x).on = on} \subseteq Nat /\ {x \in todo : Row(x).on = on} # {}
    BY <1>1, <1>2
  <2> QED
    BY <2>1, LeastExists, Zenon
<1>4. \A k \in todo : before(g, k)
  BY <1>1, <1>2, <1>3
<1>5. \E x \in todo : \A k \in todo : before(x, k)
  BY <1>3, <1>4
<1> HIDE DEF before
<1>6. NextCopy = CHOOSE x \in todo : \A k \in todo : before(x, k)
  BY Zenon DEF NextCopy, before, Row
<1> QED
  BY <1>5, <1>6, Zenon

LEMMA ReleaseInitTyped == ReleaseInit => ReleaseTypeOK
<1> SUFFICES ASSUME ReleaseInit PROVE ReleaseTypeOK
  OBVIOUS
<1>1. 1 \in RunDays
  BY ReleaseBoundsAssumption DEF RunDays
<1>2. /\ today = 1 /\ runDay = NoDay /\ mirrored = {} /\ list = {} /\ todo = {} /\ phase = "idle"
      /\ rewrites = 0 /\ mishaps = 0 /\ redone = NoRedo /\ recalled = {}
      /\ releaseLedger.asOf = NoDay /\ releaseLedger.releases = {} /\ releaseLedger.closed = {}
  BY DEF ReleaseInit, NoLedger
<1>3. rec \in [RunDays -> Records \cup {NotRecorded}]
  BY DEF ReleaseInit
<1>4. ran \in [RunDays -> [Hotkeys -> Digests \cup {NoDigest}]]
  BY DEF ReleaseInit
<1> QED
  BY <1>1, <1>2, <1>3, <1>4 DEF ReleaseTypeOK

LEMMA ReleaseStepTyped ==
  ASSUME ReleaseTypeOK, phase # "idle" => runDay \in RunDays, [ReleaseNext]_releaseVars
  PROVE  ReleaseTypeOK'
<1> USE DEF records, history
<1>0. ReleaseInputs
  BY DEF ReleaseTypeOK, ReleaseInputs
<1>1. CASE NextDay
  <2>1. today' \in RunDays
    BY <1>1, ReleaseBoundsAssumption DEF NextDay, ReleaseTypeOK, RunDays
  <2> QED
    BY <1>1, <2>1 DEF NextDay, ReleaseTypeOK
<1>2. CASE RunToday
  <2>1. rec' \in [RunDays -> Records \cup {NotRecorded}]
    BY <1>2 DEF RunToday, ReleaseTypeOK
  <2>2. ran' \in [RunDays -> [Hotkeys -> Digests \cup {NoDigest}]]
    BY <1>2, InputsAssumption DEF RunToday, ReleaseTypeOK
  <2> QED
    BY <1>2, <2>1, <2>2 DEF RunToday, ReleaseTypeOK
<1>3. CASE RerunDay
  <2>1. PICK d \in 1 .. today, x \in Records :
          /\ rec' = [rec EXCEPT ![d] = x] /\ phase' = "ledger" /\ runDay' = d
          /\ redone' = IF d < redone THEN d ELSE redone
    BY <1>3 DEF RerunDay
  <2>2. d \in RunDays
    BY ReleaseBoundsAssumption DEF ReleaseTypeOK, RunDays
  <2>3. rec' \in [RunDays -> Records \cup {NotRecorded}] /\ runDay' \in RunDays
    BY <2>1, <2>2 DEF ReleaseTypeOK
  <2>4. redone' \in RunDays \cup {NoRedo}
    BY <2>1, <2>2 DEF ReleaseTypeOK
  <2>5. rewrites' \in Nat
    BY <1>3 DEF RerunDay, ReleaseTypeOK
  <2> QED
    BY <1>3, <2>1, <2>3, <2>4, <2>5 DEF RerunDay, ReleaseTypeOK
<1>4. CASE LateShadow
  <2>1. PICK d \in 1 .. (today - 1), x \in Runs :
          ran' = [ran EXCEPT ![d] = x] /\ redone' = IF d + 1 < redone THEN d + 1 ELSE redone
    BY <1>4 DEF LateShadow
  <2>2. d + 1 \in RunDays
    BY ReleaseBoundsAssumption DEF ReleaseTypeOK, RunDays
  <2>3. ran' \in [RunDays -> [Hotkeys -> Digests \cup {NoDigest}]]
    BY <2>1, InputsAssumption DEF ReleaseTypeOK
  <2>4. redone' \in RunDays \cup {NoRedo}
    BY <2>1, <2>2 DEF ReleaseTypeOK
  <2>5. rewrites' \in Nat
    BY <1>4 DEF LateShadow, ReleaseTypeOK
  <2> QED
    BY <1>4, <2>3, <2>4, <2>5 DEF LateShadow, ReleaseTypeOK
<1>5. CASE WriteLedger
  <2>1. /\ releaseLedger'.asOf = runDay /\ releaseLedger'.releases \subseteq Releases
        /\ releaseLedger'.closed \subseteq Digests /\ runDay \in RunDays
    BY <1>0, <1>5, LedgerBuilt DEF WriteLedger
  <2>2. recalled' \subseteq Digests /\ redone' \in RunDays \cup {NoRedo}
    BY <1>5 DEF WriteLedger, ReleaseTypeOK, DigestsOf, Releases
  <2> QED
    BY <1>5, <2>1, <2>2 DEF WriteLedger, ReleaseTypeOK
<1>6. CASE CopyImage
  <2>1. NextCopy \in todo
    BY <1>6, NextCopyIsDue DEF CopyImage
  <2>2. NextCopy \in Digests
    BY <2>1 DEF ReleaseTypeOK, DigestsOf, Releases
  <2> QED
    BY <1>6, <2>2 DEF CopyImage, ReleaseTypeOK
<1>7. CASE CopyFails
  BY <1>7 DEF CopyFails, ReleaseTypeOK
<1>8. CASE PublishReleaseList
  <2>1. list' \subseteq [digest : Digests, on : RunDays, copy : BOOLEAN]
    <3>1. \A r \in releaseLedger.releases : r.digest \in Digests /\ r.on \in RunDays
      BY DEF ReleaseTypeOK, Releases
    <3>2. ASSUME NEW r \in releaseLedger.releases
          PROVE  [digest |-> r.digest, on |-> r.on, copy |-> r.digest \in mirrored]
                   \in [digest : Digests, on : RunDays, copy : BOOLEAN]
      <4>1. (r.digest \in mirrored) \in BOOLEAN
        OBVIOUS
      <4> QED
        BY <3>1, <4>1, Zenon
    <3>3. list' = {[digest |-> r.digest, on |-> r.on, copy |-> r.digest \in mirrored] :
                     r \in releaseLedger.releases}
      BY <1>8 DEF PublishReleaseList
    <3> QED
      BY <3>2, <3>3, Zenon
  <2> QED
    BY <1>8, <2>1 DEF PublishReleaseList, EndStep, ReleaseTypeOK
<1>9. CASE Stop
  BY <1>9 DEF Stop, EndStep, ReleaseTypeOK
<1>10. CASE UNCHANGED releaseVars
  BY <1>10 DEF releaseVars, ReleaseTypeOK
<1> QED
  BY <1>1, <1>2, <1>3, <1>4, <1>5, <1>6, <1>7, <1>8, <1>9, <1>10 DEF ReleaseNext

\* The ledger the step copies from is built from the records as they stand.
FromRecords ==
  /\ phase # "idle" => runDay \in RunDays
  /\ phase = "mirror" => releaseLedger = BuildLedger(runDay)

\* A release of a day before all that was written again still stands in the ledger
\* of its own day, and no run that writes the ledger ends before that day; what
\* has a copy is released, or its release was recalled.
Firm ==
  /\ \A r \in releaseLedger.releases :
       r.on <= releaseLedger.asOf /\ (r.on < redone => r \in BuildLedger(r.on).releases)
  /\ DigestsOf(releaseLedger.releases) \cap releaseLedger.closed = {}
  /\ releaseLedger.asOf <= today /\ (~rec[today].written => releaseLedger.asOf < today)
  /\ phase # "idle" => runDay <= today /\ (~rec[today].written => runDay < today)
  /\ phase = "ledger" => runDay = today \/ redone <= runDay
  /\ mirrored \subseteq DigestsOf(releaseLedger.releases) \cup recalled
ReleaseInv == ReleaseTypeOK /\ FromRecords /\ Firm

LEMMA ReleaseInitInv == ReleaseInit => ReleaseInv
<1> SUFFICES ASSUME ReleaseInit PROVE ReleaseInv
  OBVIOUS
<1>1. ReleaseTypeOK
  BY ReleaseInitTyped
<1>2. FromRecords
  BY DEF ReleaseInit, FromRecords
<1>3. /\ releaseLedger.asOf = NoDay /\ releaseLedger.releases = {} /\ releaseLedger.closed = {}
      /\ today = 1 /\ phase = "idle" /\ mirrored = {}
  BY DEF ReleaseInit, NoLedger
<1>4. Firm
  BY <1>3 DEF Firm, NoDay
<1> QED
  BY <1>1, <1>2, <1>4 DEF ReleaseInv

\* A step that changes no input the release rule reads up to a day keeps the releases
\* that stand in the ledgers of the days before.
LEMMA StaysFirm ==
  ASSUME ReleaseInputs, NEW r \in Releases,
         \A d \in RunDays : d <= r.on => rec'[d] = rec[d],
         \A d \in RunDays : d < r.on => ran'[d] = ran[d],
         r \in BuildLedger(r.on).releases
  PROVE  (r \in BuildLedger(r.on).releases)'
<1>1. r.on \in RunDays
  BY DEF Releases
<1>2. PICK n \in RunDays : n = r.on
  BY <1>1
<1>3. BuildLedger(n)' = BuildLedger(n)
  BY <1>2, LedgerReads
<1> QED
  BY <1>2, <1>3

LEMMA ReleaseStepInv ==
  ASSUME ReleaseInv, [ReleaseNext]_releaseVars
  PROVE  /\ ReleaseInv'
         /\ \A r \in releaseLedger.releases : r.on < redone => r \in releaseLedger'.releases
<1> USE DEF records, history
<1>0. /\ ReleaseTypeOK /\ FromRecords /\ Firm /\ ReleaseInputs
      /\ releaseLedger.asOf \in RunDays \cup {NoDay} /\ today \in RunDays
      /\ \A d \in RunDays \cup {NoDay, NoRedo} : d \in Int
      /\ redone \in RunDays \cup {NoRedo} /\ \A d \in RunDays : d < NoRedo
      /\ releaseLedger.releases \subseteq Releases
      /\ \A r \in releaseLedger.releases : r.on \in RunDays
  <2>1. /\ ReleaseTypeOK /\ FromRecords /\ Firm /\ ReleaseInputs
        /\ releaseLedger.asOf \in RunDays \cup {NoDay} /\ today \in RunDays
        /\ redone \in RunDays \cup {NoRedo} /\ releaseLedger.releases \subseteq Releases
    BY DEF ReleaseInv, ReleaseTypeOK, ReleaseInputs
  <2>2. /\ \A d \in RunDays \cup {NoDay, NoRedo} : d \in Int
        /\ \A d \in RunDays : d < NoRedo
    BY ReleaseBoundsAssumption DEF RunDays, NoDay, NoRedo
  <2> QED
    BY <2>1, <2>2 DEF Releases
<1>1. ReleaseTypeOK'
  BY <1>0, ReleaseStepTyped DEF FromRecords
<1> DEFINE Kept == \A r \in releaseLedger.releases : r.on < redone => r \in releaseLedger'.releases
           Goal == FromRecords' /\ Firm' /\ Kept
<1> SUFFICES Goal
  BY <1>1 DEF ReleaseInv
<1>2. ASSUME UNCHANGED <<rec, ran>>
      PROVE  \A n \in RunDays \cup {NoDay} : BuildLedger(n)' = BuildLedger(n)
  BY <1>0, <1>2, LedgerReads
\* The steps that write neither the ledger nor what it is built from.
<1>3. ASSUME UNCHANGED <<rec, ran, releaseLedger, redone, recalled>>, today' \in {today, today + 1},
             phase' = "idle" \/ (phase' = phase /\ runDay' = runDay /\ today' = today),
             mirrored' \subseteq mirrored \cup DigestsOf(releaseLedger.releases)
      PROVE  Goal
  <2>1. FromRecords'
    <3> SUFFICES ASSUME phase' # "idle" PROVE FromRecords'
      BY DEF FromRecords
    <3>1. phase' = phase /\ runDay' = runDay /\ runDay \in RunDays
      BY <1>0, <1>3 DEF FromRecords
    <3>2. PICK n \in RunDays : n = runDay
      BY <3>1
    <3>3. BuildLedger(runDay)' = BuildLedger(runDay)
      BY <1>2, <1>3, <3>1, <3>2
    <3> QED
      BY <1>0, <1>3, <3>1, <3>3 DEF FromRecords
  <2>2. \A r \in releaseLedger.releases : r.on < redone => (r \in BuildLedger(r.on).releases)'
    BY <1>0, <1>3, StaysFirm DEF Firm
  <2>3. releaseLedger.asOf <= today' /\ (~rec[today'].written => releaseLedger.asOf < today')
    BY <1>0, <1>3 DEF Firm
  <2>4. phase' # "idle" => UNCHANGED <<phase, runDay, today>>
    BY <1>3
  <2>5. Firm'
    BY <1>0, <1>3, <2>2, <2>3, <2>4 DEF Firm, DigestsOf
  <2> QED
    BY <1>3, <2>1, <2>5
<1>4. CASE NextDay
  BY <1>3, <1>4 DEF NextDay
\* The steps that write records or baskets: the releases before them stand.
<1>5. ASSUME UNCHANGED <<today, releaseLedger, mirrored, recalled>>, redone' <= redone, redone' \in Int,
             \A d \in RunDays : rec[d].written => rec'[d].written,
             \A r \in releaseLedger.releases : r.on < redone' =>
               /\ \A d \in RunDays : d <= r.on => rec'[d] = rec[d]
               /\ \A d \in RunDays : d < r.on => ran'[d] = ran[d],
             \/ phase' = "idle"
             \/ /\ phase' = "ledger" /\ runDay' \in RunDays /\ runDay' <= today
                /\ rec'[runDay'].written /\ (runDay' = today \/ redone' <= runDay')
      PROVE  Goal
  <2>1. FromRecords'
    BY <1>5 DEF FromRecords
  <2>2. \A r \in releaseLedger.releases : r.on < redone' => (r \in BuildLedger(r.on).releases)'
    <3> TAKE r \in releaseLedger.releases
    <3> HAVE r.on < redone'
    <3>1. r.on < redone /\ r \in Releases
      BY <1>0, <1>5
    <3> QED
      BY <1>0, <1>5, <3>1, StaysFirm DEF Firm
  <2>3. ~rec'[today].written => releaseLedger.asOf < today
    BY <1>0, <1>5 DEF Firm
  <2>4. phase' # "idle" => runDay' <= today /\ (~rec'[today].written => runDay' < today)
    BY <1>0, <1>5
  <2>5. Firm'
    BY <1>0, <1>5, <2>2, <2>3, <2>4 DEF Firm, DigestsOf
  <2> QED
    BY <1>5, <2>1, <2>5
<1>6. CASE RunToday
  <2>1. /\ UNCHANGED <<today, releaseLedger, mirrored, recalled, redone>>
        /\ ~rec[today].written /\ phase' = "ledger" /\ runDay' = today
    BY <1>6 DEF RunToday
  <2>2. /\ \A d \in RunDays : d # today => rec'[d] = rec[d]
        /\ \A d \in RunDays : d # today - 1 => ran'[d] = ran[d]
    BY <1>0, <1>6 DEF RunToday, ReleaseTypeOK
  <2>3. rec'[today].written
    <3>1. PICK x \in Records : rec' = [rec EXCEPT ![today] = x]
      BY <1>6 DEF RunToday
    <3>2. rec'[today] = x
      BY <1>0, <3>1 DEF ReleaseTypeOK
    <3> QED
      BY <3>2, InputsAssumption
  <2>4. \A r \in releaseLedger.releases : r.on < today
    BY <1>0, <2>1 DEF Firm
  <2>5. \A r \in releaseLedger.releases :
          /\ \A d \in RunDays : d <= r.on => rec'[d] = rec[d]
          /\ \A d \in RunDays : d < r.on => ran'[d] = ran[d]
    <3> TAKE r \in releaseLedger.releases
    <3>1. \A d \in RunDays : d <= r.on => d # today
      BY <1>0, <2>4
    <3>2. \A d \in RunDays : d < r.on => d # today - 1
      BY <1>0, <2>4
    <3> QED
      BY <2>2, <3>1, <3>2
  <2>6. redone' <= redone /\ redone' \in Int
    BY <1>0, <2>1
  <2>7. \A d \in RunDays : rec[d].written => rec'[d].written
    BY <2>1, <2>2
  <2>8. runDay' \in RunDays /\ runDay' <= today /\ rec'[runDay'].written /\ runDay' = today
    BY <1>0, <2>1, <2>3
  <2> QED
    BY <1>5, <2>1, <2>5, <2>6, <2>7, <2>8
<1>7. CASE RerunDay
  <2>1. PICK n \in 1 .. today, x \in Records :
          /\ rec' = [rec EXCEPT ![n] = x] /\ phase' = "ledger" /\ runDay' = n
          /\ redone' = IF n < redone THEN n ELSE redone
    BY <1>7 DEF RerunDay
  <2>2. n \in RunDays /\ n <= today /\ n \in Int
    <3>1. today \in 1 .. LastRunDay /\ LastRunDay \in Int
      BY <1>0, ReleaseBoundsAssumption DEF RunDays
    <3> QED
      BY <3>1 DEF RunDays
  <2>3. UNCHANGED <<today, ran, releaseLedger, mirrored, recalled>>
    BY <1>7 DEF RerunDay
  <2>4. rec'[n] = x /\ \A d \in RunDays : d # n => rec'[d] = rec[d]
    BY <1>0, <2>1, <2>2 DEF ReleaseTypeOK
  <2>5. x.written
    BY InputsAssumption
  <2>6. redone' <= redone /\ redone' <= n /\ redone' \in Int
    <3>1. redone \in Int
      BY <1>0
    <3> QED
      BY <2>1, <2>2, <3>1
  <2>7. \A r \in releaseLedger.releases : r.on < redone' =>
          /\ \A d \in RunDays : d <= r.on => rec'[d] = rec[d]
          /\ \A d \in RunDays : d < r.on => ran'[d] = ran[d]
    <3>1. ASSUME NEW r \in releaseLedger.releases, r.on < redone', NEW d \in RunDays, d <= r.on
          PROVE  d # n
      <4>1. r.on \in Int /\ d \in Int
        BY <1>0
      <4> QED
        BY <2>2, <2>6, <3>1, <4>1
    <3> QED
      BY <2>3, <2>4, <3>1
  <2>8. \A d \in RunDays : rec[d].written => rec'[d].written
    BY <2>4, <2>5
  <2>9. runDay' \in RunDays /\ runDay' <= today /\ rec'[runDay'].written /\ redone' <= runDay'
    BY <2>1, <2>2, <2>4, <2>5, <2>6
  <2> QED
    BY <1>5, <2>1, <2>3, <2>6, <2>7, <2>8, <2>9
<1>8. CASE LateShadow
  <2>1. PICK n \in 1 .. (today - 1), x \in Runs :
          ran' = [ran EXCEPT ![n] = x] /\ redone' = IF n + 1 < redone THEN n + 1 ELSE redone
    BY <1>8 DEF LateShadow
  <2>2. n \in Int
    OBVIOUS
  <2>3. UNCHANGED <<today, rec, releaseLedger, mirrored, recalled, phase>> /\ phase' = "idle"
    BY <1>8 DEF LateShadow
  <2>4. \A d \in RunDays : d # n => ran'[d] = ran[d]
    BY <1>0, <2>1 DEF ReleaseTypeOK
  <2>5. redone' <= redone /\ redone' <= n + 1 /\ redone' \in Int
    <3>1. redone \in Int
      BY <1>0
    <3> QED
      BY <2>1, <2>2, <3>1
  <2>6. \A r \in releaseLedger.releases : r.on < redone' =>
          /\ \A d \in RunDays : d <= r.on => rec'[d] = rec[d]
          /\ \A d \in RunDays : d < r.on => ran'[d] = ran[d]
    <3>1. ASSUME NEW r \in releaseLedger.releases, r.on < redone', NEW d \in RunDays, d < r.on
          PROVE  d # n
      <4>1. r.on \in Int /\ d \in Int
        BY <1>0
      <4> QED
        BY <2>2, <2>5, <3>1, <4>1
    <3> QED
      BY <2>3, <2>4, <3>1
  <2> QED
    BY <1>5, <2>3, <2>5, <2>6
<1>9. CASE WriteLedger
  <2>1. /\ UNCHANGED <<today, rec, ran, mirrored, runDay>> /\ redone' = NoRedo
        /\ phase = "ledger" /\ phase' = "mirror" /\ releaseLedger' = BuildLedger(runDay)
        /\ runDay \in RunDays
        /\ recalled' = recalled \cup DigestsOf({r \in releaseLedger.releases : r.on >= redone})
    BY <1>0, <1>9 DEF WriteLedger, FromRecords
  <2>2. PICK n \in RunDays : n = runDay
    BY <2>1
  <2>3. BuildLedger(n)' = BuildLedger(n) /\ releaseLedger' = BuildLedger(n)
    BY <1>2, <2>1, <2>2
  <2>4. FromRecords'
    BY <2>1, <2>2, <2>3 DEF FromRecords
  <2>5. releaseLedger'.asOf = n /\ DigestsOf(releaseLedger'.releases) \cap releaseLedger'.closed = {}
    BY <1>0, <2>3, LedgerBuilt
  <2>6. Kept
    <3> SUFFICES ASSUME NEW r \in releaseLedger.releases, r.on < redone
                 PROVE  r \in releaseLedger'.releases
      OBVIOUS
    <3>1. PICK m \in RunDays : m = r.on
      BY <1>0
    <3>2. r \in BuildLedger(m).releases /\ r.on <= releaseLedger.asOf
      BY <3>1, <1>0 DEF Firm
    <3>3. m <= n
      BY <1>0, <2>1, <2>2, <3>1, <3>2 DEF Firm
    <3>4. BuildLedger(m).releases \subseteq BuildLedger(n).releases
      BY <1>0, <3>3, LedgerGrows
    <3> QED
      BY <2>3, <3>2, <3>4
  <2>7. \A r \in releaseLedger'.releases : r.on <= n /\ (r \in BuildLedger(r.on).releases)'
    <3> SUFFICES ASSUME NEW r \in BuildLedger(n).releases
                 PROVE  r.on <= n /\ (r \in BuildLedger(r.on).releases)'
      BY <2>3
    <3>1. r.on \in RunDays /\ r.on <= n /\ r \in BuildLedger(r.on).releases
      BY <1>0, OnItsDay
    <3>2. PICK m \in RunDays : m = r.on
      BY <3>1
    <3>3. BuildLedger(m)' = BuildLedger(m)
      BY <1>2, <2>1
    <3> QED
      BY <3>1, <3>2, <3>3
  <2>8. mirrored \subseteq DigestsOf(releaseLedger'.releases) \cup recalled'
    <3>1. DigestsOf(releaseLedger.releases) \subseteq DigestsOf(releaseLedger'.releases) \cup recalled'
      <4> SUFFICES ASSUME NEW r \in releaseLedger.releases
                   PROVE  r.digest \in DigestsOf(releaseLedger'.releases) \cup recalled'
        BY DEF DigestsOf
      <4>1. r.on < redone \/ r.on >= redone
        BY <1>0
      <4>2. CASE r.on < redone
        BY <2>6, <4>2 DEF DigestsOf
      <4>3. CASE r.on >= redone
        BY <2>1, <4>3 DEF DigestsOf
      <4> QED
        BY <4>1, <4>2, <4>3
    <3> QED
      BY <1>0, <2>1, <3>1 DEF Firm
  <2>9. n <= today /\ (~rec[today].written => n < today)
    BY <1>0, <2>1, <2>2 DEF Firm
  <2>10. Firm'
    BY <2>1, <2>2, <2>5, <2>7, <2>8, <2>9 DEF Firm
  <2> QED
    BY <2>4, <2>6, <2>10
<1>10. CASE CopyImage
  <2>1. NextCopy \in DigestsOf(releaseLedger.releases)
    BY <1>0, <1>10, NextCopyIsDue DEF CopyImage, ReleaseTypeOK
  <2>2. /\ UNCHANGED <<today, rec, ran, releaseLedger, redone, recalled, phase, runDay>>
        /\ mirrored' \subseteq mirrored \cup DigestsOf(releaseLedger.releases)
    BY <1>10, <2>1 DEF CopyImage
  <2> QED
    BY <1>3, <2>2
<1>11. CASE CopyFails
  BY <1>3, <1>11 DEF CopyFails
<1>12. CASE PublishReleaseList
  BY <1>3, <1>12 DEF PublishReleaseList, EndStep
<1>13. CASE Stop
  BY <1>3, <1>13 DEF Stop, EndStep
<1>14. CASE UNCHANGED releaseVars
  BY <1>3, <1>14 DEF releaseVars
<1> QED
  BY <1>4, <1>6, <1>7, <1>8, <1>9, <1>10, <1>11, <1>12, <1>13, <1>14 DEF ReleaseNext

LEMMA ReleaseInvHolds == ReleaseSpec => []ReleaseInv
<1>1. ReleaseInv /\ [ReleaseNext]_releaseVars => ReleaseInv'
  BY ReleaseStepInv
<1> QED
  BY <1>1, ReleaseInitInv, PTL DEF ReleaseSpec

\* The records, the ledger, the copies and the list keep their types, for any
\* records, runs and rule parameters: every copy tried next is one still to try,
\* and every release carries its day and a reason.
THEOREM ReleaseTypeCorrect == ReleaseSpec => []ReleaseTypeOK
<1>1. ReleaseInv => ReleaseTypeOK
  BY DEF ReleaseInv
<1> QED
  BY <1>1, ReleaseInvHolds, PTL

\* However often days are run again and rows come late, the ledger never takes a
\* release back, nor its day or reason, unless its day is one the rule had to read
\* anew (observe_day).
THEOREM ReleasesStay == ReleaseSpec => ReleaseIsFinal
<1>1. ReleaseInv /\ [ReleaseNext]_releaseVars =>
        [\A r \in releaseLedger.releases :
           r.on < redone => r \in releaseLedger'.releases]_releaseVars
  BY ReleaseStepInv
<1> QED
  BY <1>1, ReleaseInvHolds, PTL DEF ReleaseSpec, ReleaseIsFinal

\* No image the ledger calls closed has a public copy, whichever copies failed, were
\* tried again or were cut short, unless its release was of such a day
\* (run_release_step).
THEOREM NothingClosedIsPublic == ReleaseSpec => []ClosedStaysPrivate
<1>1. ReleaseInv => ClosedStaysPrivate
  BY DEF ReleaseInv, Firm, ClosedStaysPrivate
<1> QED
  BY <1>1, ReleaseInvHolds, PTL

\* What the step works from: the ledger of the run's day, as the rule computes it.
LEMMA StepReadsRule ==
  ASSUME ReleaseInv, phase = "mirror"
  PROVE  /\ ReleaseInputs /\ runDay \in RunDays /\ releaseLedger.asOf = runDay
         /\ RuleHolds(Replay(runDay), runDay)
         /\ releaseLedger.releases = BuildLedger(runDay).releases
<1>1. ReleaseInputs /\ runDay \in RunDays /\ releaseLedger = BuildLedger(runDay)
  BY DEF ReleaseInv, FromRecords, ReleaseTypeOK, ReleaseInputs
<1>2. releaseLedger.asOf = runDay
  BY <1>1, LedgerBuilt
<1> QED
  BY <1>1, <1>2, RuleHeld

\* Nothing is released before it is due, whatever the parameters of the rule and
\* whichever days went unrecorded, were run again or got their baskets late: out
\* of the earning set for the set number of recorded days, closed for the length
\* of the embargo, or earned with under an earlier champion (observe_day).
THEOREM ReleasesAreDue == ReleaseSpec => []NeverReleasedEarly
<1>1. ReleaseInv => NeverReleasedEarly
  <2> SUFFICES ASSUME ReleaseInv, phase = "mirror", NEW r \in releaseLedger.releases
               PROVE  LET before == {d \in EarnedOn(r.digest) : d <= r.on}
                          out    == {d \in RecordedUpTo(r.on) : \A e \in before : d > e}
                      IN /\ before # {} /\ \A d \in before : r.since <= d
                         /\ r.reason = "left_earning_set" => Cardinality(out) = ReleaseAfterDaysOut
                         /\ r.reason = "max_embargo" => r.on - r.since >= MaxEmbargoDays
                         /\ r.reason = "dethroned" => \E d \in before : rec[d].champion \notin
                                                        {NoOne, rec[r.on].champion}
    BY DEF NeverReleasedEarly
  <2> DEFINE g == r.digest
             x == Replay(runDay).digests[g]
  <2>1. /\ ReleaseInputs /\ runDay \in RunDays
        /\ RuleHolds(Replay(runDay), runDay)
        /\ r \in BuildLedger(runDay).releases
    BY StepReadsRule
  <2>2. /\ g \in DOMAIN Replay(runDay).digests /\ x.released # NoDay
        /\ r = [digest |-> g, on |-> x.released, reason |-> x.reason, since |-> x.since]
    BY <2>1, LedgerBuilt, Zenon
  <2>3. r.on = x.released /\ r.reason = x.reason /\ r.since = x.since
    <3> HIDE DEF x, g
    <3> QED
      BY <2>2
  <2>4. FieldsHold(g, r.since, x.out, r.on, r.reason, runDay)
    BY <2>1, <2>2, <2>3, Zenon DEF RuleHolds, DigestHolds
  <2>5. ClosedSince(g, r.since, r.on) /\ DueOn(g, r.since, r.reason, r.on)
    BY <2>2, <2>3, <2>4, Zenon DEF FieldsHold
  <2> QED
    BY <2>5, Zenon DEF ClosedSince, DueOn, Earned, OutSince
<1> QED
  BY <1>1, ReleaseInvHolds, PTL

\* Whoever loses the seat has the digest it held the seat with released by the
\* day another hotkey takes it, over any stretch of days with an empty seat
\* (observe_day, rule 2).
THEOREM SeatLossReleases == ReleaseSpec => []DethronedReleased
<1>1. ReleaseInv => DethronedReleased
  <2> SUFFICES ASSUME ReleaseInv, phase = "mirror",
                      NEW old \in RecordedUpTo(releaseLedger.asOf),
                      NEW new \in RecordedUpTo(releaseLedger.asOf),
                      old < new, rec[old].champion \notin {NoOne, rec[new].champion},
                      rec[new].champion # NoOne,
                      \A d \in RecordedUpTo(new - 1) : d > old => rec[d].champion = NoOne,
                      NEW e \in DayEarning(old), e[1] = rec[old].champion
               PROVE  \E r \in releaseLedger.releases : r.digest = e[2] /\ r.on <= new
    BY DEF DethronedReleased
  <2>1. /\ ReleaseInputs /\ runDay \in RunDays /\ releaseLedger.asOf = runDay
        /\ RuleHolds(Replay(runDay), runDay)
        /\ releaseLedger.releases = BuildLedger(runDay).releases
    BY StepReadsRule
  <2>2. old \in RunDays /\ new \in RunDays /\ new <= runDay
    BY <2>1 DEF RecordedUpTo, Recorded
  <2>3. ASSUME NEW d \in RunDays, old < d, d < new PROVE rec[d].champion = NoOne
    <3>1. CASE rec[d].written
      <4>1. d <= new - 1
        BY <2>2, <2>3 DEF RunDays
      <4>2. d \in RecordedUpTo(new - 1)
        BY <3>1, <4>1 DEF RecordedUpTo, Recorded
      <4> QED
        BY <2>2, <2>3, <4>2 DEF RunDays
    <3>2. CASE ~rec[d].written
      BY <2>1, <3>2, UnwrittenIsEmpty
    <3> QED
      BY <3>1, <3>2
  <2>4. Successor(old, new)
    BY <2>2, <2>3 DEF Successor
  <2> DEFINE g == e[2]
             x == Replay(runDay).digests[g]
  <2>5. g \in DOMAIN Replay(runDay).digests /\ x.released # NoDay /\ x.released <= new
    BY <2>1, <2>2, <2>4, Zenon DEF RuleHolds, DethronedHolds
  <2>6. [digest |-> g, on |-> x.released, reason |-> x.reason, since |-> x.since]
          \in releaseLedger.releases
    BY <2>1, <2>5, LedgerBuilt, Zenon
  <2> HIDE DEF g, x
  <2> QED
    BY <2>5, <2>6 DEF g
<1> QED
  BY <1>1, ReleaseInvHolds, PTL
=============================================================================
