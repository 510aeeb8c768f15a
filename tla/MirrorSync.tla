------------------------------ MODULE MirrorSync ------------------------------
(***************************************************************************)
(* The mirror: every published document is sent once to the operator's API *)
(* and what was confirmed is remembered in _mirror_shipped.json.           *)
(*                                                                         *)
(* A pass renders the documents of the last days, drops those it recorded  *)
(* or the mirror already serves, posts the small ones in batches, then     *)
(* sends each large receipt: first the slices of its miners, then the      *)
(* receipt itself through object storage.  The record is written at the    *)
(* end.  A call may fail before or after the mirror stored what it carried,*)
(* a batch may be refused in part, a pass may die.  A day is published     *)
(* once, or issued again by a repair of the chain of documents.            *)
(*                                                                         *)
(* A document's content is the number of the publication that issued it.   *)
(***************************************************************************)
EXTENDS Integers, FiniteSets

CONSTANTS
  MaxDay,       \* bound: days published
  Miners,       \* the hotkeys with entries in every receipt
  LargeDays,    \* the days whose receipt is over LARGE_OBJECT_BYTES
  RecentDays,   \* SN21_MIRROR_SYNC_DAYS
  MaxBatch,     \* documents that fit a batch
  MaxRepairs,   \* bound: repairs of the published days
  MaxFailures,  \* bound: calls that fail or are refused
  MaxDeaths     \* bound: passes that die

Days == 1 .. MaxDay
Never == 0
Receipts == {"receipt"} \X Days
Accuracies == {"accuracy"} \X Days
Slices == Miners \X Days
Index == <<"index", 0>>
Docs == Receipts \cup Accuracies \cup Slices \cup {Index}
Editions == 0 .. (MaxDay + MaxRepairs)

ASSUME MinersAssumption == {"receipt", "accuracy", "index"} \cap Miners = {}
ASSUME DaysAssumption ==
  MaxDay \in Nat \ {0} /\ LargeDays \subseteq Days /\ RecentDays \in Nat \ {0}
ASSUME BoundsAssumption ==
  /\ MaxBatch \in Nat \ {0} /\ MaxRepairs \in Nat
  /\ MaxFailures \in Nat /\ MaxDeaths \in Nat

VARIABLES
  edition,    \* publications and repairs so far
  days,       \* days published: 1 .. days
  ledger,     \* what each document holds on the validator
  mirror,     \* what the mirror serves
  shipped,    \* _mirror_shipped.json
  pc,         \* the pass: idle, small, slices, record
  known,      \* the record as loaded, with the documents found on the mirror
  small, large,  \* documents to post, large receipts to send
  slices,     \* slices of the large receipt in hand
  confirmed,  \* the record to be written
  bad,        \* documents of this pass that failed or were refused
  repairs, failures, deaths

publication == <<edition, days, ledger>>
pass == <<known, small, large, slices, confirmed, bad>>
vars == <<publication, mirror, shipped, pc, pass, repairs, failures, deaths>>

Nothing == [doc \in Docs |-> Never]

TypeOK ==
  /\ edition \in Editions /\ days \in 0 .. MaxDay
  /\ \A f \in {ledger, mirror, shipped, known, confirmed} : f \in [Docs -> Editions]
  /\ pc \in {"idle", "small", "slices", "record"}
  /\ small \subseteq Docs \ Slices /\ large \subseteq Receipts
  /\ slices \subseteq Slices /\ bad \subseteq Docs

\* Nothing of a pass is left after it.
NoPass ==
  /\ pc = "idle" /\ known = Nothing /\ small = {} /\ large = {} /\ slices = {}
  /\ confirmed = Nothing /\ bad = {}

Init ==
  /\ edition = 0 /\ days = 0
  /\ ledger = Nothing /\ mirror = Nothing /\ shipped = Nothing
  /\ NoPass
  /\ repairs = 0 /\ failures = 0 /\ deaths = 0

-----------------------------------------------------------------------------
(* Publication *)

\* The documents of the days in S and the index are issued.
Issue(S) ==
  /\ edition' = edition + 1
  /\ ledger' = [doc \in Docs |-> IF doc[2] \in S \/ doc = Index THEN edition + 1 ELSE ledger[doc]]

PublishDay ==
  /\ pc = "idle" /\ days < MaxDay
  /\ days' = days + 1
  /\ Issue({days + 1})
  /\ UNCHANGED <<mirror, shipped, pc, pass, repairs, failures, deaths>>

\* A repair issues a day and every later day again.
RepairFrom ==
  /\ pc = "idle" /\ repairs < MaxRepairs
  /\ repairs' = repairs + 1
  /\ \E d \in 1 .. days : Issue(d .. days)
  /\ UNCHANGED <<days, mirror, shipped, pc, pass, failures, deaths>>

-----------------------------------------------------------------------------
(* A pass *)

IsImmutable(doc) == doc # Index
IsLarge(doc) == doc \in Receipts /\ doc[2] \in LargeDays

\* What build_mirror_items renders: the last days, and the index.
Items == {doc \in Receipts \cup Accuracies : doc[2] \in (days - RecentDays + 1) .. days}
         \cup {Index}

\* The path alone is asked for.
MirrorHas_Path(doc) == mirror[doc] # Never
\* The mirror serves a document with this envelope hash.
MirrorHas(doc) == mirror[doc] = ledger[doc]

\* Anything recorded at the path counts, whatever the hash.
Unrecorded_Path(doc) == IsImmutable(doc) /\ shipped[doc] = Never
Unrecorded(doc) == IsImmutable(doc) /\ shipped[doc] # ledger[doc]

\* The record is loaded and the documents to send are sorted out.  A HEAD
\* request that fails says the mirror does not have the document.
StartPass ==
  /\ pc = "idle"
  /\ \E deaf \in SUBSET {doc \in Items : MirrorHas(doc)} :
       LET unrecorded == {doc \in Items : Unrecorded(doc)}
           adopted == {doc \in unrecorded \ deaf : MirrorHas(doc)}
           send == (unrecorded \ adopted) \cup {Index}
       IN /\ deaf \subseteq unrecorded
          /\ failures + Cardinality(deaf) <= MaxFailures
          /\ failures' = failures + Cardinality(deaf)
          /\ known' = [doc \in Docs |-> IF doc \in adopted THEN ledger[doc] ELSE shipped[doc]]
          /\ confirmed' = known'
          /\ small' = {doc \in send : ~IsLarge(doc)}
          /\ large' = {doc \in send : IsLarge(doc)}
  /\ pc' = "small"
  /\ UNCHANGED <<publication, mirror, shipped, slices, bad, repairs, deaths>>

\* What a batch that came back confirms.
Confirmed_Batch(batch, refused) == {doc \in batch : IsImmutable(doc)}
Confirmed(batch, refused) == {doc \in batch : IsImmutable(doc) /\ doc \notin refused}

Store(S) == mirror' = [doc \in Docs |-> IF doc \in S THEN ledger[doc] ELSE mirror[doc]]
Confirm(S) == confirmed' = [doc \in Docs |-> IF doc \in S THEN ledger[doc] ELSE confirmed[doc]]

\* One batch of docs is posted.  It comes back, with some of it refused; or the
\* call fails, whether or not the mirror had stored it.
PostBatch(docs, batch) ==
  /\ batch # {} /\ batch \subseteq docs /\ Cardinality(batch) <= MaxBatch
  /\ Cardinality(batch) < MaxBatch => batch = docs
  /\ \/ \E refused \in SUBSET batch :
          /\ refused # {} => failures < MaxFailures
          /\ failures' = IF refused # {} THEN failures + 1 ELSE failures
          /\ Store(batch \ refused)
          /\ Confirm(Confirmed(batch, refused))
          /\ bad' = bad \cup refused
     \/ /\ failures < MaxFailures
        /\ failures' = failures + 1
        /\ \E stored \in {{}, batch} : Store(stored)
        /\ bad' = bad \cup batch
        /\ UNCHANGED confirmed

PostSmall ==
  /\ pc = "small" /\ small # {}
  /\ \E batch \in SUBSET small :
       PostBatch(small, batch) /\ small' = small \ batch
  /\ UNCHANGED <<publication, shipped, pc, known, large, slices, repairs, deaths>>

Earliest(S) == CHOOSE doc \in S : \A other \in S : doc[2] <= other[2]

\* The next large receipt: its slices that were not recorded are rendered.
NextLarge ==
  /\ pc = "small" /\ small = {}
  /\ IF large = {} THEN pc' = "record" /\ UNCHANGED slices
     ELSE LET d == Earliest(large)[2]
          IN /\ slices' = {doc \in Miners \X {d} : known[doc] # ledger[doc]}
             /\ pc' = "slices"
  /\ UNCHANGED <<publication, mirror, shipped, known, small, large, confirmed, bad,
                 repairs, failures, deaths>>

PostSlices ==
  /\ pc = "slices" /\ slices # {}
  /\ \E batch \in SUBSET slices :
       PostBatch(slices, batch) /\ slices' = slices \ batch
  /\ UNCHANGED <<publication, shipped, pc, known, small, large, repairs, deaths>>

\* The receipt counts as shipped only together with its slices.
ShipObject ==
  /\ pc = "slices" /\ slices = {}
  /\ LET receipt == Earliest(large)
         slicesOk == bad \cap (Miners \X {receipt[2]}) = {}
     IN /\ \/ /\ Store({receipt})
              /\ Confirm(IF slicesOk THEN {receipt} ELSE {})
              /\ UNCHANGED <<bad, failures>>
           \/ /\ failures < MaxFailures
              /\ failures' = failures + 1
              /\ \E stored \in {{}, {receipt}} : Store(stored)
              /\ bad' = bad \cup {receipt}
              /\ UNCHANGED confirmed
        /\ large' = large \ {receipt}
  /\ pc' = "small"
  /\ UNCHANGED <<publication, shipped, known, small, slices, repairs, deaths>>

EndPass ==
  /\ pc' = "idle" /\ known' = Nothing /\ small' = {} /\ large' = {} /\ slices' = {}
  /\ confirmed' = Nothing /\ bad' = {}

RecordShipped ==
  /\ pc = "record"
  /\ shipped' = confirmed
  /\ EndPass
  /\ UNCHANGED <<publication, mirror, repairs, failures, deaths>>

PassDies ==
  /\ pc # "idle" /\ deaths < MaxDeaths
  /\ deaths' = deaths + 1
  /\ EndPass
  /\ UNCHANGED <<publication, mirror, shipped, repairs, failures>>

Next ==
  \/ PublishDay \/ RepairFrom
  \/ StartPass \/ PostSmall \/ NextLarge \/ PostSlices \/ ShipObject \/ RecordShipped
  \/ PassDies

\* The pipeline runs every day, and a pass ends unless it dies.
Fairness ==
  /\ WF_vars(StartPass) /\ WF_vars(PostSmall) /\ WF_vars(NextLarge)
  /\ WF_vars(PostSlices) /\ WF_vars(ShipObject) /\ WF_vars(RecordShipped)

Spec == Init /\ [][Next]_vars
FairSpec == Spec /\ Fairness

-----------------------------------------------------------------------------
(* Properties *)

\* The validator's documents, the mirror and the record, as an abstract replica.
Served == INSTANCE Replica WITH
  Objects <- Docs, Versions <- Editions,
  origin <- ledger, copy <- mirror, known <- shipped

\* Passes, with calls that fail, lose their answer or are refused in part, and
\* with deaths, implement the replica: the mirror takes only what is issued, the
\* record says no more than the mirror serves, and neither goes back, also when
\* a repair issues a recorded document again (sync_mirror, flush).
ImplementsReplica == Served!Spec

\* What the record says was shipped is served by the mirror, in that edition or
\* a later one: a recorded document is never sent again.
RecordedIsServed == Served!NothingAhead

\* A pass that ends without a failure or refusal leaves every receipt, accuracy
\* document and the index of the last days on the mirror as the validator has
\* them (sync_mirror: "a changed document always ships").
SuccessMeansServed ==
  pc = "record" /\ bad = {} => \A doc \in Items : mirror[doc] = ledger[doc]

\* Whatever failed before, the documents of the last days are served in the end.
EventuallyServed ==
  \A doc \in Docs \ Slices : <>[](doc \in Items => mirror[doc] = ledger[doc])

\* "A receipt counts as shipped only together with its miner slices"
\* (mirror_sync.py:677).  Does not hold when the receipt is stored and a slice
\* fails: the next pass finds the receipt there and adopts it (README, section 3).
ReceiptRecordedWithSlices ==
  \A d \in LargeDays, m \in Miners : shipped[<<"receipt", d>>] <= mirror[<<m, d>>]
=============================================================================
