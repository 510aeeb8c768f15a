-------------------------- MODULE SettlementProofs --------------------------
(***************************************************************************)
(* Proofs about Settlement, for any rows, miners, predictions, settle      *)
(* dates and number of crashes.                                            *)
(***************************************************************************)
EXTENDS Settlement, FiniteSetTheorems, TLAPS

USE DEF Days, NoDay

(* What the groups of variables stand for. *)
LEMMA MarkedType == ASSUME TypeOK PROVE Marked \subseteq Rows /\ PublishedDays \subseteq Days
  BY DEF Marked, PublishedDays

(* A receipt is only written after its predecessor was read: without this   *)
(* the name of a torn head could become the link of a document.             *)
HeadReadable == pc = "receipt_write" => receiptHead # TornHead

(* The variables keep their types. *)
THEOREM TypeCorrect == Spec => []TypeOK
<1> USE RowsAssumption, DaysAssumption, BoundsAssumption
<1>1. Init => TypeOK /\ HeadReadable
  <2> SUFFICES ASSUME Init PROVE TypeOK /\ HeadReadable
    OBVIOUS
  <2>1. receipts \in [Days -> [state : {"none", "torn", "whole"}, rows : SUBSET Rows,
                               prev : Days \cup {NoDay}]]
    BY DEF Init, NoReceipt
  <2>2. docs \in [Days -> [published : BOOLEAN, rows : SUBSET Rows, receipt : BOOLEAN,
                           prev : Days \cup {NoDay}]]
    BY Zenon DEF Init, NoDoc
  <2>3. bound \in BOOLEAN
    BY Zenon DEF Init
  <2>4. standing \in [Miners -> [Rows -> Nat]]
    BY DEF Init
  <2>5. /\ measured \subseteq Rows /\ entered \subseteq Rows \X Days
        /\ memo \subseteq Days /\ chain \subseteq Days
        /\ outcomes \subseteq Rows /\ queue \subseteq Nat \X Miners /\ results \subseteq Rows
        /\ receiptHead \in Days \cup {NoDay, TornHead} /\ docHead \in Days \cup {NoDay}
    BY Zenon DEF Init
  <2>6. today \in Days /\ day \in Days /\ crashes \in Nat /\ outages \in Nat
    BY SMT DEF Init, Days
  <2>7. pc \in Stages /\ HeadReadable
    BY DEF Init, Stages, HeadReadable
  <2> QED
    BY Zenon, <2>1, <2>2, <2>3, <2>4, <2>5, <2>6, <2>7 DEF TypeOK
<1>2. TypeOK /\ HeadReadable /\ [Next]_vars => HeadReadable'
  BY DEF HeadReadable, Next, Progress, vars, world, feeds, Measure, NextDay, Settle,
    SettleUnreachable, StartRun, AppendEntries, MarkEntered, SettleFails, Repair,
    RepairUnreachable, EndRun, SkipReceipt, RefuseReceipt, OpenReceipt, WriteReceipt,
    OpenReceiptHead, WriteReceiptHead, RefuseAccuracy, PublishAccuracy,
    AdvanceAccuracyHead, SubmitFails, SubmitRoot, RecordAnchor, Crash
<1>3. TypeOK /\ HeadReadable /\ [Next]_vars => TypeOK'
  <2> SUFFICES ASSUME TypeOK, HeadReadable, [Next]_vars PROVE TypeOK'
    OBVIOUS
  <2> USE DEF world, ledger, feeds, anchor, run, bounds, Stages
  <2>1. ASSUME NEW r \in Rows, Measure(r) PROVE TypeOK'
    BY <2>1 DEF TypeOK, Measure
  <2>2. CASE NextDay
    BY <2>2 DEF TypeOK, NextDay
  <2>3. ASSUME NEW d \in Days, Settle(d) PROVE TypeOK'
    <3>1. outcomes' \subseteq Rows
      BY <2>3 DEF TypeOK, Settle, Offered, StartRun
    <3>2. queue' \subseteq Nat \X Miners
      BY <2>3, <3>1 DEF TypeOK, Settle
    <3>3. bound' \in BOOLEAN
      BY <2>3, Zenon DEF Settle, StartRun
    <3> QED
      BY <2>3, <3>1, <3>2, <3>3 DEF TypeOK, Settle, StartRun
  <2>4. ASSUME NEW d \in Days, SettleUnreachable(d) PROVE TypeOK'
    <3>1. bound' \in BOOLEAN
      BY <2>4, Zenon DEF SettleUnreachable, StartRun
    <3> QED
      BY <2>4, <3>1 DEF TypeOK, SettleUnreachable, StartRun
  <2>5. ASSUME NEW m \in Miners, AppendEntries(m) PROVE TypeOK'
    <3>1. standing' \in [Miners -> [Rows -> Nat]]
      BY <2>5 DEF TypeOK, AppendEntries
    <3>2. queue' \subseteq Nat \X Miners
      BY <2>5 DEF TypeOK, AppendEntries
    <3> QED
      BY <2>5, <3>1, <3>2 DEF TypeOK, AppendEntries
  <2>6. CASE MarkEntered
    BY <2>6 DEF TypeOK, MarkEntered, Scored
  <2>7. CASE SettleFails
    BY <2>7 DEF TypeOK, SettleFails
  <2>8. CASE Repair
    BY <2>8 DEF TypeOK, Repair, RepairRows, Scored, Offered
  <2>9. CASE RepairUnreachable
    BY <2>9 DEF TypeOK, RepairUnreachable
  <2>10. CASE EndRun /\ UNCHANGED <<world, ledger, feeds, bounds>>
              /\ memo' \subseteq Days /\ chain' \subseteq Days
    <3>1. bound' \in BOOLEAN
      BY <2>10, Zenon DEF EndRun
    <3> QED
      BY <2>10, <3>1 DEF TypeOK, EndRun
  <2>11. CASE SkipReceipt
    BY <2>11 DEF TypeOK, SkipReceipt
  <2>12. CASE RefuseReceipt
    BY <2>12, <2>10 DEF TypeOK, RefuseReceipt
  <2>13. CASE OpenReceipt
    <3> DEFINE R == [state : {"none", "torn", "whole"}, rows : SUBSET Rows,
                     prev : Days \cup {NoDay}]
               opened == [receipts[day] EXCEPT !.state = "torn"]
    <3>1. receipts \in [Days -> R] /\ day \in Days
      BY DEF TypeOK
    <3>2. ASSUME NEW r \in R PROVE [r EXCEPT !.state = "torn"] \in R
      OBVIOUS
    <3>3. receipts[day] \in R
      BY <3>1, Zenon
    <3>4. opened \in R
      BY <3>2, <3>3, Zenon
    <3>5. receipts' = [receipts EXCEPT ![day] = opened]
      BY <2>13 DEF OpenReceipt
    <3> HIDE DEF R, opened
    <3>6. receipts' \in [Days -> R]
      BY <3>1, <3>4, <3>5, Zenon
    <3> QED
      BY <2>13, <3>6 DEF TypeOK, OpenReceipt, R
  <2>14. CASE WriteReceipt
    BY <2>14 DEF TypeOK, HeadReadable, WriteReceipt
  <2>15. CASE OpenReceiptHead
    BY <2>15 DEF TypeOK, OpenReceiptHead
  <2>16. CASE WriteReceiptHead
    <3>1. bound' \in BOOLEAN
      BY <2>16, Zenon DEF WriteReceiptHead
    <3> QED
      BY <2>16, <3>1 DEF TypeOK, WriteReceiptHead
  <2>17. CASE RefuseAccuracy
    BY <2>17, <2>10 DEF TypeOK, RefuseAccuracy
  <2>18. CASE PublishAccuracy
    BY <2>18 DEF TypeOK, PublishAccuracy
  <2>19. CASE AdvanceAccuracyHead
    BY <2>19 DEF TypeOK, AdvanceAccuracyHead
  <2>21. CASE SubmitFails
    BY <2>21, <2>10, MarkedType DEF TypeOK, SubmitFails
  <2>22. CASE SubmitRoot
    BY <2>22, MarkedType DEF TypeOK, SubmitRoot
  <2>23. CASE RecordAnchor
    BY <2>23, <2>10, MarkedType DEF TypeOK, RecordAnchor
  <2>24. CASE Crash
    <3>1. bound' \in BOOLEAN
      BY <2>24, Zenon DEF Crash, EndRun
    <3> QED
      BY <2>24, <3>1 DEF TypeOK, Crash, EndRun
  <2>25. CASE UNCHANGED vars
    BY <2>25 DEF TypeOK, vars
  <2> QED
    BY <2>1, <2>2, <2>3, <2>4, <2>5, <2>6, <2>7, <2>8, <2>9, <2>11, <2>12, <2>13,
       <2>14, <2>15, <2>16, <2>17, <2>18, <2>19, <2>21, <2>22, <2>23, <2>24,
       <2>25 DEF Next, Progress
<1> QED
  BY <1>1, <1>2, <1>3, PTL DEF Spec

-----------------------------------------------------------------------------
(* Marks and receipts follow the abstract book. *)

\* Rows being entered carry no mark and nothing is scored yet.
Fresh == pc = "enter" => outcomes \cap Marked = {} /\ results = {}

\* What the publication works on was marked with the day of the run.
Backed == pc \notin {"idle", "enter"} => results \subseteq MarkedOn(day)

\* A receipt lists rows marked with its day, and nothing before it is whole.
Listed ==
  /\ \A d \in Days : receipts[d].rows \subseteq MarkedOn(d)
  /\ \A d \in Days : receipts[d].state # "whole" => receipts[d].rows = {}
  /\ pc = "receipt_write" => receipts[day].state = "torn"

OneMark == \A r \in Rows, d, e \in Days : <<r, d>> \in entered /\ <<r, e>> \in entered => d = e

BookInv == Fresh /\ Backed /\ Listed /\ OneMark

(* Steps that touch neither the marks nor the receipts. *)
LEMMA QuietStep ==
  ASSUME TypeOK, BookInv, UNCHANGED <<entered, receipts>>,
         \/ pc' = "idle"
         \/ pc' = pc /\ UNCHANGED <<day, outcomes, results>>
         \/ /\ pc' \notin {"idle", "enter", "receipt_write"}
            /\ pc \notin {"idle", "enter"}
            /\ UNCHANGED <<day, results>>
         \/ pc' \notin {"receipt_write", "enter"} /\ results' = {}
  PROVE  BookInv' /\ UNCHANGED <<Book!book>>
<1>1. Marked' = Marked /\ \A d \in Days : MarkedOn(d)' = MarkedOn(d)
  BY DEF Marked, MarkedOn
<1>2. MarkedOn(day)' = MarkedOn(day')
  BY DEF MarkedOn
<1>3. Fresh' /\ Backed'
  BY <1>1, <1>2 DEF TypeOK, BookInv, Fresh, Backed, MarkedOn
<1>4. Listed' /\ OneMark'
  BY <1>1 DEF BookInv, Listed, OneMark
<1> QED
  BY <1>3, <1>4 DEF BookInv, Book!book

(* Every step keeps BookInv and is a step of the book or leaves it alone. *)
LEMMA BookStep ==
  ASSUME TypeOK, BookInv, [Next]_vars
  PROVE  BookInv' /\ [Book!Next]_(Book!book)
<1> USE RowsAssumption, DaysAssumption
<1> USE DEF world, ledger, feeds, anchor, run, bounds
<1> DEFINE Goal == BookInv' /\ [Book!Next]_(Book!book)
<1>1. ASSUME UNCHANGED <<Book!book>>, BookInv' PROVE Goal
  BY <1>1
<1>2. ASSUME NEW r \in Rows, Measure(r) PROVE Goal
  BY <1>2, QuietStep DEF Measure
<1>3. CASE NextDay
  BY <1>3, QuietStep DEF NextDay
<1>4. ASSUME NEW d \in Days, Settle(d) PROVE Goal
  <2>1. UNCHANGED <<entered, receipts>> /\ pc' = "enter" /\ results' = {}
    BY <1>4 DEF Settle, StartRun
  <2>2. outcomes' \cap Marked = {}
    BY <1>4 DEF Settle
  <2>3. Marked' = Marked /\ \A f \in Days : MarkedOn(f)' = MarkedOn(f)
    BY <2>1 DEF Marked, MarkedOn
  <2>4. BookInv'
    BY <2>1, <2>2, <2>3 DEF BookInv, Fresh, Backed, Listed, OneMark
  <2> QED
    BY <2>1, <2>4 DEF Book!book
<1>5. ASSUME NEW d \in Days, SettleUnreachable(d) PROVE Goal
  BY <1>5, QuietStep DEF SettleUnreachable, StartRun
<1>6. ASSUME NEW m \in Miners, AppendEntries(m) PROVE Goal
  BY <1>6, QuietStep DEF AppendEntries
<1>7. CASE MarkEntered
  <2>1. /\ entered' = entered \cup (outcomes \X {day})
        /\ pc' = "repair" /\ results' = Scored(outcomes)
        /\ UNCHANGED <<receipts, day, outcomes>>
    BY <1>7 DEF MarkEntered
  <2>2. outcomes \subseteq Rows /\ day \in Days /\ outcomes \cap Marked = {}
    BY <1>7 DEF TypeOK, MarkEntered, BookInv, Fresh
  <2>3. \A f \in Days : MarkedOn(f) \subseteq MarkedOn(f)'
    BY <2>1 DEF MarkedOn
  <2>4. results' \subseteq MarkedOn(day)'
    BY <2>1, <2>2 DEF MarkedOn, Scored
  <2>5. Backed' /\ Fresh'
    BY <2>1, <2>4 DEF Backed, Fresh
  <2>6. Listed'
    BY <2>1, <2>3 DEF BookInv, Listed
  <2>7. OneMark'
    <3> SUFFICES ASSUME NEW r \in Rows, NEW f \in Days, NEW g \in Days,
                        <<r, f>> \in entered', <<r, g>> \in entered'
                 PROVE  f = g
      BY DEF OneMark
    <3>1. CASE r \in outcomes
      BY <2>1, <2>2, <3>1 DEF Marked
    <3>2. CASE r \notin outcomes
      BY <2>1, <3>2 DEF BookInv, OneMark
    <3> QED
      BY <3>1, <3>2
  <2>8. Book!Enter(day, outcomes)
    <3>1. outcomes \subseteq Book!Unentered
      BY <2>2 DEF Book!Unentered, Marked
    <3> QED
      BY <2>1, <3>1 DEF Book!Enter
  <2> QED
    BY <2>2, <2>5, <2>6, <2>7, <2>8 DEF BookInv, Book!Next
<1>8. CASE SettleFails
  <2>1. results' = {}
    BY <1>8 DEF SettleFails, BookInv, Fresh
  <2> QED
    BY <1>8, <2>1, QuietStep DEF SettleFails
<1>9. CASE Repair
  <2>1. UNCHANGED <<entered, receipts, day>> /\ pc = "repair" /\ pc' = "receipt"
    BY <1>9 DEF Repair
  <2>2. results \subseteq MarkedOn(day) /\ RepairRows \subseteq MarkedOn(day)
    BY <2>1 DEF BookInv, Backed, RepairRows, Scored
  <2>3. results' \subseteq MarkedOn(day)'
    BY <1>9, <2>1, <2>2 DEF Repair, MarkedOn
  <2>4. \A f \in Days : MarkedOn(f)' = MarkedOn(f)
    BY <2>1 DEF MarkedOn
  <2>5. BookInv'
    BY <2>1, <2>3, <2>4 DEF BookInv, Fresh, Backed, Listed, OneMark
  <2> QED
    BY <2>1, <2>5 DEF Book!book
<1>10. CASE OpenReceipt
  <2>1. /\ UNCHANGED <<entered, day, results>>
        /\ receipts' = [receipts EXCEPT ![day].state = "torn"]
        /\ receipts[day].state = "none" /\ pc = "receipt" /\ pc' = "receipt_write"
    BY <1>10 DEF OpenReceipt
  <2>2. day \in Days
    BY DEF TypeOK
  <2>3. \A f \in Days : receipts'[f].rows = receipts[f].rows
    BY <2>1, <2>2 DEF TypeOK
  <2>4. /\ receipts'[day].state = "torn"
        /\ \A f \in Days : f # day => receipts'[f].state = receipts[f].state
    BY <2>1, <2>2 DEF TypeOK
  <2>5. \A f \in Days : MarkedOn(f)' = MarkedOn(f)
    BY <2>1 DEF MarkedOn
  <2>6. Listed'
    BY <2>1, <2>2, <2>3, <2>4, <2>5 DEF BookInv, Listed
  <2>7. MarkedOn(day)' = MarkedOn(day)
    BY <2>1 DEF MarkedOn
  <2>8. BookInv'
    BY <2>1, <2>6, <2>7 DEF BookInv, Fresh, Backed, OneMark
  <2> QED
    BY <2>1, <2>3, <2>8 DEF Book!book
<1>11. CASE WriteReceipt
  <2>1. /\ UNCHANGED <<entered, day, results>>
        /\ receipts' = [receipts EXCEPT ![day] =
             [state |-> "whole", rows |-> results, prev |-> receiptHead]]
        /\ pc = "receipt_write" /\ pc' = "receipt_head"
    BY <1>11 DEF WriteReceipt
  <2>2. day \in Days /\ results \subseteq Rows /\ results \subseteq MarkedOn(day)
    BY <2>1 DEF TypeOK, BookInv, Backed
  <2>3. receipts[day].rows = {}
    BY <2>1, <2>2 DEF BookInv, Listed
  <2>4. /\ receipts'[day].rows = results /\ receipts'[day].state = "whole"
        /\ \A f \in Days : f # day => receipts'[f] = receipts[f]
    BY <2>1, <2>2 DEF TypeOK
  <2>5. MarkedOn(day)' = MarkedOn(day) /\ \A f \in Days : MarkedOn(f)' = MarkedOn(f)
    BY <2>1 DEF MarkedOn
  <2>6. Listed'
    BY <2>1, <2>2, <2>4, <2>5 DEF BookInv, Listed
  <2>7. BookInv'
    BY <2>1, <2>2, <2>5, <2>6 DEF BookInv, Fresh, Backed, OneMark
  <2>8. results \subseteq Book!EnteredOn(day)
    BY <2>2 DEF Book!EnteredOn, MarkedOn
  <2>9. [f \in Days |-> receipts[f].rows][day] = {}
    BY <2>2, <2>3
  <2>10. [f \in Days |-> receipts'[f].rows]
           = [[f \in Days |-> receipts[f].rows] EXCEPT ![day] = results]
    BY <2>2, <2>4
  <2>11. Book!Publish(day, results)
    BY <2>1, <2>8, <2>9, <2>10 DEF Book!Publish
  <2>12. Book!Next
    BY <2>2, <2>11 DEF Book!Next, Book!Publish
  <2> QED
    BY <2>7, <2>12
<1>12. CASE \/ RepairUnreachable \/ SkipReceipt \/ OpenReceiptHead \/ WriteReceiptHead
            \/ PublishAccuracy \/ AdvanceAccuracyHead \/ SubmitRoot
  BY <1>12, QuietStep DEF RepairUnreachable, SkipReceipt, OpenReceiptHead,
    WriteReceiptHead, PublishAccuracy, AdvanceAccuracyHead, SubmitRoot
<1>13. CASE \/ RefuseReceipt \/ RefuseAccuracy \/ SubmitFails
            \/ RecordAnchor \/ Crash
  BY <1>13, QuietStep DEF RefuseReceipt, RefuseAccuracy, SubmitFails,
    RecordAnchor, Crash, EndRun
<1>14. CASE UNCHANGED vars
  BY <1>14, QuietStep DEF vars
<1> QED
  BY <1>2, <1>3, <1>4, <1>5, <1>6, <1>7, <1>8, <1>9, <1>10, <1>11, <1>12, <1>13, <1>14
  DEF Next, Progress

LEMMA BookInit == Init => BookInv /\ Book!Init
  BY DaysAssumption DEF Init, BookInv, Fresh, Backed, Listed, OneMark, Marked, MarkedOn,
    Book!Init, NoReceipt

(* The marks and the receipts implement the abstract book, through crashes, *)
(* failed requests and repaired receipts.                                   *)
THEOREM SettlementImplementsBook == Spec => ImplementsBook
<1>1. [](TypeOK /\ BookInv) /\ [][Next]_vars => [][Book!Next]_(Book!book)
  BY BookStep, PTL
<1>2. Spec => []BookInv
  BY BookInit, BookStep, TypeCorrect, PTL DEF Spec
<1> QED
  BY <1>1, <1>2, BookInit, TypeCorrect, PTL DEF Spec, ImplementsBook, Book!Spec

(* No row is published in the receipts of two days. *)
THEOREM ReceiptsAreDisjoint == Spec => []ReceiptsDisjoint
<1>1. TypeOK /\ BookInv => ReceiptsDisjoint
  <2> SUFFICES ASSUME TypeOK, BookInv, NEW d \in Days, NEW e \in Days, d # e
               PROVE  receipts[d].rows \cap receipts[e].rows = {}
    BY DEF ReceiptsDisjoint, Book!PublishedOnce
  <2> QED
    BY DEF BookInv, Listed, OneMark, MarkedOn
<1>2. Spec => []BookInv
  BY BookInit, BookStep, TypeCorrect, PTL DEF Spec
<1> QED
  BY <1>1, <1>2, TypeCorrect, PTL

-----------------------------------------------------------------------------
(* Entries and marks. *)

(* While rows are being entered, each miner's entry is in its file or still *)
(* queued.                                                                  *)
Entering ==
  pc = "enter" =>
    \A r \in outcomes : \A m \in Answers[r] :
      standing[m][r] >= 1 \/ <<SettlesOn[r], m>> \in queue

\* A mark is only ever found beside the entries.
MarkedIsEntered == \A r \in Rows : \A m \in Answers[r] : Marks(r) <= standing[m][r]

\* The entry the run has written and not marked yet.
Midway(r, m) ==
  IF pc = "enter" /\ r \in outcomes /\ <<SettlesOn[r], m>> \notin queue THEN 1 ELSE 0

\* Every entry is accounted for: by the mark, by a death, or by the run.
EntriesCounted ==
  \A r \in Rows : \A m \in Answers[r] :
    standing[m][r] <= Marks(r) + crashes + Midway(r, m)

EntryInv == MarkedIsEntered /\ Entering /\ EntriesCounted

\* The counts are numbers.
LEMMA CountTypes ==
  ASSUME TypeOK, NEW r \in Rows, NEW m \in Answers[r]
  PROVE  /\ m \in Miners
         /\ standing[m][r] \in Nat
         /\ Marks(r) \in {0, 1}
         /\ Midway(r, m) \in {0, 1}
  BY RowsAssumption DEF TypeOK, Marks, Midway

\* A step that leaves the ledger alone, and leaves the entering of rows as it
\* is, ends it with a death, or happens outside it.
LEMMA EntryKeeps ==
  ASSUME TypeOK, EntryInv, UNCHANGED ledger,
         crashes' \in Nat,
         \/ UNCHANGED <<pc, outcomes, queue, crashes>>
         \/ pc # "enter" /\ pc' # "enter" /\ crashes' >= crashes
         \/ pc' # "enter" /\ crashes' = crashes + 1
  PROVE  EntryInv'
<1>1. /\ \A r \in Rows : Marks(r)' = Marks(r)
      /\ UNCHANGED standing
  BY DEF ledger, Marks, Marked
<1>2. MarkedIsEntered' /\ Entering'
  BY <1>1 DEF EntryInv, MarkedIsEntered, Entering
<1>3. ASSUME NEW r \in Rows, NEW m \in Answers[r]
      PROVE  standing[m][r] <= Marks(r) + crashes' + Midway(r, m)'
  <2>1. standing[m][r] \in Nat /\ Marks(r) \in {0, 1} /\ Midway(r, m) \in {0, 1} /\ crashes \in Nat
    BY CountTypes DEF TypeOK
  <2>2. standing[m][r] <= Marks(r) + crashes + Midway(r, m)
    BY DEF EntryInv, EntriesCounted
  <2>3. CASE UNCHANGED <<pc, outcomes, queue, crashes>>
    BY <2>2, <2>3 DEF Midway
  <2>4. CASE pc # "enter" /\ pc' # "enter" /\ crashes' >= crashes
    BY <2>1, <2>2, <2>4 DEF Midway
  <2>5. CASE pc' # "enter" /\ crashes' = crashes + 1
    <3>1. Midway(r, m)' = 0
      BY <2>5 DEF Midway
    <3> QED
      BY <2>1, <2>2, <2>5, <3>1
  <2> QED
    BY <2>3, <2>4, <2>5
<1> QED
  BY <1>1, <1>2, <1>3 DEF EntryInv, EntriesCounted

\* One file written: the entries of its group, and no others.
LEMMA EntryAppend ==
  ASSUME TypeOK, EntryInv, NEW m \in Miners, AppendEntries(m)
  PROVE  EntryInv'
<1> USE RowsAssumption
<1>1. PICK s \in {q[1] : q \in queue} :
        /\ <<s, m>> \in queue
        /\ queue' = queue \ {<<s, m>>}
        /\ standing' = [standing EXCEPT ![m] = [r \in Rows |->
             IF r \in outcomes /\ m \in Answers[r] /\ SettlesOn[r] = s
             THEN @[r] + 1 ELSE @[r]]]
  BY DEF AppendEntries
<1>2. UNCHANGED <<entered, outcomes, pc, crashes>> /\ pc = "enter"
  BY DEF AppendEntries, bounds
<1>3. \A r \in Rows : Marks(r)' = Marks(r)
  BY <1>2 DEF Marks, Marked
<1>4. ASSUME NEW r \in Rows, NEW k \in Miners
      PROVE  standing'[k][r] = IF k = m /\ r \in outcomes /\ m \in Answers[r] /\ SettlesOn[r] = s
                               THEN standing[k][r] + 1 ELSE standing[k][r]
  BY <1>1 DEF TypeOK
<1>5. ASSUME NEW r \in Rows, NEW k \in Answers[r]
      PROVE  /\ Marks(r) <= standing'[k][r]
             /\ r \in outcomes => standing'[k][r] >= 1 \/ <<SettlesOn[r], k>> \in queue'
             /\ standing'[k][r] <= Marks(r) + crashes + Midway(r, k)'
  <2> DEFINE queued == <<SettlesOn[r], k>> \in queue
             mine == k = m /\ r \in outcomes /\ m \in Answers[r] /\ SettlesOn[r] = s
  <2>1. /\ k \in Miners /\ standing[k][r] \in Nat /\ Marks(r) \in {0, 1} /\ crashes \in Nat
        /\ Midway(r, k) \in {0, 1}
    BY CountTypes DEF TypeOK
  <2>2. /\ Marks(r) <= standing[k][r]
        /\ r \in outcomes => standing[k][r] >= 1 \/ queued
        /\ standing[k][r] <= Marks(r) + crashes + Midway(r, k)
    BY <1>2 DEF EntryInv, MarkedIsEntered, Entering, EntriesCounted
  <2>3. CASE mine
    <3>1. Midway(r, k) = 0 /\ Midway(r, k)' = 1
      BY <1>1, <1>2, <2>3 DEF Midway
    <3>2. standing'[k][r] = standing[k][r] + 1
      BY <1>4, <2>1, <2>3
    <3> QED
      BY <2>1, <2>2, <3>1, <3>2
  <2>4. CASE ~mine
    <3>1. standing'[k][r] = standing[k][r]
      BY <1>4, <2>1, <2>4
    <3>2. r \in outcomes => <<SettlesOn[r], k>> # <<s, m>>
      BY <2>4
    <3>3. r \in outcomes => (<<SettlesOn[r], k>> \in queue' <=> queued)
      BY <1>1, <3>2
    <3>4. Midway(r, k)' = Midway(r, k)
      BY <1>2, <3>3 DEF Midway
    <3> QED
      BY <2>2, <3>1, <3>3, <3>4
  <2> QED
    BY <2>3, <2>4
<1>6. outcomes' \subseteq Rows
  BY <1>2 DEF TypeOK
<1> QED
  BY <1>2, <1>3, <1>5, <1>6 DEF EntryInv, MarkedIsEntered, Entering, EntriesCounted

\* The marks, written when no file is left.
LEMMA EntryMark ==
  ASSUME TypeOK, BookInv, EntryInv, MarkEntered
  PROVE  EntryInv'
<1>1. /\ queue = {} /\ pc = "enter" /\ pc' = "repair"
      /\ entered' = entered \cup (outcomes \X {day})
      /\ UNCHANGED <<standing, crashes>>
  BY DEF MarkEntered, bounds
<1>2. outcomes \subseteq Rows /\ day \in Days /\ outcomes \cap Marked = {}
  BY <1>1 DEF TypeOK, BookInv, Fresh
<1>3. Marked' = Marked \cup outcomes
  BY <1>1, <1>2 DEF Marked
<1>4. ASSUME NEW r \in Rows, NEW m \in Answers[r]
      PROVE  /\ Marks(r)' <= standing[m][r]
             /\ standing[m][r] <= Marks(r)' + crashes + Midway(r, m)'
  <2>1. standing[m][r] \in Nat /\ Marks(r) \in {0, 1} /\ crashes \in Nat
    BY CountTypes DEF TypeOK
  <2>2. /\ Marks(r) <= standing[m][r]
        /\ r \in outcomes => standing[m][r] >= 1
        /\ standing[m][r] <= Marks(r) + crashes + Midway(r, m)
    BY <1>1 DEF EntryInv, MarkedIsEntered, Entering, EntriesCounted
  <2>3. Midway(r, m)' = 0
    BY <1>1 DEF Midway
  <2>4. CASE r \in outcomes
    <3>1. Marks(r) = 0 /\ Marks(r)' = 1 /\ Midway(r, m) = 1
      BY <1>1, <1>2, <1>3, <2>4 DEF Marks, Midway
    <3> QED
      BY <2>1, <2>2, <2>3, <2>4, <3>1
  <2>5. CASE r \notin outcomes
    <3>1. Marks(r)' = Marks(r) /\ Midway(r, m) = 0
      BY <1>3, <2>5 DEF Marks, Midway
    <3> QED
      BY <2>1, <2>2, <2>3, <3>1
  <2> QED
    BY <2>4, <2>5
<1> QED
  BY <1>1, <1>4 DEF EntryInv, MarkedIsEntered, Entering, EntriesCounted

(* A mark stands beside the entries of every miner that predicted the row,  *)
(* and no miner has more entries of a row than its mark and the deaths of   *)
(* runs account for: the order append_entries, then _mark_entered, in       *)
(* run_settle_day, and the marks it reads first, wherever a run stops.      *)
THEOREM EntriesFollowMarks == Spec => []EntriesMatchMarks
<1> USE RowsAssumption, DaysAssumption
<1>1. Init => EntryInv
  <2> SUFFICES ASSUME Init, NEW r \in Rows, NEW m \in Answers[r]
               PROVE  /\ Marks(r) <= standing[m][r]
                      /\ standing[m][r] <= Marks(r) + crashes + Midway(r, m)
    BY DEF Init, EntryInv, MarkedIsEntered, Entering, EntriesCounted
  <2>1. standing[m][r] = 0 /\ Marks(r) = 0 /\ crashes = 0 /\ Midway(r, m) = 0
    BY DEF Init, Marks, Marked, Midway
  <2> QED
    BY <2>1
<1>2. TypeOK /\ TypeOK' /\ BookInv /\ EntryInv /\ [Next]_vars => EntryInv'
  <2> SUFFICES ASSUME TypeOK, TypeOK', BookInv, EntryInv, [Next]_vars PROVE EntryInv'
    OBVIOUS
  <2> USE DEF world, feeds, anchor, run, bounds
  <2>0. crashes \in Nat /\ crashes' \in Nat
    BY DEF TypeOK
  <2>1. CASE UNCHANGED <<ledger, pc, outcomes, queue, crashes>>
    BY <2>0, <2>1, EntryKeeps
  <2>2. ASSUME UNCHANGED <<ledger, crashes>>, pc # "enter", pc' # "enter" PROVE EntryInv'
    BY <2>0, <2>2, EntryKeeps
  <2>3. ASSUME NEW d \in Days, Settle(d) PROVE EntryInv'
    <3>1. UNCHANGED <<ledger, crashes>> /\ pc # "enter" /\ pc' = "enter"
      BY <2>3 DEF Settle, StartRun
    <3>2. UNCHANGED standing /\ \A r \in Rows : Marks(r)' = Marks(r)
      BY <3>1 DEF ledger, Marks, Marked
    <3>3. \A r \in outcomes' : \A m \in Answers[r] : <<SettlesOn[r], m>> \in queue'
      BY <2>3 DEF Settle
    <3>4. \A r \in Rows : \A m \in Answers[r] : Midway(r, m) = 0 /\ Midway(r, m)' = 0
      BY <3>1, <3>3 DEF Midway
    <3> QED
      BY <3>1, <3>2, <3>3, <3>4 DEF EntryInv, MarkedIsEntered, Entering, EntriesCounted
  <2>4. ASSUME NEW m \in Miners, AppendEntries(m) PROVE EntryInv'
    BY <2>4, EntryAppend
  <2>5. CASE MarkEntered
    BY <2>5, EntryMark
  <2>6. ASSUME NEW r \in Rows, Measure(r) PROVE EntryInv'
    BY <2>1, <2>6 DEF Measure
  <2>7. CASE NextDay
    BY <2>1, <2>7 DEF NextDay
  <2>8. ASSUME NEW d \in Days, SettleUnreachable(d) PROVE EntryInv'
    BY <2>2, <2>8 DEF SettleUnreachable, StartRun
  <2>9. CASE SettleFails \/ Crash
    <3>1. UNCHANGED ledger /\ pc' # "enter" /\ crashes' = crashes + 1
      BY <2>9 DEF SettleFails, Crash, EndRun
    <3> QED
      BY <2>0, <3>1, EntryKeeps
  <2>10. CASE \/ Repair \/ RepairUnreachable \/ SkipReceipt \/ RefuseReceipt \/ OpenReceipt
              \/ WriteReceipt \/ OpenReceiptHead \/ WriteReceiptHead
    BY <2>2, <2>10 DEF Repair, RepairUnreachable, SkipReceipt, RefuseReceipt, OpenReceipt,
      WriteReceipt, OpenReceiptHead, WriteReceiptHead, EndRun
  <2>11. CASE \/ RefuseAccuracy \/ PublishAccuracy \/ AdvanceAccuracyHead
              \/ SubmitFails \/ SubmitRoot \/ RecordAnchor
    BY <2>2, <2>11 DEF RefuseAccuracy, PublishAccuracy, AdvanceAccuracyHead,
      SubmitFails, SubmitRoot, RecordAnchor, EndRun
  <2>12. CASE UNCHANGED vars
    BY <2>1, <2>12 DEF vars
  <2> QED
    BY <2>3, <2>4, <2>5, <2>6, <2>7, <2>8, <2>9, <2>10, <2>11, <2>12 DEF Next, Progress
<1>3. TypeOK /\ EntryInv => EntriesMatchMarks
  <2> SUFFICES ASSUME TypeOK, EntryInv, NEW r \in Rows, NEW m \in Answers[r]
               PROVE  /\ Marks(r) <= standing[m][r]
                      /\ pc # "enter" => standing[m][r] <= Marks(r) + crashes
    BY DEF EntriesMatchMarks
  <2>1. standing[m][r] <= Marks(r) + crashes + Midway(r, m) /\ Marks(r) <= standing[m][r]
    BY DEF EntryInv, EntriesCounted, MarkedIsEntered
  <2>2. Marks(r) \in {0, 1} /\ crashes \in Nat
    BY CountTypes DEF TypeOK
  <2> QED
    BY <2>1, <2>2 DEF Midway
<1>4. Spec => []BookInv
  BY BookInit, BookStep, TypeCorrect, PTL DEF Spec
<1> QED
  BY <1>1, <1>2, <1>3, <1>4, TypeCorrect, PTL DEF Spec

-----------------------------------------------------------------------------
(* The anchored root. *)

AnchorInv ==
  /\ memo \subseteq chain
  /\ chain \subseteq PublishedDays
  /\ pc = "memo" => chain = PublishedDays

LEMMA AnchorStep ==
  ASSUME TypeOK, AnchorInv, [Next]_vars
  PROVE  AnchorInv' /\ chain \subseteq chain'
<1> USE RowsAssumption, DaysAssumption
<1> USE DEF world, ledger, feeds, anchor, run, bounds
<1> DEFINE Goal == AnchorInv' /\ chain \subseteq chain'
<1>1. ASSUME UNCHANGED <<docs, anchor>>, pc' # "memo" PROVE Goal
  <2>1. PublishedDays' = PublishedDays
    BY <1>1 DEF PublishedDays
  <2> QED
    BY <1>1, <2>1 DEF AnchorInv
<1>2. CASE PublishAccuracy
  <2>1. PublishedDays \subseteq PublishedDays'
    BY <1>2 DEF PublishAccuracy, PublishedDays, TypeOK
  <2> QED
    BY <1>2, <2>1 DEF PublishAccuracy, AnchorInv
<1>3. CASE SubmitFails \/ SubmitRoot \/ RecordAnchor
  <2>1. PublishedDays' = PublishedDays
    BY <1>3 DEF SubmitFails, SubmitRoot, RecordAnchor, PublishedDays
  <2> QED
    BY <1>3, <2>1 DEF SubmitFails, SubmitRoot, RecordAnchor, EndRun, AnchorInv
<1>4. ASSUME NEW r \in Rows, Measure(r) PROVE Goal
  <2>1. PublishedDays' = PublishedDays
    BY <1>4 DEF Measure, PublishedDays
  <2> QED
    BY <1>4, <2>1 DEF Measure, AnchorInv
<1>5. CASE UNCHANGED vars
  <2>1. PublishedDays' = PublishedDays
    BY <1>5 DEF vars, PublishedDays
  <2> QED
    BY <1>5, <2>1 DEF vars, AnchorInv
<1>6. ASSUME NEW d \in Days, Settle(d) \/ SettleUnreachable(d) PROVE Goal
  BY <1>1, <1>6 DEF Settle, SettleUnreachable, StartRun
<1>7. ASSUME NEW m \in Miners, AppendEntries(m) PROVE Goal
  BY <1>1, <1>7 DEF AppendEntries
<1>8. CASE \/ NextDay \/ MarkEntered \/ SettleFails \/ Repair \/ RepairUnreachable
            \/ SkipReceipt \/ RefuseReceipt \/ OpenReceipt \/ WriteReceipt
  BY <1>1, <1>8 DEF NextDay, MarkEntered, SettleFails, Repair, RepairUnreachable,
    SkipReceipt, RefuseReceipt, OpenReceipt, WriteReceipt, EndRun
<1>9. CASE \/ OpenReceiptHead \/ WriteReceiptHead \/ RefuseAccuracy
            \/ AdvanceAccuracyHead \/ Crash
  BY <1>1, <1>9 DEF OpenReceiptHead, WriteReceiptHead, RefuseAccuracy,
    AdvanceAccuracyHead, Crash, EndRun
<1> QED
  BY <1>2, <1>3, <1>4, <1>5, <1>6, <1>7, <1>8, <1>9 DEF Next, Progress

LEMMA AnchorInvariance == Spec => []AnchorInv
<1>1. Init => AnchorInv
  BY DEF Init, AnchorInv, PublishedDays, NoDoc
<1> QED
  BY <1>1, AnchorStep, TypeCorrect, PTL DEF Spec

(* The memo never names a day the chain does not cover: an anchor that did  *)
(* not happen is never skipped as unchanged.                                *)
THEOREM MemoIsOnChain == Spec => []MemoOnChain
<1>1. AnchorInv => MemoOnChain
  BY DEF AnchorInv, MemoOnChain
<1> QED
  BY <1>1, AnchorInvariance, PTL

(* Each commit covers every day the commit it overwrites covered.           *)
THEOREM AnchorGrows == Spec => AnchorOnlyGrows
<1>1. TypeOK /\ AnchorInv /\ [Next]_vars => [chain \subseteq chain']_vars
  BY AnchorStep
<1> QED
  BY <1>1, AnchorInvariance, TypeCorrect, PTL DEF Spec, AnchorOnlyGrows

-----------------------------------------------------------------------------
(* Accuracy documents and the receipts they embed. *)

Sealed(d) == receipts[d].state = "whole"

BindInv ==
  /\ BindsReceipt
  /\ pc \in {"enter", "repair", "receipt"} => ~bound
  /\ pc = "receipt_write" => receipts[day].state = "torn" /\ ~bound
  /\ pc \in {"receipt_head", "receipt_head_write"} => Sealed(day) /\ receipts[day].rows = results
  /\ bound => Sealed(day) /\ receipts[day].rows = results
  /\ pc = "accuracy" /\ results # {} => bound

(* An accuracy document over results embeds its day's receipt and           *)
(* aggregates exactly the rows that receipt lists: receipt first, then the  *)
(* document, in step 4 of run_daily_loop.                                   *)
THEOREM DocumentsBindReceipts == Spec => []BindsReceipt
<1> USE RowsAssumption, DaysAssumption
<1>1. Init => BindInv
  <2> SUFFICES ASSUME Init PROVE BindInv
    OBVIOUS
  <2>1. ~bound
    BY Zenon DEF Init
  <2>2. BindsReceipt
    BY DEF Init, BindsReceipt, PublishedDays, NoDoc
  <2> QED
    BY <2>1, <2>2 DEF Init, BindInv
<1>2. TypeOK /\ BindInv /\ [Next]_vars => BindInv'
  <2> SUFFICES ASSUME TypeOK, BindInv, [Next]_vars PROVE BindInv'
    OBVIOUS
  <2> USE DEF world, ledger, feeds, anchor, run, bounds
  <2>1. ASSUME UNCHANGED <<docs, receipts>> PROVE BindsReceipt'
    <3>1. PublishedDays' = PublishedDays
      BY <2>1 DEF PublishedDays
    <3> QED
      BY <2>1, <3>1 DEF BindInv, BindsReceipt
  \* A step that leaves the publication's own state alone.
  <2>2. ASSUME UNCHANGED <<docs, receipts, pc, day, results, bound>> PROVE BindInv'
    BY <2>1, <2>2 DEF BindInv, Sealed
  \* A run ends, begins, or has not reached its receipt.
  <2>3. ASSUME UNCHANGED <<docs, receipts>>, ~bound',
               pc' \in {"idle", "enter", "repair", "receipt"} PROVE BindInv'
    BY <2>1, <2>3 DEF BindInv, Sealed
  <2>4. ASSUME EndRun PROVE pc' = "idle" /\ ~bound'
    BY <2>4, Zenon DEF EndRun
  <2>5. ASSUME NEW r \in Rows, Measure(r) PROVE BindInv'
    BY <2>2, <2>5 DEF Measure
  <2>6. CASE NextDay
    BY <2>2, <2>6 DEF NextDay
  <2>7. ASSUME NEW d \in Days, Settle(d) \/ SettleUnreachable(d) PROVE BindInv'
    <3>1. ~bound'
      BY <2>7, Zenon DEF Settle, SettleUnreachable, StartRun
    <3> QED
      BY <2>3, <2>7, <3>1 DEF Settle, SettleUnreachable, StartRun
  <2>8. ASSUME NEW m \in Miners, AppendEntries(m) PROVE BindInv'
    BY <2>2, <2>8 DEF AppendEntries
  <2>9. CASE MarkEntered \/ SettleFails \/ Repair \/ RepairUnreachable
    <3>1. pc \in {"enter", "repair"} /\ bound' = bound /\ pc' \in {"repair", "receipt"}
          /\ UNCHANGED <<docs, receipts>>
      BY <2>9 DEF MarkEntered, SettleFails, Repair, RepairUnreachable
    <3>2. ~bound'
      BY <3>1 DEF BindInv
    <3> QED
      BY <2>3, <3>1, <3>2
  <2>10. CASE RefuseReceipt \/ RefuseAccuracy \/ SubmitFails \/ RecordAnchor \/ Crash
    <3>1. EndRun /\ UNCHANGED <<docs, receipts>>
      BY <2>10 DEF RefuseReceipt, RefuseAccuracy, SubmitFails, RecordAnchor, Crash
    <3> QED
      BY <2>3, <2>4, <3>1
  <2>11. CASE SkipReceipt
    BY <2>1, <2>11 DEF SkipReceipt, BindInv, Sealed
  <2>12. CASE OpenReceipt \/ WriteReceipt
    <3>1. /\ UNCHANGED <<docs, day, results, bound>>
          /\ day \in Days /\ ~Sealed(day)
          /\ \A f \in Days : f # day => receipts'[f] = receipts[f]
          /\ \/ pc' = "receipt_write" /\ receipts'[day].state = "torn"
             \/ /\ pc' = "receipt_head" /\ receipts'[day].state = "whole"
                /\ receipts'[day].rows = results
      <4>1. CASE OpenReceipt
        BY <4>1 DEF OpenReceipt, Sealed, TypeOK
      <4>2. CASE WriteReceipt
        <5>1. receipts[day].state = "torn" /\ day \in Days
          BY <4>2 DEF WriteReceipt, BindInv, TypeOK
        <5> QED
          BY <4>2, <5>1 DEF WriteReceipt, Sealed, TypeOK
      <4> QED
        BY <2>12, <4>1, <4>2
    <3>2. ~bound
      BY <2>12 DEF OpenReceipt, WriteReceipt, BindInv
    <3>3. BindsReceipt'
      BY <3>1 DEF BindInv, BindsReceipt, PublishedDays, Sealed
    <3> QED
      BY <3>1, <3>2, <3>3 DEF BindInv, Sealed
  <2>13. CASE OpenReceiptHead
    BY <2>1, <2>13 DEF OpenReceiptHead, BindInv, Sealed
  <2>14. CASE WriteReceiptHead
    <3>1. bound'
      BY <2>14, Zenon DEF WriteReceiptHead
    <3>2. UNCHANGED <<docs, receipts, day, results>> /\ pc = "receipt_head_write" /\ pc' = "accuracy"
      BY <2>14 DEF WriteReceiptHead
    <3> QED
      BY <2>1, <3>1, <3>2 DEF BindInv, Sealed
  <2>15. CASE PublishAccuracy
    <3>1. /\ UNCHANGED <<receipts, day, results, bound>> /\ pc = "accuracy" /\ pc' = "accuracy_head"
          /\ docs' = [docs EXCEPT ![day] =
               [published |-> TRUE, rows |-> results, receipt |-> bound, prev |-> docHead]]
      BY <2>15 DEF PublishAccuracy
    <3>2. results # {} => bound
      BY <3>1 DEF BindInv
    <3>3. day \in Days
      BY DEF TypeOK
    <3>4. /\ docs'[day].rows = results /\ docs'[day].receipt = bound
          /\ \A f \in Days : f # day => docs'[f] = docs[f]
      BY <3>1, <3>3 DEF TypeOK
    <3>5. BindsReceipt'
      <4> SUFFICES ASSUME NEW d \in PublishedDays', docs'[d].rows # {}
                   PROVE  /\ docs'[d].receipt
                          /\ receipts'[d].state = "whole"
                          /\ receipts'[d].rows = docs'[d].rows
        BY DEF BindsReceipt
      <4>1. CASE d = day
        <5>1. bound
          BY <3>2, <3>4, <4>1
        <5>2. docs'[d].receipt
          BY <3>4, <4>1, <5>1, Zenon
        <5> QED
          BY <3>1, <3>4, <4>1, <5>1, <5>2 DEF BindInv, Sealed
      <4>2. CASE d # day
        BY <3>1, <3>4, <4>2 DEF BindInv, BindsReceipt, PublishedDays
      <4> QED
        BY <4>1, <4>2
    <3> QED
      BY <3>1, <3>5 DEF BindInv, Sealed
  <2>16. CASE AdvanceAccuracyHead \/ SubmitRoot
    BY <2>1, <2>16 DEF AdvanceAccuracyHead, SubmitRoot, BindInv, Sealed
  <2>17. CASE UNCHANGED vars
    BY <2>2, <2>17 DEF vars
  <2> QED
    BY <2>5, <2>6, <2>7, <2>8, <2>9, <2>10, <2>11, <2>12, <2>13, <2>14, <2>15, <2>16, <2>17
    DEF Next, Progress
<1>3. BindInv => BindsReceipt
  BY DEF BindInv
<1> QED
  BY <1>1, <1>2, <1>3, TypeCorrect, PTL DEF Spec

-----------------------------------------------------------------------------
(* The chain of accuracy documents. *)

\* Published days the head, at d, has not reached: none but for deaths.
After(d) == {e \in PublishedDays : e > d}

\* What broken links and skipped documents can still cost: a skipped document
\* is behind a broken link, or will be, and breaks another when it is passed.
Weight(S) == Cardinality(Breaks \cup S) + Cardinality(S)

HeadInFeed ==
  /\ docHead \in PublishedDays \cup {NoDay}
  /\ pc = "accuracy_head" => day \in PublishedDays /\ docHead < day

ChainInv ==
  /\ HeadInFeed
  /\ pc # "accuracy_head" => Weight(After(docHead)) <= 2 * crashes
  /\ pc = "accuracy_head" => /\ Weight(After(day)) <= 2 * crashes
                             /\ Weight(After(docHead)) <= 2 * crashes + 2

\* Sets of days are finite.
LEMMA DaySets ==
  ASSUME NEW S \in SUBSET Days
  PROVE  IsFiniteSet(S) /\ Cardinality(S) \in Nat
<1>1. IsFiniteSet(Days)
  BY DaysAssumption, FS_Interval
<1>2. IsFiniteSet(S)
  BY <1>1, FS_Subset
<1> QED
  BY <1>2, FS_CardinalityType

LEMMA ChainTypes == ASSUME NEW d PROVE Breaks \in SUBSET Days /\ After(d) \in SUBSET Days
  BY DEF Breaks, After, PublishedDays

\* A set with at most one more day has at most one more element.
LEMMA OneMoreDay ==
  ASSUME NEW S \in SUBSET Days, NEW T \in SUBSET Days, NEW d \in Days, T \subseteq S \cup {d}
  PROVE  Cardinality(T) <= Cardinality(S) + 1
<1>1. IsFiniteSet(S) /\ Cardinality(S) \in Nat /\ Cardinality(T) \in Nat
  BY DaySets
<1>2. IsFiniteSet(S \cup {d}) /\ Cardinality(S \cup {d}) <= Cardinality(S) + 1
  <2>1. /\ IsFiniteSet(S \cup {d})
        /\ Cardinality(S \cup {d}) = IF d \in S THEN Cardinality(S) ELSE Cardinality(S) + 1
    BY <1>1, FS_AddElement
  <2> QED
    BY <1>1, <2>1
<1>3. Cardinality(T) <= Cardinality(S \cup {d}) /\ Cardinality(S \cup {d}) \in Nat
  BY <1>2, FS_Subset, FS_CardinalityType
<1> QED
  BY <1>1, <1>2, <1>3

LEMMA FewerDays ==
  ASSUME NEW S \in SUBSET Days, NEW T \in SUBSET S
  PROVE  /\ Cardinality(T) <= Cardinality(S)
         /\ T # S => Cardinality(T) + 1 <= Cardinality(S)
<1>1. IsFiniteSet(S) /\ Cardinality(S) \in Nat /\ Cardinality(T) \in Nat
  BY DaySets
<1>2. Cardinality(T) <= Cardinality(S) /\ (Cardinality(S) = Cardinality(T) => S = T)
  BY <1>1, FS_Subset
<1> QED
  BY <1>1, <1>2

\* The day before d is d0 when it is the last of the days before.
LEMMA LastBefore ==
  ASSUME NEW S \in SUBSET Days, NEW d \in Days, NEW m \in S, m < d,
         \A e \in S : e < d => e <= m
  PROVE  DayBefore(S, d) = m
<1> DEFINE earlier == {e \in S : e < d}
<1>1. m \in earlier /\ \A e \in earlier : e <= m
  OBVIOUS
<1>2. \A e \in earlier : (\A f \in earlier : f <= e) => e = m
  BY <1>1, DaysAssumption
<1>3. (CHOOSE e \in earlier : \A f \in earlier : f <= e) = m
  BY <1>1, <1>2
<1> QED
  BY <1>1, <1>3 DEF DayBefore

\* A step that leaves the documents and their head alone, outside the stage
\* between them, or in a run that dies.
LEMMA ChainKeeps ==
  ASSUME TypeOK, ChainInv, UNCHANGED <<docs, docHead>>,
         \/ pc # "accuracy_head" /\ pc' # "accuracy_head" /\ UNCHANGED crashes
         \/ UNCHANGED <<pc, day, crashes>>
         \/ pc' # "accuracy_head" /\ crashes' = crashes + 1
  PROVE  ChainInv'
<1>1. PublishedDays' = PublishedDays
  BY DEF PublishedDays
<1>2. Breaks' = Breaks /\ \A d : After(d)' = After(d)
  BY <1>1 DEF Breaks, After
<1>3. \A S : Weight(S)' = Weight(S)
  BY <1>2 DEF Weight
<1>4. crashes \in Nat /\ \A S \in SUBSET Days : Weight(S) \in Nat
  <2> SUFFICES ASSUME NEW S \in SUBSET Days PROVE Weight(S) \in Nat
    BY DEF TypeOK
  <2>1. Breaks \cup S \in SUBSET Days
    BY ChainTypes
  <2> QED
    BY <2>1, DaySets DEF Weight
<1>5. HeadInFeed'
  BY <1>1 DEF ChainInv, HeadInFeed
<1>6. Weight(After(docHead)) \in Nat /\ Weight(After(day)) \in Nat
  BY <1>4, ChainTypes
<1>7. Weight(After(docHead))' = Weight(After(docHead))
  BY <1>2, <1>3
<1>8. day' = day => Weight(After(day))' = Weight(After(day))
  BY <1>2, <1>3
<1>9. CASE pc # "accuracy_head" /\ pc' # "accuracy_head" /\ UNCHANGED crashes
  BY <1>5, <1>7, <1>9 DEF ChainInv
<1>10. CASE UNCHANGED <<pc, day, crashes>>
  BY <1>5, <1>7, <1>8, <1>10 DEF ChainInv
<1>11. CASE pc' # "accuracy_head" /\ crashes' = crashes + 1
  BY <1>4, <1>5, <1>6, <1>7, <1>11 DEF ChainInv
<1> QED
  BY <1>9, <1>10, <1>11

\* A document behind the head is linked to the head: only a document the head
\* has not reached can come between, or be left behind.
LEMMA ChainPublish ==
  ASSUME TypeOK, ChainInv, PublishAccuracy
  PROVE  ChainInv'
<1> DEFINE behind == After(docHead)
           rest == After(day)
<1>1. /\ pc = "accuracy" /\ pc' = "accuracy_head" /\ ~AccuracyRefused
      /\ UNCHANGED <<day, docHead, crashes>>
      /\ docs' = [docs EXCEPT ![day] =
           [published |-> TRUE, rows |-> results, receipt |-> bound, prev |-> docHead]]
  BY DEF PublishAccuracy, run, bounds
<1>2. /\ day \in Days /\ PublishedDays \in SUBSET Days /\ crashes \in Nat
      /\ Breaks \in SUBSET Days /\ behind \in SUBSET Days /\ rest \in SUBSET Days
  BY ChainTypes DEF TypeOK, PublishedDays
<1>3. PublishedDays' = PublishedDays \cup {day}
  BY <1>1, <1>2 DEF PublishedDays, TypeOK
<1>4. /\ docHead \in PublishedDays \cup {NoDay} /\ docHead < day /\ day \notin PublishedDays
      /\ docHead \in Nat /\ day \in Nat
  <2>1. docHead \in PublishedDays \cup {NoDay}
    BY DEF ChainInv, HeadInFeed
  <2>2. docHead \in Nat /\ day \in Nat /\ day > 0
    BY <1>2, <2>1, DaysAssumption
  <2>3. ~docs[day].published /\ (docHead = NoDay \/ ~(day <= docHead))
    BY <1>1 DEF AccuracyRefused
  <2>4. docHead < day
    BY <2>2, <2>3
  <2> QED
    BY <2>1, <2>2, <2>3, <2>4 DEF PublishedDays
<1>5. \A d \in Days : d \in Nat
  BY DaysAssumption
<1>6. HeadInFeed'
  BY <1>1, <1>3, <1>4 DEF HeadInFeed
<1>7. After(docHead)' = behind \cup {day} /\ After(day)' = rest /\ rest \subseteq behind
  <2>1. \A e \in PublishedDays : e \in Nat /\ (e > day => e > docHead)
    BY <1>2, <1>4, <1>5
  <2>2. ~(day > day)
    BY <1>4
  <2>3. day > docHead
    BY <1>4
  <2>4. {e \in PublishedDays \cup {day} : e > docHead} = {e \in PublishedDays : e > docHead} \cup {day}
    BY <2>3
  <2>5. {e \in PublishedDays \cup {day} : e > day} = {e \in PublishedDays : e > day}
    BY <2>2
  <2>6. {e \in PublishedDays : e > day} \subseteq {e \in PublishedDays : e > docHead}
    BY <2>1
  <2> QED
    BY <1>1, <1>3, <2>4, <2>5, <2>6 DEF After
\* A new break is the document itself, when one is left behind, or a document
\* the head has not reached.
<1>8. ASSUME NEW d \in Breaks' PROVE d \in Breaks \cup behind \/ (d = day /\ rest # behind)
  <2>1. d \in PublishedDays \cup {day} /\ d \in Nat /\ d \in Days
        /\ docs'[d].prev # DayBefore(PublishedDays', d)
    BY <1>2, <1>3, <1>5 DEF Breaks
  <2>2. CASE d = day
    <3> SUFFICES ASSUME rest = behind PROVE FALSE
      BY <2>2
    <3>1. \A e \in PublishedDays : e < day => e <= docHead
      <4> SUFFICES ASSUME NEW e \in PublishedDays, e < day, ~(e <= docHead) PROVE FALSE
        OBVIOUS
      <4>1. e \in Nat /\ e > docHead /\ ~(e > day)
        BY <1>2, <1>4, <1>5
      <4> QED
        BY <4>1 DEF After
    <3>2. docs'[day].prev = docHead
      BY <1>1, <1>2 DEF TypeOK
    <3>3. CASE docHead = NoDay
      <4>1. {e \in PublishedDays' : e < day} = {}
        <5> SUFFICES ASSUME NEW e \in PublishedDays \cup {day}, e < day PROVE FALSE
          BY <1>3
        <5>1. e \in PublishedDays /\ e <= NoDay
          BY <1>4, <3>1, <3>3
        <5>2. e \in 1 .. MaxDay
          BY <1>2, <5>1
        <5> QED
          BY <5>1, <5>2, DaysAssumption
      <4> QED
        BY <2>1, <2>2, <3>2, <3>3, <4>1 DEF DayBefore
    <3>4. CASE docHead # NoDay
      <4>1. docHead \in PublishedDays' /\ PublishedDays' \in SUBSET Days
        BY <1>2, <1>3, <1>4, <3>4
      <4>2. \A e \in PublishedDays' : e < day => e <= docHead
        BY <1>3, <1>4, <3>1
      <4>3. DayBefore(PublishedDays', day) = docHead
        BY <1>2, <1>4, <4>1, <4>2, LastBefore
      <4> QED
        BY <2>1, <2>2, <3>2, <4>3
    <3> QED
      BY <3>3, <3>4
  <2>3. CASE d # day /\ d > docHead
    BY <2>1, <2>3 DEF After
  <2>4. CASE d # day /\ ~(d > docHead)
    <3>1. docs'[d] = docs[d] /\ d \in PublishedDays
      BY <1>1, <1>2, <2>1, <2>4 DEF TypeOK
    <3>2. ~(day < d)
      BY <1>4, <2>1, <2>4
    <3>3. {e \in PublishedDays' : e < d} = {e \in PublishedDays : e < d}
      BY <1>3, <3>2
    <3>4. DayBefore(PublishedDays', d) = DayBefore(PublishedDays, d)
      <4> DEFINE Last(S) == IF S = {} THEN NoDay ELSE CHOOSE e \in S : \A f \in S : f <= e
      <4>1. \A S : DayBefore(S, d) = Last({e \in S : e < d})
        BY DEF DayBefore
      <4> HIDE DEF Last
      <4> QED
        BY <3>3, <4>1
    <3> QED
      BY <2>1, <3>1, <3>4 DEF Breaks
  <2> QED
    BY <2>2, <2>3, <2>4
<1>9. Breaks' \in SUBSET Days
  BY <1>2, <1>3 DEF Breaks
<1>10. Weight(behind) <= 2 * crashes
  BY <1>1 DEF ChainInv
<1> HIDE DEF behind, rest
<1> DEFINE B == Breaks \cup behind
<1>11. /\ Cardinality(B) \in Nat /\ Cardinality(behind) \in Nat /\ B \in SUBSET Days
       /\ Weight(behind) = Cardinality(B) + Cardinality(behind)
  BY <1>2, DaySets DEF Weight
<1>12. Weight(After(docHead))' <= 2 * crashes + 2
  <2>1. Breaks' \cup (behind \cup {day}) \subseteq B \cup {day}
    BY <1>8
  <2>2. Breaks' \cup (behind \cup {day}) \in SUBSET Days /\ behind \cup {day} \in SUBSET Days
    BY <1>2, <1>9
  <2>3. Cardinality(Breaks' \cup (behind \cup {day})) <= Cardinality(B) + 1
    BY <1>2, <1>11, <2>1, <2>2, OneMoreDay
  <2>4. Cardinality(behind \cup {day}) <= Cardinality(behind) + 1
    BY <1>2, <2>2, OneMoreDay
  <2>5. Cardinality(Breaks' \cup (behind \cup {day})) \in Nat /\ Cardinality(behind \cup {day}) \in Nat
    BY <2>2, DaySets
  <2>6. Weight(After(docHead))'
          = Cardinality(Breaks' \cup (behind \cup {day})) + Cardinality(behind \cup {day})
    BY <1>7 DEF Weight
  <2> QED
    BY <1>2, <1>10, <1>11, <2>3, <2>4, <2>5, <2>6
<1>13. Weight(After(day))' <= 2 * crashes
  <2>1. Weight(After(day))' = Cardinality(Breaks' \cup rest) + Cardinality(rest)
    BY <1>7 DEF Weight
  <2>2. Breaks' \cup rest \in SUBSET Days /\ rest \in SUBSET behind
    BY <1>2, <1>7, <1>9
  <2>3. Cardinality(Breaks' \cup rest) \in Nat /\ Cardinality(rest) \in Nat
    BY <1>2, <2>2, DaySets
  <2>4. CASE rest = behind
    <3>1. Breaks' \cup rest \in SUBSET B
      BY <1>8, <2>4
    <3>2. Cardinality(Breaks' \cup rest) <= Cardinality(B)
      BY <1>11, <3>1, FewerDays
    <3> QED
      BY <1>2, <1>10, <1>11, <2>1, <2>3, <2>4, <3>2
  <2>5. CASE rest # behind
    <3>1. Breaks' \cup rest \subseteq B \cup {day}
      BY <1>7, <1>8
    <3>2. Cardinality(Breaks' \cup rest) <= Cardinality(B) + 1
      BY <1>2, <1>11, <2>2, <3>1, OneMoreDay
    <3>3. Cardinality(rest) + 1 <= Cardinality(behind)
      BY <1>2, <2>2, <2>5, FewerDays
    <3> QED
      BY <1>2, <1>10, <1>11, <2>1, <2>3, <3>2, <3>3
  <2> QED
    BY <2>4, <2>5
<1> QED
  BY <1>1, <1>6, <1>12, <1>13 DEF ChainInv

(* The accuracy feed is one chain in the order of its days, whatever days   *)
(* the loop is run for, but for two broken links per death: publish_day     *)
(* refuses a day that is not after the head, and the head follows each      *)
(* document unless the run dies between the two.                            *)
THEOREM AccuracyIsChained == Spec => []AccuracyChain
<1>1. Init => ChainInv
  <2> SUFFICES ASSUME Init PROVE ChainInv
    OBVIOUS
  <2>1. PublishedDays = {}
    BY DEF Init, PublishedDays, NoDoc
  <2>2. Breaks = {} /\ After(docHead) = {}
    BY <2>1 DEF Breaks, After
  <2>3. Weight(After(docHead)) = 0
    BY <2>2, FS_EmptySet DEF Weight
  <2> QED
    BY <2>3 DEF Init, ChainInv, HeadInFeed
<1>2. TypeOK /\ ChainInv /\ [Next]_vars => ChainInv'
  <2> SUFFICES ASSUME TypeOK, ChainInv, [Next]_vars PROVE ChainInv'
    OBVIOUS
  <2> USE DEF world, ledger, feeds, anchor, run, bounds
  <2>1. CASE Crash \/ SettleFails
    <3>1. UNCHANGED <<docs, docHead>> /\ pc' # "accuracy_head" /\ crashes' = crashes + 1
      BY <2>1 DEF Crash, SettleFails, EndRun
    <3> QED
      BY <3>1, ChainKeeps
  <2>2. CASE PublishAccuracy
    BY <2>2, ChainPublish
  <2>3. CASE AdvanceAccuracyHead
    <3>1. /\ pc = "accuracy_head" /\ pc' # "accuracy_head" /\ docHead' = day
          /\ UNCHANGED <<docs, crashes>>
      BY <2>3 DEF AdvanceAccuracyHead
    <3>2. PublishedDays' = PublishedDays
      BY <3>1 DEF PublishedDays
    <3>3. Breaks' = Breaks /\ After(docHead)' = After(day)
      BY <3>1, <3>2 DEF Breaks, After
    <3>4. Weight(After(docHead))' = Weight(After(day))
      BY <3>3 DEF Weight
    <3>5. HeadInFeed'
      BY <3>1, <3>2 DEF ChainInv, HeadInFeed
    <3> QED
      BY <3>1, <3>4, <3>5 DEF ChainInv
  <2>4. ASSUME NEW r \in Rows, Measure(r) PROVE ChainInv'
    BY <2>4, ChainKeeps DEF Measure
  <2>5. ASSUME NEW d \in Days, Settle(d) \/ SettleUnreachable(d) PROVE ChainInv'
    BY <2>5, ChainKeeps DEF Settle, SettleUnreachable, StartRun
  <2>6. ASSUME NEW m \in Miners, AppendEntries(m) PROVE ChainInv'
    BY <2>6, ChainKeeps DEF AppendEntries
  <2>7. CASE NextDay \/ UNCHANGED vars
    BY <2>7, ChainKeeps DEF NextDay, vars
  <2>8. CASE \/ MarkEntered \/ Repair \/ RepairUnreachable
             \/ SkipReceipt \/ RefuseReceipt \/ OpenReceipt \/ WriteReceipt
    BY <2>8, ChainKeeps DEF MarkEntered, Repair, RepairUnreachable, SkipReceipt,
      RefuseReceipt, OpenReceipt, WriteReceipt, EndRun
  <2>9. CASE \/ OpenReceiptHead \/ WriteReceiptHead \/ RefuseAccuracy
             \/ SubmitFails \/ SubmitRoot \/ RecordAnchor
    BY <2>9, ChainKeeps DEF OpenReceiptHead, WriteReceiptHead, RefuseAccuracy,
      SubmitFails, SubmitRoot, RecordAnchor, EndRun
  <2> QED
    BY <2>1, <2>2, <2>3, <2>4, <2>5, <2>6, <2>7, <2>8, <2>9 DEF Next, Progress
<1>3. TypeOK /\ ChainInv => AccuracyChain
  <2> SUFFICES ASSUME TypeOK, NEW S \in SUBSET Days, Weight(S) <= 2 * crashes
               PROVE  Cardinality(Breaks) <= 2 * crashes
    BY ChainTypes DEF ChainInv, AccuracyChain
  <2>1. Breaks \in SUBSET (Breaks \cup S) /\ Breaks \cup S \in SUBSET Days
    BY ChainTypes
  <2>2. Cardinality(Breaks) <= Cardinality(Breaks \cup S)
    BY <2>1, FewerDays
  <2>3. /\ Cardinality(Breaks) \in Nat /\ Cardinality(Breaks \cup S) \in Nat
        /\ Cardinality(S) \in Nat /\ crashes \in Nat
    BY <2>1, DaySets DEF TypeOK
  <2> QED
    BY <2>2, <2>3 DEF Weight
<1> QED
  BY <1>1, <1>2, <1>3, TypeCorrect, PTL DEF Spec
=============================================================================
