----------------------------- MODULE Settlement -----------------------------
(***************************************************************************)
(* Settlement and publication, steps 1 and 4 of the daily loop.            *)
(*                                                                         *)
(* A run for a day asks the operator for the measured outcome rows, drops  *)
(* those its markers say were entered, scores the rest against the miners' *)
(* predictions, appends the scores to the miners' standing files one       *)
(* settle date and one miner at a time, and marks the rows.  It then       *)
(* publishes: a receipt over the day's rows, an accuracy document that     *)
(* embeds the receipt's hash, and a commit of the root over all accuracy   *)
(* documents on the chain.                                                 *)
(*                                                                         *)
(* Every file write is a step of its own, so the process may die between   *)
(* any two of them; a plain write is an opening that empties the file and  *)
(* a write that fills it, a write through a temporary file is one step.    *)
(* The other steps of the loop run between marking and publishing; each of *)
(* them fails softly and touches none of this state.                       *)
(*                                                                         *)
(* A document is written once a day and feed, so the day stands for its    *)
(* hash; the root over a set of documents is the set of their days.        *)
(***************************************************************************)
EXTENDS Integers, FiniteSets

CONSTANTS
  Rows,            \* outcome rows, one per (episode, horizon)
  Miners,
  Answers,         \* row -> the miners whose prediction matches it
  SettlesOn,       \* row -> its settle date (finalized_on)
  MaxDay,          \* bound: the last calendar day
  OutcomesLookback,\* OUTCOMES_LOOKBACK_DAYS
  FullFetchDays,   \* the days the outcomes request has no lower bound
  Backfill,        \* whether the operator also runs the loop for a past day
  MaxCrashes,      \* bound: times a write fails or the process dies in a run
  MaxOutages       \* bound: outcome requests the operator does not answer

Days == 1 .. MaxDay
NoDay == 0
TornHead == MaxDay + 1    \* a head file emptied by a write that never finished

ASSUME RowsAssumption ==
  /\ Answers \in [Rows -> SUBSET Miners]
  /\ SettlesOn \in [Rows -> Nat]
ASSUME DaysAssumption ==
  /\ MaxDay \in Nat \ {0}
  /\ OutcomesLookback \in Nat
  /\ FullFetchDays \subseteq Days
ASSUME BoundsAssumption ==
  /\ Backfill \in BOOLEAN
  /\ MaxCrashes \in Nat
  /\ MaxOutages \in Nat

VARIABLES
  today,       \* the calendar day
  measured,    \* the rows the operator has measured so far
  standing,    \* standing/<miner>.jsonl: how many entries each row has there
  entered,     \* standing/_entered_results.jsonl: <<row, run day>> marks
  receipts,    \* receipts/<day>.json
  receiptHead, \* receipts/_head.json: the day it names
  docs,        \* accuracy/<day>.json
  docHead,     \* accuracy/_head.json: the day it names
  memo,        \* _last_anchor.json: the root it remembers
  chain,       \* the root in the validator's commitment slot
  pc,          \* where the run is; "idle" when no run is going on
  day,         \* the day the run is for
  outcomes,    \* the rows the run is entering
  queue,       \* the <<settle date, miner>> groups still to append
  results,     \* the scored rows the publication works on
  bound,       \* whether this run published a receipt, to embed its hash
  crashes, outages

world == <<today, measured>>
ledger == <<standing, entered>>
feeds == <<receipts, receiptHead, docs, docHead>>
anchor == <<memo, chain>>
run == <<day, outcomes, queue, results, bound>>
bounds == <<crashes, outages>>
vars == <<world, ledger, feeds, anchor, pc, run, bounds>>

Scored(S) == {r \in S : Answers[r] # {}}
Marked == {r \in Rows : \E d \in Days : <<r, d>> \in entered}
MarkedOn(d) == {r \in Rows : <<r, d>> \in entered}
PublishedDays == {d \in Days : docs[d].published}

NoReceipt == [state |-> "none", rows |-> {}, prev |-> NoDay]
NoDoc == [published |-> FALSE, rows |-> {}, receipt |-> FALSE, prev |-> NoDay]

Stages == {"idle", "enter", "repair", "receipt", "receipt_write", "receipt_head",
           "receipt_head_write", "accuracy", "accuracy_head", "anchor", "memo"}

TypeOK ==
  /\ today \in Days
  /\ measured \subseteq Rows
  /\ standing \in [Miners -> [Rows -> Nat]]
  /\ entered \subseteq Rows \X Days
  /\ receipts \in [Days -> [state : {"none", "torn", "whole"}, rows : SUBSET Rows,
                            prev : Days \cup {NoDay}]]
  /\ receiptHead \in Days \cup {NoDay, TornHead}
  /\ docs \in [Days -> [published : BOOLEAN, rows : SUBSET Rows, receipt : BOOLEAN,
                        prev : Days \cup {NoDay}]]
  /\ docHead \in Days \cup {NoDay}
  /\ memo \subseteq Days
  /\ chain \subseteq Days
  /\ pc \in Stages
  /\ day \in Days
  /\ outcomes \subseteq Rows
  /\ queue \subseteq Nat \X Miners
  /\ results \subseteq Rows
  /\ bound \in BOOLEAN
  /\ crashes \in Nat
  /\ outages \in Nat

Init ==
  /\ today = 1
  /\ measured = {}
  /\ standing = [m \in Miners |-> [r \in Rows |-> 0]]
  /\ entered = {}
  /\ receipts = [d \in Days |-> NoReceipt]
  /\ receiptHead = NoDay
  /\ docs = [d \in Days |-> NoDoc]
  /\ docHead = NoDay
  /\ memo = {} /\ chain = {}
  /\ pc = "idle" /\ day = 1
  /\ outcomes = {} /\ queue = {} /\ results = {} /\ bound = FALSE
  /\ crashes = 0 /\ outages = 0

-----------------------------------------------------------------------------
(* The world around a run. *)

\* The operator measures a row on its settle date or later.
Measure(r) ==
  /\ r \notin measured
  /\ SettlesOn[r] <= today
  /\ measured' = measured \cup {r}
  /\ UNCHANGED <<today, ledger, feeds, anchor, pc, run, bounds>>

NextDay ==
  /\ pc = "idle"
  /\ today < MaxDay
  /\ today' = today + 1
  /\ UNCHANGED <<measured, ledger, feeds, anchor, pc, run, bounds>>

-----------------------------------------------------------------------------
(* Step 1: settle. *)

\* What the outcomes provider answers for day d: the measured rows settled by
\* then, on most days only those of the last OutcomesLookback days.
Offered_NoFullFetch(d) ==
  {r \in measured : SettlesOn[r] <= d /\ SettlesOn[r] > d - OutcomesLookback}
Offered(d) ==
  {r \in measured : /\ SettlesOn[r] <= d
                    /\ d \in FullFetchDays \/ SettlesOn[r] > d - OutcomesLookback}

\* A run of the loop for day d, today or a day the operator names.
StartRun(d) ==
  /\ pc = "idle"
  /\ d = today \/ (Backfill /\ d < today)
  /\ day' = d
  /\ results' = {}
  /\ bound' = FALSE
  /\ UNCHANGED <<world, ledger, feeds, anchor>>

\* Settling: the offered rows that carry no mark are read against the
\* predictions, and their scores grouped by settle date and miner.
Settle(d) ==
  /\ StartRun(d)
  /\ outcomes' = Offered(d) \ Marked
  /\ queue' = UNION {{SettlesOn[r]} \X Answers[r] : r \in outcomes'}
  /\ pc' = "enter"
  /\ UNCHANGED bounds

\* The outcomes request fails: the step reports it and the loop goes on.
SettleUnreachable(d) ==
  /\ StartRun(d)
  /\ outages < MaxOutages
  /\ outages' = outages + 1
  /\ outcomes' = {}
  /\ queue' = {}
  /\ pc' = "repair"
  /\ UNCHANGED crashes

\* append_entries for the oldest settle date left, one miner's file at a time.
AppendEntries(m) ==
  /\ pc = "enter"
  /\ \E s \in {q[1] : q \in queue} :
       /\ \A q \in queue : s <= q[1]
       /\ <<s, m>> \in queue
       /\ queue' = queue \ {<<s, m>>}
       /\ standing' = [standing EXCEPT ![m] = [r \in Rows |->
            IF r \in outcomes /\ m \in Answers[r] /\ SettlesOn[r] = s
            THEN @[r] + 1 ELSE @[r]]]
  /\ UNCHANGED <<world, entered, feeds, anchor, pc, day, outcomes, results, bound, bounds>>

\* All files written: the rows are marked with the run's day, also those no
\* miner predicted.
MarkEntered_NoRunDay ==
  /\ pc = "enter"
  /\ queue = {}
  /\ entered' = entered \cup outcomes
  /\ results' = Scored(outcomes)
  /\ pc' = "repair"
  /\ UNCHANGED <<world, standing, feeds, anchor, day, outcomes, queue, bound, bounds>>
MarkEntered_Early ==
  /\ pc = "enter"
  /\ entered' = entered \cup (outcomes \X {day})
  /\ results' = Scored(outcomes)
  /\ pc' = "repair"
  /\ UNCHANGED <<world, standing, feeds, anchor, day, outcomes, queue, bound, bounds>>
MarkEntered ==
  /\ pc = "enter"
  /\ queue = {}
  /\ entered' = entered \cup (outcomes \X {day})
  /\ results' = Scored(outcomes)
  /\ pc' = "repair"
  /\ UNCHANGED <<world, standing, feeds, anchor, day, outcomes, queue, bound, bounds>>

\* A write of the standing files fails: the step is dropped where it is.
SettleFails ==
  /\ pc = "enter"
  /\ crashes < MaxCrashes
  /\ crashes' = crashes + 1
  /\ outcomes' = {}
  /\ queue' = {}
  /\ pc' = "repair"
  /\ UNCHANGED <<world, ledger, feeds, anchor, day, results, bound, outages>>

-----------------------------------------------------------------------------
(* Step 4: publish. *)

\* A run without results for a day without a receipt file scores again the
\* rows marked with that day, as the run that died would have published them.
NeedsRepair == results = {} /\ receipts[day].state = "none"

RepairRows_Offered == Scored(Offered(day))
RepairRows == Scored(Offered(day) \cap MarkedOn(day))

Repair ==
  /\ pc = "repair"
  /\ results' = IF NeedsRepair THEN RepairRows ELSE results
  /\ pc' = "receipt"
  /\ UNCHANGED <<world, ledger, feeds, anchor, day, outcomes, queue, bound, bounds>>

RepairUnreachable ==
  /\ pc = "repair"
  /\ NeedsRepair
  /\ outages < MaxOutages
  /\ outages' = outages + 1
  /\ pc' = "receipt"
  /\ UNCHANGED <<world, ledger, feeds, anchor, run, crashes>>

EndRun ==
  /\ pc' = "idle"
  /\ outcomes' = {} /\ queue' = {} /\ results' = {} /\ bound' = FALSE
  /\ UNCHANGED day

\* run_daily_receipt: nothing scored, no receipt.
SkipReceipt ==
  /\ pc = "receipt"
  /\ results = {}
  /\ pc' = "accuracy"
  /\ UNCHANGED <<world, ledger, feeds, anchor, run, bounds>>

\* The day has a receipt file already, or the head cannot be read: the
\* exception ends the whole publication step.
RefuseReceipt ==
  /\ pc = "receipt"
  /\ results # {}
  /\ receipts[day].state # "none" \/ receiptHead = TornHead
  /\ EndRun
  /\ UNCHANGED <<world, ledger, feeds, anchor, bounds>>

OpenReceipt_Overwrite ==
  /\ pc = "receipt"
  /\ results # {}
  /\ receiptHead # TornHead
  /\ receipts' = [receipts EXCEPT ![day].state = "torn"]
  /\ pc' = "receipt_write"
  /\ UNCHANGED <<world, ledger, receiptHead, docs, docHead, anchor, run, bounds>>
OpenReceipt ==
  /\ pc = "receipt"
  /\ results # {}
  /\ receipts[day].state = "none"
  /\ receiptHead # TornHead
  /\ receipts' = [receipts EXCEPT ![day].state = "torn"]
  /\ pc' = "receipt_write"
  /\ UNCHANGED <<world, ledger, receiptHead, docs, docHead, anchor, run, bounds>>

WriteReceipt ==
  /\ pc = "receipt_write"
  /\ receipts' = [receipts EXCEPT ![day] =
       [state |-> "whole", rows |-> results, prev |-> receiptHead]]
  /\ pc' = "receipt_head"
  /\ UNCHANGED <<world, ledger, receiptHead, docs, docHead, anchor, run, bounds>>

OpenReceiptHead ==
  /\ pc = "receipt_head"
  /\ receiptHead' = TornHead
  /\ pc' = "receipt_head_write"
  /\ UNCHANGED <<world, ledger, receipts, docs, docHead, anchor, run, bounds>>

WriteReceiptHead ==
  /\ pc = "receipt_head_write"
  /\ receiptHead' = day
  /\ bound' = TRUE
  /\ pc' = "accuracy"
  /\ UNCHANGED <<world, ledger, receipts, docs, docHead, anchor,
                 day, outcomes, queue, results, bounds>>

\* publish_day refuses a day before the feed's first results, a day that has a
\* document, and a day that is not after the head.
AccuracyRefused_NoOrder ==
  \/ results = {} /\ docHead = NoDay
  \/ docs[day].published
AccuracyRefused ==
  \/ results = {} /\ docHead = NoDay
  \/ docs[day].published
  \/ docHead # NoDay /\ day <= docHead

RefuseAccuracy ==
  /\ pc = "accuracy"
  /\ AccuracyRefused
  /\ EndRun
  /\ UNCHANGED <<world, ledger, feeds, anchor, bounds>>

PublishAccuracy ==
  /\ pc = "accuracy"
  /\ ~AccuracyRefused
  /\ docs' = [docs EXCEPT ![day] =
       [published |-> TRUE, rows |-> results, receipt |-> bound, prev |-> docHead]]
  /\ pc' = "accuracy_head"
  /\ UNCHANGED <<world, ledger, receipts, receiptHead, docHead, anchor, run, bounds>>

AdvanceAccuracyHead ==
  /\ pc = "accuracy_head"
  /\ docHead' = day
  /\ pc' = "anchor"
  /\ UNCHANGED <<world, ledger, receipts, receiptHead, docs, anchor, run, bounds>>

\* The committer sends a root that is not the remembered one (a run that gets
\* here has just added a document, so it never is), remembers it after the
\* chain took it, and only reports a failure.  A submission that fails here
\* may still have reached the chain.
SubmitFails ==
  /\ pc = "anchor"
  /\ memo # PublishedDays
  /\ chain' \in {chain, PublishedDays}
  /\ EndRun
  /\ UNCHANGED <<world, ledger, feeds, memo, bounds>>

SubmitRoot_DayOnly ==
  /\ pc = "anchor"
  /\ memo # PublishedDays
  /\ chain' = {day}
  /\ pc' = "memo"
  /\ UNCHANGED <<world, ledger, feeds, memo, run, bounds>>
SubmitRoot ==
  /\ pc = "anchor"
  /\ memo # PublishedDays
  /\ chain' = PublishedDays
  /\ pc' = "memo"
  /\ UNCHANGED <<world, ledger, feeds, memo, run, bounds>>

RecordAnchor ==
  /\ pc = "memo"
  /\ memo' = PublishedDays
  /\ EndRun
  /\ UNCHANGED <<world, ledger, feeds, chain, bounds>>

\* The process dies, or an exception leaves the publication step: what is in
\* memory is gone, what was written stays.
Crash ==
  /\ pc # "idle"
  /\ crashes < MaxCrashes
  /\ crashes' = crashes + 1
  /\ EndRun
  /\ UNCHANGED <<world, ledger, feeds, anchor, outages>>

-----------------------------------------------------------------------------

Progress ==
  \/ \E m \in Miners : AppendEntries(m)
  \/ MarkEntered
  \/ Repair
  \/ SkipReceipt \/ RefuseReceipt
  \/ OpenReceipt \/ WriteReceipt \/ OpenReceiptHead \/ WriteReceiptHead
  \/ RefuseAccuracy \/ PublishAccuracy \/ AdvanceAccuracyHead
  \/ SubmitFails \/ SubmitRoot \/ RecordAnchor

Next ==
  \/ \E r \in Rows : Measure(r)
  \/ NextDay
  \/ \E d \in Days : Settle(d) \/ SettleUnreachable(d)
  \/ SettleFails
  \/ RepairUnreachable
  \/ Progress
  \/ Crash

Spec == Init /\ [][Next]_vars

\* The timer starts the loop every day and, on the last day of the model, for
\* ever; a run goes on; time passes; the chain takes a root now and then.
FairSpec ==
  /\ Spec
  /\ SF_vars(NextDay)
  /\ SF_vars(Settle(today))
  /\ WF_vars(Progress)
  /\ SF_vars(SubmitRoot)

-----------------------------------------------------------------------------
(* Properties *)

\* Marks of a row: a run that entered it left one.
Marks(r) == IF r \in Marked THEN 1 ELSE 0

(* The standings hold what the marks say: a miner that predicted a row has  *)
(* an entry of it once the row is marked, and, whenever no run is entering  *)
(* rows, no more entries than the mark and the deaths account for.  However *)
(* often the loop runs, for whatever days, and whenever rows are measured:  *)
(* "each (episode, horizon) flows exactly once" but for deaths between the  *)
(* entries and the mark.                                                    *)
EntriesMatchMarks ==
  \A r \in Rows : \A m \in Answers[r] :
    /\ Marks(r) <= standing[m][r]
    /\ pc # "enter" => standing[m][r] <= Marks(r) + crashes

\* The settlement as its users see it: marks and whole receipts.
Book == INSTANCE ScoreBook WITH
  RunDays <- Days,
  published <- [d \in Days |-> receipts[d].rows]

(* Marks and receipts follow the abstract book, with crashes, failed        *)
(* requests and repairs: a row belongs to one run day for good, a receipt   *)
(* is written once and only over rows entered on its day.                   *)
ImplementsBook == Book!Spec

(* No row is published in the receipts of two days, repaired or not. *)
ReceiptsDisjoint == Book!PublishedOnce

\* The day before d in a feed, in the order of the files, and NoDay for the first.
DayBefore(S, d) ==
  LET earlier == {e \in S : e < d}
  IN  IF earlier = {} THEN NoDay ELSE CHOOSE e \in earlier : \A f \in earlier : f <= e

\* Documents that do not follow the one before them: the feed is one chain
\* (chain_ok over load_feed_documents) when there are none.
Breaks == {d \in PublishedDays : docs[d].prev # DayBefore(PublishedDays, d)}

(* The accuracy feed is one chain in day order, also when the loop is run   *)
(* for past days, but for deaths: a run that dies between a document and    *)
(* the head leaves a document the head skips, which breaks the chain behind *)
(* it and, when an earlier day is published late, before it.                *)
AccuracyChain == Cardinality(Breaks) <= 2 * crashes

WholeReceipts == {d \in Days : receipts[d].state = "whole"}

(* An accuracy document over results embeds the hash of its day's receipt,  *)
(* and aggregates exactly the rows that receipt lists.                      *)
BindsReceipt ==
  \A d \in PublishedDays : docs[d].rows # {} =>
    /\ docs[d].receipt
    /\ receipts[d].state = "whole"
    /\ receipts[d].rows = docs[d].rows

(* The memo never remembers a root the chain does not cover: an anchor that *)
(* did not happen is never skipped as done.                                 *)
MemoOnChain == memo \subseteq chain

(* A commit overwrites the one before it, so a later root must cover every  *)
(* day an earlier one covered.                                              *)
AnchorOnlyGrows == [][chain \subseteq chain']_vars

(* Every row the operator measures is entered in the end, also one measured *)
(* long after its settle date: the weekly full fetch picks it up.           *)
EveryMeasuredRowEnters == \A r \in Rows : r \in measured ~> r \in Marked
=============================================================================
