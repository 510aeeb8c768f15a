--------------------------- MODULE AbsencePenalty ---------------------------
(***************************************************************************)
(* The shadow day and the absence rule, which read each other's files.     *)
(*                                                                         *)
(* Once a day the executor runs the pipeline: the shadow stage runs every  *)
(* admitted model against the basket of the day before and appends a       *)
(* record per model; the settle stage charges every hotkey on the board,   *)
(* or lately active, for each episode of the last days it returned no      *)
(* prediction for.  A basket day may be cut off part way.  A later         *)
(* pipeline of the same day resumes it, after cancelling the charges of    *)
(* the models the cut run never reached, or, when the day is complete,     *)
(* runs again the models that failed by the operator's fault.              *)
(*                                                                         *)
(* Each record, each charge's entries, each charge's log line and each     *)
(* cancellation is a write of its own, so the pipeline may stop between    *)
(* any two.  The 35 days a standing entry lives are longer than the model. *)
(*                                                                         *)
(* A hotkey is a positive natural: charges are made in sorted order.       *)
(***************************************************************************)
EXTENDS Integers, FiniteSets

CONSTANTS
  Hotkeys,
  OnBoard,        \* the hotkeys with scored entries in their standing
  MaxDay,         \* bound: the last calendar day
  Episodes,       \* episodes of a basket
  Results,        \* what running a model may end in
  ActiveLookback, \* ACTIVE_LOOKBACK_DAYS
  CatchupDays,    \* CATCHUP_DAYS
  NeedsRealFrom,  \* the day from which only scored entries put one on the board
  MaxMoves,       \* bound: admissions and withdrawals of a model
  MaxReruns,      \* bound: pipelines for a day that has its run record
  MaxCuts,        \* bound: shadow stages that stop before their end
  MaxCrashes      \* bound: stops of the absence step or after it

Days == 1 .. MaxDay
NoHotkey == 0

Faults == {"none", "ours", "theirs"}
NoRecord == [fault |-> "no record", preds |-> 0]

ASSUME HotkeysAssumption ==
  /\ IsFiniteSet(Hotkeys)
  /\ Hotkeys \subseteq Nat \ {NoHotkey}
  /\ OnBoard \subseteq Hotkeys
ASSUME DaysAssumption ==
  /\ MaxDay \in Nat \ {0}
  /\ ActiveLookback \in Nat
  /\ CatchupDays \in Nat \ {0}
  /\ NeedsRealFrom \in Nat
ASSUME ResultsAssumption ==
  /\ Episodes \in Nat \ {0}
  /\ Results \subseteq [fault : Faults, preds : 0 .. Episodes]
  /\ \A r \in Results : r.fault # "none" => r.preds = 0
ASSUME BoundsAssumption ==
  /\ MaxMoves \in Nat
  /\ MaxReruns \in Nat
  /\ MaxCuts \in Nat
  /\ MaxCrashes \in Nat

VARIABLES
  today,       \* the calendar day
  models,      \* the hotkeys with an admitted model
  plan,        \* shadow/<day>/_plan.json
  records,     \* shadow/<day>/<hotkey>.jsonl: the last record
  marked,      \* the days with a shadow/<day>/_run.json
  charged,     \* standing/<hotkey>.jsonl: penalty entries of the day
  logged,      \* standing/_absence_penalties.jsonl: episodes charged
  cancelled,   \* standing/_absence_cancellations.jsonl: episodes cancelled
  recorded,    \* the days with a run record of the pipeline
  pc,          \* where the pipeline is
  day,         \* the day the pipeline is for
  todo,        \* the models it still has to run
  sweep,       \* the day it is charging
  owed,        \* what compute_penalties said of that day
  latecomers,  \* history: <<day, hotkey>> a resumed run added to the plan
  moves, reruns, cuts, crashes

shadow == <<plan, records, marked>>
penalties == <<charged, logged, cancelled>>
stage == <<todo, sweep, owed>>
bounds == <<moves, reruns, cuts, crashes>>
vars == <<today, models, shadow, penalties, recorded, pc, day, stage, latecomers, bounds>>

NothingOwed == [h \in Hotkeys |-> 0]

FilesOK ==
  /\ plan \in [Days -> SUBSET Hotkeys]
  /\ records \in [Days -> [Hotkeys -> Results \cup {NoRecord}]]
  /\ marked \subseteq Days
  /\ charged \in [Days -> [Hotkeys -> Nat]]
  /\ logged \in [Days -> [Hotkeys -> Nat]]
  /\ cancelled \in [Days -> [Hotkeys -> Nat]]
  /\ recorded \subseteq Days

StageOK ==
  /\ pc \in {"idle", "shadow", "run", "compute", "append", "log", "finish"}
  /\ day \in Days
  /\ pc \in {"shadow", "run"} => day - 1 \in Days
  /\ todo \subseteq Hotkeys
  /\ sweep \in Nat
  /\ pc \in {"compute", "append", "log"} => sweep \in Days
  /\ owed \in [Hotkeys -> 0 .. Episodes]

TypeOK ==
  /\ today \in Days
  /\ models \subseteq Hotkeys
  /\ FilesOK
  /\ StageOK
  /\ latecomers \subseteq Days \X Hotkeys
  /\ moves \in Nat /\ reruns \in Nat /\ cuts \in Nat /\ crashes \in Nat

Init ==
  /\ today = 1
  /\ models \in SUBSET Hotkeys
  /\ plan = [d \in Days |-> {}]
  /\ records = [d \in Days |-> [h \in Hotkeys |-> NoRecord]]
  /\ marked = {}
  /\ charged = [d \in Days |-> NothingOwed]
  /\ logged = [d \in Days |-> NothingOwed]
  /\ cancelled = [d \in Days |-> NothingOwed]
  /\ recorded = {}
  /\ pc = "idle" /\ day = 1 /\ todo = {} /\ sweep = 0 /\ owed = NothingOwed
  /\ latecomers = {}
  /\ moves = 0 /\ reruns = 0 /\ cuts = 0 /\ crashes = 0

-----------------------------------------------------------------------------
(* What the files say of a basket day. *)

DayModels(d) == {h \in Hotkeys : records[d][h] # NoRecord}
RunComplete(d) == d \in marked
SubnetRan(d) == RunComplete(d) \/ DayModels(d) # {}

OperatorFault(d, h) == records[d][h].fault = "ours"

\* Penalty entries load_entries still counts.
Net(d, h) == IF cancelled[d][h] < charged[d][h] THEN charged[d][h] - cancelled[d][h] ELSE 0

Ranked(d) ==
  OnBoard \cup (IF d >= NeedsRealFrom THEN {}
                ELSE {h \in Hotkeys : \E e \in Days : Net(e, h) > 0})
Active(d) == UNION {DayModels(e) : e \in {e \in Days : d - ActiveLookback < e /\ e <= d}}
ChargeableHotkeys(d) == Ranked(d) \cup Active(d)

\* The model was in the day's plan and the run was cut off before it.
Unreached(d, h) ==
  /\ h \notin DayModels(d)
  /\ ~RunComplete(d)
  /\ h \in plan[d]

Missed(d, h) == Episodes - records[d][h].preds

ComputePenalties_Again(d) ==
  [h \in Hotkeys |->
     IF /\ DayModels(d) # {}
        /\ h \in ChargeableHotkeys(d)
        /\ ~OperatorFault(d, h)
        /\ ~Unreached(d, h)
     THEN Missed(d, h) ELSE 0]
ComputePenalties(d) ==
  [h \in Hotkeys |->
     IF /\ DayModels(d) # {}
        /\ h \in ChargeableHotkeys(d)
        /\ logged[d][h] = 0
        /\ ~OperatorFault(d, h)
        /\ ~Unreached(d, h)
     THEN Missed(d, h) ELSE 0]

-----------------------------------------------------------------------------
(* The world around the pipeline. *)

NextDay ==
  /\ pc = "idle"
  /\ today < MaxDay
  /\ today' = today + 1
  /\ UNCHANGED <<models, shadow, penalties, recorded, pc, day, stage, latecomers, bounds>>

\* A model is admitted, or its commitment is withdrawn.
Move(h) ==
  /\ pc = "idle"
  /\ moves < MaxMoves
  /\ moves' = moves + 1
  /\ models' = (models \ {h}) \cup ({h} \ models)
  /\ UNCHANGED <<today, shadow, penalties, recorded, pc, day, stage, latecomers,
                 reruns, cuts, crashes>>

\* The daemon runs a day without a run record, today's or a missed one; the
\* operator runs a day again.
StartPipeline(d) ==
  /\ pc = "idle"
  /\ d <= today /\ d - 1 \in Days
  /\ \/ d \notin recorded /\ UNCHANGED reruns
     \/ d \in recorded /\ reruns < MaxReruns /\ reruns' = reruns + 1
  /\ day' = d
  /\ pc' = "shadow"
  /\ UNCHANGED <<today, models, shadow, penalties, recorded, stage, latecomers,
                 moves, cuts, crashes>>

-----------------------------------------------------------------------------
(* The shadow stage, for the basket of the day before. *)

Basket == day - 1

\* run_shadow_day writes its plan before it runs the first model.
RunModels(S) ==
  /\ plan' = [plan EXCEPT ![Basket] = @ \cup S]
  /\ todo' = S
  /\ pc' = "run"
  /\ UNCHANGED <<today, models, records, marked, penalties, recorded, day, sweep, owed, bounds>>

StartShadowDay ==
  /\ pc = "shadow"
  /\ ~SubnetRan(Basket)
  /\ RunModels(models)
  /\ UNCHANGED latecomers

\* The charges a resumed day cancels: of planned models without a record.
CutOffCharges(d) ==
  {h \in plan[d] : logged[d][h] > 0 /\ h \notin DayModels(d) /\ cancelled[d][h] = 0}

CancelCutOffCharge(h) ==
  /\ pc = "shadow"
  /\ SubnetRan(Basket) /\ ~RunComplete(Basket)
  /\ h \in CutOffCharges(Basket)
  /\ cancelled' = [cancelled EXCEPT ![Basket][h] = @ + logged[Basket][h]]
  /\ UNCHANGED <<today, models, shadow, charged, logged, recorded, pc, day, stage,
                 latecomers, bounds>>

Resumable == models \ DayModels(Basket)

ResumeShadowDay ==
  /\ pc = "shadow"
  /\ SubnetRan(Basket) /\ ~RunComplete(Basket)
  /\ CutOffCharges(Basket) = {}
  /\ RunModels(Resumable)
  /\ latecomers' = latecomers \cup ({Basket} \X (Resumable \ plan[Basket]))

\* Models of a complete day that failed by the operator's fault.
OursWithoutPredictions_Failed(d) == {h \in DayModels(d) : records[d][h].fault # "none"}
OursWithoutPredictions(d) ==
  {h \in DayModels(d) : OperatorFault(d, h) /\ records[d][h].preds = 0}

RetryOurs ==
  /\ pc = "shadow"
  /\ RunComplete(Basket)
  /\ OursWithoutPredictions(Basket) # {}
  /\ RunModels(models \cap OursWithoutPredictions(Basket))
  /\ UNCHANGED latecomers

\* The shadow stage is over: apply_penalties starts with the oldest day.
StartSweep ==
  /\ pc' = "compute"
  /\ sweep' = IF day > CatchupDays THEN day - CatchupDays + 1 ELSE 1
  /\ todo' = {}
  /\ UNCHANGED owed

SkipLockedDay ==
  /\ pc = "shadow"
  /\ RunComplete(Basket)
  /\ OursWithoutPredictions(Basket) = {}
  /\ StartSweep
  /\ UNCHANGED <<today, models, shadow, penalties, recorded, day, latecomers, bounds>>

RecordDay(h, result) ==
  /\ pc = "run"
  /\ h \in todo
  /\ records' = [records EXCEPT ![Basket][h] = result]
  /\ todo' = todo \ {h}
  /\ UNCHANGED <<today, models, plan, marked, penalties, recorded, pc, day, sweep, owed,
                 latecomers, bounds>>

RecordRunMarker ==
  /\ pc = "run"
  /\ todo = {}
  /\ marked' = marked \cup {Basket}
  /\ StartSweep
  /\ UNCHANGED <<today, models, plan, records, penalties, recorded, day, latecomers, bounds>>

\* An exception ends the shadow stage; the pipeline goes on to settle.
ShadowFails ==
  /\ pc \in {"shadow", "run"}
  /\ cuts < MaxCuts
  /\ cuts' = cuts + 1
  /\ StartSweep
  /\ UNCHANGED <<today, models, shadow, penalties, recorded, day, latecomers,
                 moves, reruns, crashes>>

-----------------------------------------------------------------------------
(* apply_penalties: CatchupDays days, oldest first. *)

ComputeDay ==
  /\ pc = "compute"
  /\ owed' = ComputePenalties(sweep)
  /\ pc' = "append"
  /\ UNCHANGED <<today, models, shadow, penalties, recorded, day, todo, sweep,
                 latecomers, bounds>>

Owing == {h \in Hotkeys : owed[h] > 0}
IsNext(h) == h \in Owing /\ \A k \in Owing : h <= k

\* Two writes: the entries, then the log line.
AppendPenaltyEntries(h) ==
  /\ pc = "append"
  /\ IsNext(h)
  /\ charged' = [charged EXCEPT ![sweep][h] = @ + owed[h]]
  /\ pc' = "log"
  /\ UNCHANGED <<today, models, shadow, logged, cancelled, recorded, day, stage,
                 latecomers, bounds>>

LogPenalty(h) ==
  /\ pc = "log"
  /\ IsNext(h)
  /\ logged' = [logged EXCEPT ![sweep][h] = @ + owed[h]]
  /\ owed' = [owed EXCEPT ![h] = 0]
  /\ pc' = "append"
  /\ UNCHANGED <<today, models, shadow, charged, cancelled, recorded, day, todo, sweep,
                 latecomers, bounds>>

NextSweepDay ==
  /\ pc = "append"
  /\ Owing = {}
  /\ IF sweep < day THEN pc' = "compute" /\ sweep' = sweep + 1
                    ELSE pc' = "finish" /\ UNCHANGED sweep
  /\ UNCHANGED <<today, models, shadow, penalties, recorded, day, todo, owed,
                 latecomers, bounds>>

\* The step reports an error and the loop goes on without it.
AbsenceFails ==
  /\ pc \in {"compute", "append", "log"}
  /\ crashes < MaxCrashes
  /\ crashes' = crashes + 1
  /\ owed' = NothingOwed
  /\ pc' = "finish"
  /\ UNCHANGED <<today, models, shadow, penalties, recorded, day, todo, sweep,
                 latecomers, moves, reruns, cuts>>

WriteRunRecord ==
  /\ pc = "finish"
  /\ recorded' = recorded \cup {day}
  /\ pc' = "idle"
  /\ UNCHANGED <<today, models, shadow, penalties, day, stage, latecomers, bounds>>

\* The executor is killed: in the shadow stage a cut, elsewhere a crash.
Killed ==
  /\ pc # "idle"
  /\ IF pc \in {"shadow", "run"}
     THEN cuts < MaxCuts /\ cuts' = cuts + 1 /\ UNCHANGED crashes
     ELSE crashes < MaxCrashes /\ crashes' = crashes + 1 /\ UNCHANGED cuts
  /\ pc' = "idle"
  /\ todo' = {} /\ owed' = NothingOwed
  /\ UNCHANGED <<today, models, shadow, penalties, recorded, day, sweep, latecomers,
                 moves, reruns>>

Next ==
  \/ NextDay
  \/ \E h \in Hotkeys : Move(h)
  \/ \E d \in Days : StartPipeline(d)
  \/ StartShadowDay
  \/ \E h \in Hotkeys : CancelCutOffCharge(h)
  \/ ResumeShadowDay
  \/ RetryOurs
  \/ SkipLockedDay
  \/ \E h \in Hotkeys, r \in Results : RecordDay(h, r)
  \/ RecordRunMarker
  \/ ShadowFails
  \/ ComputeDay
  \/ \E h \in Hotkeys : AppendPenaltyEntries(h) \/ LogPenalty(h)
  \/ NextSweepDay
  \/ AbsenceFails
  \/ WriteRunRecord
  \/ Killed

Spec == Init /\ [][Next]_vars

-----------------------------------------------------------------------------
(* Properties *)

(* One charge per day and hotkey, however often pipelines run again and     *)
(* days are caught up, and at most one more for each time the absence step  *)
(* was stopped: a stop between the two writes of a charge leaves entries    *)
(* without the log line a later sweep looks for.                            *)
ChargedOnce ==
  \A d \in Days, h \in Hotkeys : charged[d][h] <= Episodes * (crashes + 1)

(* A standing carries a penalty only for what the hotkey itself left out:   *)
(* not when its run covered the day, not when the failure was the           *)
(* operator's, not when a cut-off run never reached its model.  Also after  *)
(* the day was resumed or retried.  A hotkey that had no model when the cut *)
(* run was planned is left out: see latecomers.                             *)
FairCharge ==
  pc = "idle" => \A d \in Days, h \in Hotkeys :
    Net(d, h) > 0 /\ <<d, h>> \notin latecomers =>
      /\ Missed(d, h) > 0
      /\ ~OperatorFault(d, h)
      /\ ~Unreached(d, h)

(* Predictions are locked: no resume, retry or rerun replaces a record that *)
(* delivered any.                                                           *)
PredictionsLocked ==
  [][\A d \in Days, h \in Hotkeys :
       records[d][h].preds > 0 => records'[d][h] = records[d][h]]_vars

(* The published penalty log never claims a charge that the standing does   *)
(* not carry, wherever the two writes are cut apart.                        *)
LogIsBacked == \A d \in Days, h \in Hotkeys : logged[d][h] <= charged[d][h]

(* A charge is cancelled at most once, for no more than was charged,        *)
(* however often its day is cut off and resumed.                            *)
CancelledAtMostCharged ==
  \A d \in Days, h \in Hotkeys : cancelled[d][h] <= logged[d][h]
=============================================================================
