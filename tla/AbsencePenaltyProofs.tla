------------------------ MODULE AbsencePenaltyProofs ------------------------
(***************************************************************************)
(* Proofs about AbsencePenalty, for any hotkeys, days, episodes, results   *)
(* of runs, windows and number of cuts, reruns and crashes.                *)
(***************************************************************************)
EXTENDS AbsencePenalty, TLAPS

-----------------------------------------------------------------------------
(* Types. *)

(* The sweep starts on a day of the calendar, not after the pipeline's own. *)
LEMMA SweepStart ==
  ASSUME TypeOK, StartSweep, day' = day
  PROVE  StageOK'
BY DaysAssumption DEF StartSweep, TypeOK, StageOK, Days

(* What compute_penalties returns is a number of episodes for every hotkey. *)
LEMMA PenaltiesType ==
  ASSUME TypeOK, NEW d \in Days
  PROVE  ComputePenalties(d) \in [Hotkeys -> 0 .. Episodes]
<1>1. ASSUME NEW h \in Hotkeys PROVE records[d][h].preds \in 0 .. Episodes
  <2>1. records[d][h] \in Results \cup {NoRecord}
    BY DEF TypeOK, FilesOK
  <2>2. CASE records[d][h] \in Results
    <3>1. records[d][h] \in [fault : Faults, preds : 0 .. Episodes]
      BY <2>2, ResultsAssumption
    <3> QED
      BY <3>1
  <2>3. CASE records[d][h] = NoRecord
    <3>1. NoRecord.preds = 0
      BY DEF NoRecord
    <3>2. records[d][h].preds = NoRecord.preds
      BY ONLY <2>3
    <3> QED
      BY <3>1, <3>2, ResultsAssumption
  <2> QED
    BY <2>1, <2>2, <2>3
<1>2. \A h \in Hotkeys : Missed(d, h) \in 0 .. Episodes
  BY <1>1, ResultsAssumption DEF Missed
<1> QED
  BY <1>2, ResultsAssumption DEF ComputePenalties

(* The variables keep their types. *)
THEOREM TypeCorrect == Spec => []TypeOK
<1>1. Init => TypeOK
  BY DaysAssumption, ResultsAssumption DEF Init, TypeOK, FilesOK, StageOK, NothingOwed, Days
<1>2. TypeOK /\ [Next]_vars => TypeOK'
  <2> SUFFICES ASSUME TypeOK, [Next]_vars PROVE TypeOK'
    OBVIOUS
  <2> USE DEF shadow, penalties, stage, bounds
  <2>a. ASSUME UNCHANGED <<shadow, penalties, recorded>> PROVE FilesOK'
    BY <2>a DEF TypeOK, FilesOK
  <2>b. ASSUME UNCHANGED <<pc, day, stage>> PROVE StageOK'
    BY <2>b DEF TypeOK, StageOK
  <2>c. ASSUME UNCHANGED <<today, models, latecomers>>, FilesOK', StageOK',
               moves' \in Nat, reruns' \in Nat, cuts' \in Nat, crashes' \in Nat
        PROVE  TypeOK'
    BY <2>c DEF TypeOK
  <2>d. ASSUME UNCHANGED bounds
        PROVE  moves' \in Nat /\ reruns' \in Nat /\ cuts' \in Nat /\ crashes' \in Nat
    BY <2>d DEF TypeOK
  <2>1. CASE NextDay
    <3>1. today' \in Days
      BY <2>1, DaysAssumption DEF NextDay, TypeOK, Days
    <3> QED
      BY <2>1, <3>1, <2>a, <2>b, <2>d DEF TypeOK, NextDay
  <2>2. ASSUME NEW h \in Hotkeys, Move(h) PROVE TypeOK'
    BY <2>2, <2>a, <2>b DEF TypeOK, Move
  <2>3. ASSUME NEW d \in Days, StartPipeline(d) PROVE TypeOK'
    <3>1. StageOK'
      BY <2>3 DEF TypeOK, StageOK, StartPipeline
    <3>2. reruns' \in Nat
      BY <2>3 DEF TypeOK, StartPipeline
    <3> QED
      BY <2>3, <3>1, <3>2, <2>a DEF TypeOK, StartPipeline
  <2>4. ASSUME NEW S \in SUBSET Hotkeys, pc = "shadow", RunModels(S),
               latecomers' \subseteq Days \X Hotkeys
        PROVE  TypeOK'
    <3>1. FilesOK'
      BY <2>4 DEF TypeOK, FilesOK, StageOK, RunModels, Basket
    <3>2. StageOK'
      BY <2>4 DEF TypeOK, StageOK, RunModels
    <3> QED
      BY <2>4, <3>1, <3>2, <2>d DEF TypeOK, RunModels
  <2>5. CASE StartShadowDay
    BY <2>5, <2>4 DEF TypeOK, StartShadowDay
  <2>6. ASSUME NEW h \in Hotkeys, CancelCutOffCharge(h) PROVE TypeOK'
    <3>1. FilesOK'
      BY <2>6 DEF TypeOK, FilesOK, StageOK, CancelCutOffCharge, Basket
    <3> QED
      BY <2>6, <3>1, <2>b, <2>c, <2>d DEF CancelCutOffCharge
  <2>7. CASE ResumeShadowDay
    <3>1. Resumable \subseteq Hotkeys /\ Basket \in Days
      BY <2>7 DEF TypeOK, StageOK, Resumable, ResumeShadowDay, Basket
    <3> QED
      BY <2>7, <2>4, <3>1 DEF TypeOK, ResumeShadowDay
  <2>8. CASE RetryOurs
    BY <2>8, <2>4 DEF TypeOK, RetryOurs
  <2>9. CASE SkipLockedDay
    BY <2>9, SweepStart, <2>a, <2>c, <2>d DEF SkipLockedDay
  <2>10. ASSUME NEW h \in Hotkeys, NEW r \in Results, RecordDay(h, r) PROVE TypeOK'
    <3>1. FilesOK'
      BY <2>10 DEF TypeOK, FilesOK, StageOK, RecordDay, Basket
    <3>2. StageOK'
      BY <2>10 DEF TypeOK, StageOK, RecordDay
    <3> QED
      BY <2>10, <3>1, <3>2, <2>c, <2>d DEF RecordDay
  <2>11. CASE RecordRunMarker
    <3>1. FilesOK'
      BY <2>11 DEF TypeOK, FilesOK, StageOK, RecordRunMarker, Basket
    <3> QED
      BY <2>11, <3>1, SweepStart, <2>c, <2>d DEF RecordRunMarker
  <2>12. CASE ShadowFails
    <3>1. cuts' \in Nat
      BY <2>12 DEF TypeOK, ShadowFails
    <3> QED
      BY <2>12, <3>1, SweepStart, <2>a DEF TypeOK, ShadowFails
  <2>13. CASE ComputeDay
    <3>1. StageOK'
      BY <2>13, PenaltiesType DEF TypeOK, StageOK, ComputeDay
    <3> QED
      BY <2>13, <3>1, <2>a, <2>c, <2>d DEF ComputeDay
  <2>14. ASSUME NEW h \in Hotkeys, AppendPenaltyEntries(h) PROVE TypeOK'
    <3>1. FilesOK'
      BY <2>14 DEF TypeOK, FilesOK, StageOK, AppendPenaltyEntries
    <3>2. StageOK'
      BY <2>14 DEF TypeOK, StageOK, AppendPenaltyEntries
    <3> QED
      BY <2>14, <3>1, <3>2, <2>c, <2>d DEF AppendPenaltyEntries
  <2>15. ASSUME NEW h \in Hotkeys, LogPenalty(h) PROVE TypeOK'
    <3>1. FilesOK'
      BY <2>15 DEF TypeOK, FilesOK, StageOK, LogPenalty
    <3>2. StageOK'
      BY <2>15, ResultsAssumption DEF TypeOK, StageOK, LogPenalty
    <3> QED
      BY <2>15, <3>1, <3>2, <2>c, <2>d DEF LogPenalty
  <2>16. CASE NextSweepDay
    <3>a. sweep' \in Nat /\ (pc' = "compute" => sweep' \in Days)
      <4>1. sweep \in Days /\ day \in Days
        BY <2>16 DEF TypeOK, StageOK, NextSweepDay
      <4>2. \/ pc' = "compute" /\ sweep < day /\ sweep' = sweep + 1
            \/ pc' = "finish" /\ sweep' = sweep
        BY <2>16 DEF NextSweepDay
      <4> QED
        BY <4>1, <4>2, DaysAssumption DEF Days
    <3>1. StageOK'
      BY <2>16, <3>a DEF TypeOK, StageOK, NextSweepDay
    <3> QED
      BY <2>16, <3>1, <2>a, <2>c, <2>d DEF NextSweepDay
  <2>17. CASE AbsenceFails
    <3>1. StageOK'
      BY <2>17, ResultsAssumption DEF TypeOK, StageOK, AbsenceFails, NothingOwed
    <3>2. crashes' \in Nat
      BY <2>17 DEF TypeOK, AbsenceFails
    <3> QED
      BY <2>17, <3>1, <3>2, <2>a DEF TypeOK, AbsenceFails
  <2>18. CASE WriteRunRecord
    <3>1. FilesOK'
      BY <2>18 DEF TypeOK, FilesOK, StageOK, WriteRunRecord
    <3>2. StageOK'
      BY <2>18 DEF TypeOK, StageOK, WriteRunRecord
    <3> QED
      BY <2>18, <3>1, <3>2, <2>c, <2>d DEF WriteRunRecord
  <2>19. CASE Killed
    <3>1. StageOK'
      BY <2>19, ResultsAssumption DEF TypeOK, StageOK, Killed, NothingOwed
    <3>2. cuts' \in Nat /\ crashes' \in Nat
      BY <2>19 DEF TypeOK, Killed
    <3> QED
      BY <2>19, <3>1, <3>2, <2>a DEF TypeOK, Killed
  <2>20. CASE UNCHANGED vars
    BY <2>20, <2>a, <2>b, <2>c, <2>d DEF vars
  <2> QED
    BY <2>1, <2>2, <2>3, <2>5, <2>6, <2>7, <2>8, <2>9, <2>10, <2>11, <2>12, <2>13,
       <2>14, <2>15, <2>16, <2>17, <2>18, <2>19, <2>20 DEF Next
<1> QED
  BY <1>1, <1>2, PTL DEF Spec

-----------------------------------------------------------------------------
(* The log is backed by entries. *)

\* Between the two writes of a charge the entries are ahead of the log.
EntriesAhead ==
  pc = "log" => \A h \in Hotkeys :
                  IsNext(h) => logged[sweep][h] + owed[h] <= charged[sweep][h]

(* Only two actions write entries or log lines; only the first of them      *)
(* leads to the place between the two writes.                               *)
LEMMA PenaltyWriters ==
  ASSUME Next
  PROVE  \/ \E h \in Hotkeys : AppendPenaltyEntries(h)
         \/ \E h \in Hotkeys : LogPenalty(h)
         \/ UNCHANGED <<charged, logged>> /\ pc' # "log"
<1> USE DEF penalties
<1>1. CASE NextDay \/ StartShadowDay \/ ResumeShadowDay \/ RetryOurs \/ SkipLockedDay
  BY <1>1 DEF NextDay, StartShadowDay, ResumeShadowDay, RetryOurs, SkipLockedDay,
              RunModels, StartSweep
<1>2. CASE \E h \in Hotkeys : Move(h) \/ CancelCutOffCharge(h)
  BY <1>2 DEF Move, CancelCutOffCharge
<1>3. CASE \/ \E d \in Days : StartPipeline(d)
           \/ \E h \in Hotkeys, r \in Results : RecordDay(h, r)
  BY <1>3 DEF StartPipeline, RecordDay
<1>4. CASE RecordRunMarker \/ ShadowFails \/ ComputeDay \/ NextSweepDay
  BY <1>4 DEF RecordRunMarker, ShadowFails, StartSweep, ComputeDay, NextSweepDay
<1>5. CASE AbsenceFails \/ WriteRunRecord \/ Killed
  BY <1>5 DEF AbsenceFails, WriteRunRecord, Killed
<1> QED
  BY <1>1, <1>2, <1>3, <1>4, <1>5 DEF Next

(* No log line claims a charge that the standing does not carry, however    *)
(* often the two writes are cut apart.                                      *)
THEOREM LogBacked == Spec => []LogIsBacked
<1> DEFINE IInv == LogIsBacked /\ EntriesAhead
<1>1. Init => IInv
  BY DEF Init, LogIsBacked, EntriesAhead, NothingOwed
<1>2. TypeOK /\ IInv /\ [Next]_vars => IInv'
  <2> SUFFICES ASSUME TypeOK, IInv, [Next]_vars PROVE IInv'
    OBVIOUS
  <2>1. ASSUME NEW h \in Hotkeys, AppendPenaltyEntries(h) PROVE IInv'
    <3>1. /\ sweep \in Days /\ owed \in [Hotkeys -> 0 .. Episodes]
          /\ charged \in [Days -> [Hotkeys -> Nat]]
          /\ logged \in [Days -> [Hotkeys -> Nat]]
      BY <2>1 DEF TypeOK, FilesOK, StageOK, AppendPenaltyEntries
    <3>2. \A d \in Days, k \in Hotkeys :
            charged'[d][k] = IF d = sweep /\ k = h THEN charged[d][k] + owed[h]
                                                   ELSE charged[d][k]
      <4>1. charged' = [charged EXCEPT ![sweep][h] = @ + owed[h]]
        BY <2>1 DEF AppendPenaltyEntries
      <4> QED
        BY <3>1, <4>1
    <3>3. UNCHANGED <<logged, sweep, owed>> /\ IsNext(h)
      BY <2>1 DEF AppendPenaltyEntries, penalties, stage
    <3>e. \A n \in 0 .. Episodes : n \in Nat
      BY ResultsAssumption
    <3>4. LogIsBacked'
      BY <3>1, <3>2, <3>3, <3>e DEF LogIsBacked
    <3>5. \A k \in Hotkeys : IsNext(k) => k = h
      BY <3>3, HotkeysAssumption DEF IsNext, Owing
    <3>6. logged[sweep][h] + owed[h] <= charged'[sweep][h]
      BY <3>1, <3>2, <3>e DEF LogIsBacked
    <3>7. EntriesAhead'
      BY <3>3, <3>5, <3>6 DEF EntriesAhead, IsNext, Owing
    <3> QED
      BY <3>4, <3>7
  <2>2. ASSUME NEW h \in Hotkeys, LogPenalty(h) PROVE IInv'
    <3>1. /\ sweep \in Days /\ owed \in [Hotkeys -> 0 .. Episodes]
          /\ charged \in [Days -> [Hotkeys -> Nat]]
          /\ logged \in [Days -> [Hotkeys -> Nat]]
      BY <2>2 DEF TypeOK, FilesOK, StageOK, LogPenalty
    <3>2. \A d \in Days, k \in Hotkeys :
            logged'[d][k] = IF d = sweep /\ k = h THEN logged[d][k] + owed[h]
                                                  ELSE logged[d][k]
      <4>1. logged' = [logged EXCEPT ![sweep][h] = @ + owed[h]]
        BY <2>2 DEF LogPenalty
      <4> QED
        BY <3>1, <4>1
    <3>p. charged' = charged /\ pc' = "append"
      BY <2>2 DEF LogPenalty
    <3>3. logged[sweep][h] + owed[h] <= charged[sweep][h]
      BY <2>2 DEF LogPenalty, EntriesAhead
    <3>4. LogIsBacked'
      BY <3>1, <3>2, <3>3, <3>p DEF LogIsBacked
    <3> QED
      BY <3>p, <3>4 DEF EntriesAhead
  <2>3. CASE UNCHANGED <<charged, logged>> /\ pc' # "log"
    BY <2>3 DEF LogIsBacked, EntriesAhead
  <2>4. CASE UNCHANGED vars
    BY <2>4 DEF vars, penalties, stage, LogIsBacked, EntriesAhead, IsNext, Owing
  <2> QED
    BY <2>1, <2>2, <2>3, <2>4, PenaltyWriters
<1>3. IInv => LogIsBacked
  OBVIOUS
<1> QED
  BY <1>1, <1>2, <1>3, TypeCorrect, PTL DEF Spec

-----------------------------------------------------------------------------
(* Charges are fair. *)

Deserves(d, h) == Missed(d, h) > 0 /\ ~OperatorFault(d, h) /\ ~Unreached(d, h)

\* Every entry was deserved, cancelled or not, and no later run of the day
\* undoes that.
EntriesFair ==
  \A d \in Days, h \in Hotkeys :
    charged[d][h] > 0 =>
      /\ DayModels(d) # {}
      /\ <<d, h>> \notin latecomers => Deserves(d, h)

\* What the shadow stage still has to run delivered nothing and was not charged.
QueueUncharged ==
  pc = "run" => \A h \in todo :
                  charged[Basket][h] > 0 => <<Basket, h>> \in latecomers

\* What the absence step still has to charge is deserved.
OwedFair ==
  pc \in {"append", "log"} =>
    \A h \in Owing : DayModels(sweep) # {} /\ Deserves(sweep, h)

FairInv == EntriesFair /\ QueueUncharged /\ OwedFair

(* Steps that leave the shadow day's files and the entries alone.           *)
LEMMA EntriesKept ==
  ASSUME EntriesFair, UNCHANGED <<shadow, charged, latecomers>>
  PROVE  EntriesFair'
BY DEF EntriesFair, Deserves, Missed, OperatorFault, Unreached, DayModels, RunComplete, shadow

(* Who compute_penalties charges deserves it.                               *)
LEMMA OwedIsDeserved ==
  ASSUME NEW d \in Days, NEW h \in Hotkeys, ComputePenalties(d)[h] > 0
  PROVE  DayModels(d) # {} /\ Deserves(d, h)
BY DEF ComputePenalties, Deserves

(* A run of models that delivered nothing and were not charged, or are      *)
(* latecomers, keeps every entry fair.                                      *)
LEMMA RunKeepsFair ==
  ASSUME TypeOK, FairInv, pc = "shadow", NEW S \in SUBSET Hotkeys, RunModels(S),
         latecomers \subseteq latecomers',
         \A h \in S : charged[Basket][h] > 0 => <<Basket, h>> \in latecomers'
  PROVE  FairInv'
<1>1. Basket \in Days /\ plan \in [Days -> SUBSET Hotkeys]
  BY DEF TypeOK, FilesOK, StageOK, Basket
<1>2. /\ UNCHANGED <<records, marked, charged, day>> /\ todo' = S /\ pc' = "run"
      /\ plan' = [plan EXCEPT ![Basket] = @ \cup S]
  BY DEF RunModels, penalties
<1>3. ASSUME NEW d \in Days, NEW h \in Hotkeys, charged'[d][h] > 0
      PROVE  /\ DayModels(d)' # {}
             /\ <<d, h>> \notin latecomers' => Deserves(d, h)'
  <2>1. DayModels(d)' = DayModels(d) /\ DayModels(d) # {}
    BY <1>2, <1>3 DEF FairInv, EntriesFair, DayModels
  <2>2. ASSUME <<d, h>> \notin latecomers' PROVE Deserves(d, h)'
    <3>1. Deserves(d, h)
      BY <1>2, <1>3, <2>2 DEF FairInv, EntriesFair
    <3>2. ~(d = Basket /\ h \in S)
      BY <1>2, <1>3, <2>2
    <3>3. h \in plan'[d] => h \in plan[d]
      BY <1>1, <1>2, <3>2
    <3> QED
      BY <1>2, <2>1, <3>1, <3>3
         DEF Deserves, Missed, OperatorFault, Unreached, RunComplete
  <2> QED
    BY <2>1, <2>2
<1> QED
  BY <1>2, <1>3 DEF FairInv, EntriesFair, QueueUncharged, OwedFair, Basket

(* A standing carries a penalty only for what the hotkey itself left out:   *)
(* not for an operator's failure, nor for a cut-off run that did not reach  *)
(* its model.                                                               *)
THEOREM ChargesFair == Spec => []FairCharge
<1>1. Init => FairInv
  BY DEF Init, FairInv, EntriesFair, QueueUncharged, OwedFair, NothingOwed
<1>2. TypeOK /\ FairInv /\ [Next]_vars => FairInv'
  <2> SUFFICES ASSUME TypeOK, FairInv, [Next]_vars PROVE FairInv'
    OBVIOUS
  <2> USE DEF penalties
  <2>a. ASSUME UNCHANGED <<shadow, charged, latecomers>>, pc' \notin {"run", "append", "log"}
        PROVE  FairInv'
    BY <2>a, EntriesKept DEF FairInv, QueueUncharged, OwedFair
  <2>1. CASE \/ NextDay \/ WriteRunRecord
             \/ \E h \in Hotkeys : Move(h) \/ CancelCutOffCharge(h)
             \/ \E d \in Days : StartPipeline(d)
    <3>1. /\ UNCHANGED <<shadow, charged, latecomers>>
          /\ pc' \notin {"run", "append", "log"}
      BY <2>1 DEF NextDay, WriteRunRecord, Move, CancelCutOffCharge, StartPipeline
    <3> QED
      BY <3>1, <2>a
  <2>2. CASE SkipLockedDay \/ ShadowFails \/ AbsenceFails \/ Killed
    <3>1. /\ UNCHANGED <<shadow, charged, latecomers>>
          /\ pc' \notin {"run", "append", "log"}
      BY <2>2 DEF SkipLockedDay, ShadowFails, StartSweep, AbsenceFails, Killed
    <3> QED
      BY <3>1, <2>a
  <2>3. CASE StartShadowDay
    <3>1. Basket \in Days /\ DayModels(Basket) = {} /\ models \subseteq Hotkeys
      BY <2>3 DEF StartShadowDay, SubnetRan, TypeOK, StageOK, Basket
    <3>2. \A h \in models : ~(charged[Basket][h] > 0)
      BY <3>1 DEF FairInv, EntriesFair
    <3> QED
      BY <2>3, <3>1, <3>2, RunKeepsFair DEF StartShadowDay
  <2>4. CASE ResumeShadowDay
    <3>1. /\ Basket \in Days /\ Resumable \subseteq Hotkeys /\ ~RunComplete(Basket)
          /\ \A h \in Resumable : h \notin DayModels(Basket)
      BY <2>4 DEF ResumeShadowDay, Resumable, TypeOK, StageOK, Basket
    <3>2. ASSUME NEW h \in Resumable, charged[Basket][h] > 0
          PROVE  <<Basket, h>> \in latecomers'
      <4>1. <<Basket, h>> \in latecomers \/ h \notin plan[Basket]
        BY <3>1, <3>2 DEF FairInv, EntriesFair, Deserves, Unreached
      <4> QED
        BY <4>1, <2>4, <3>2 DEF ResumeShadowDay
    <3> QED
      BY <2>4, <3>1, <3>2, RunKeepsFair DEF ResumeShadowDay
  <2>5. CASE RetryOurs
    <3>1. Basket \in Days /\ models \subseteq Hotkeys
      BY <2>5 DEF RetryOurs, TypeOK, StageOK, Basket
    <3>2. \A h \in models \cap OursWithoutPredictions(Basket) :
            charged[Basket][h] > 0 => <<Basket, h>> \in latecomers
      BY <3>1 DEF OursWithoutPredictions, FairInv, EntriesFair, Deserves
    <3> QED
      BY <2>5, <3>1, <3>2, RunKeepsFair DEF RetryOurs
  <2>6. ASSUME NEW h \in Hotkeys, NEW r \in Results, RecordDay(h, r) PROVE FairInv'
    <3>1. /\ Basket \in Days /\ r # NoRecord /\ pc = "run" /\ h \in todo
          /\ records \in [Days -> [Hotkeys -> Results \cup {NoRecord}]]
      <4>1. r.fault # NoRecord.fault
        BY ResultsAssumption DEF NoRecord, Faults
      <4> QED
        BY <2>6, <4>1 DEF RecordDay, TypeOK, FilesOK, StageOK, Basket
    <3>2. /\ UNCHANGED <<plan, marked, charged, day, pc, latecomers>>
          /\ todo' = todo \ {h}
          /\ records' = [records EXCEPT ![Basket][h] = r]
      BY <2>6 DEF RecordDay
    <3>3. \A d \in Days, k \in Hotkeys :
            records'[d][k] = IF d = Basket /\ k = h THEN r ELSE records[d][k]
      BY <3>1, <3>2
    <3>4. \A d \in Days : DayModels(d) \subseteq DayModels(d)'
      BY <3>1, <3>3 DEF DayModels
    <3>5. ASSUME NEW d \in Days, NEW k \in Hotkeys, ~(d = Basket /\ k = h), Deserves(d, k)
          PROVE  Deserves(d, k)'
      BY <3>2, <3>3, <3>4, <3>5
         DEF Deserves, Missed, OperatorFault, Unreached, RunComplete
    <3>6. charged[Basket][h] > 0 => <<Basket, h>> \in latecomers
      BY <3>1 DEF FairInv, QueueUncharged
    <3>7. EntriesFair'
      <4> SUFFICES ASSUME NEW d \in Days, NEW k \in Hotkeys, charged'[d][k] > 0
                   PROVE  /\ DayModels(d)' # {}
                          /\ <<d, k>> \notin latecomers' => Deserves(d, k)'
        BY DEF EntriesFair
      <4>1. DayModels(d) # {} /\ (<<d, k>> \notin latecomers => Deserves(d, k))
        BY <3>2 DEF FairInv, EntriesFair
      <4> QED
        BY <4>1, <3>2, <3>4, <3>5, <3>6
    <3>8. QueueUncharged'
      BY <3>1, <3>2 DEF FairInv, QueueUncharged, Basket
    <3> QED
      BY <3>1, <3>2, <3>7, <3>8 DEF FairInv, OwedFair
  <2>7. CASE RecordRunMarker
    <3>1. /\ UNCHANGED <<plan, records, charged, latecomers>>
          /\ marked \subseteq marked' /\ pc' = "compute"
      BY <2>7 DEF RecordRunMarker, StartSweep
    <3>2. EntriesFair'
      BY <3>1 DEF FairInv, EntriesFair, Deserves, Missed, OperatorFault, Unreached,
                  DayModels, RunComplete
    <3> QED
      BY <3>1, <3>2 DEF FairInv, QueueUncharged, OwedFair
  <2>8. CASE ComputeDay
    <3>1. /\ UNCHANGED <<shadow, charged, latecomers, sweep>> /\ sweep \in Days
          /\ owed' = ComputePenalties(sweep) /\ pc' = "append"
      BY <2>8 DEF ComputeDay, TypeOK, StageOK
    <3>2. \A h \in Owing' : DayModels(sweep) # {} /\ Deserves(sweep, h)
      BY <3>1, OwedIsDeserved DEF Owing
    <3>3. OwedFair'
      BY <3>1, <3>2 DEF OwedFair, Deserves, Missed, OperatorFault, Unreached,
                        DayModels, RunComplete, shadow
    <3> QED
      BY <3>1, <3>3, EntriesKept DEF FairInv, QueueUncharged
  <2>9. ASSUME NEW h \in Hotkeys, AppendPenaltyEntries(h) PROVE FairInv'
    <3>1. /\ UNCHANGED <<shadow, latecomers, sweep, owed>> /\ sweep \in Days
          /\ pc = "append" /\ pc' = "log" /\ h \in Owing
          /\ charged \in [Days -> [Hotkeys -> Nat]]
          /\ charged' = [charged EXCEPT ![sweep][h] = @ + owed[h]]
      BY <2>9 DEF AppendPenaltyEntries, TypeOK, FilesOK, StageOK, IsNext, stage
    <3>2. \A d \in Days, k \in Hotkeys : ~(d = sweep /\ k = h) => charged'[d][k] = charged[d][k]
      BY <3>1
    <3>3. DayModels(sweep) # {} /\ Deserves(sweep, h)
      BY <3>1 DEF FairInv, OwedFair
    <3>4. \A d \in Days, k \in Hotkeys :
            charged'[d][k] > 0 => /\ DayModels(d) # {}
                                  /\ <<d, k>> \notin latecomers => Deserves(d, k)
      BY <3>2, <3>3 DEF FairInv, EntriesFair
    <3>5. EntriesFair' /\ OwedFair'
      BY <3>1, <3>4 DEF FairInv, EntriesFair, OwedFair, Owing, Deserves, Missed,
                        OperatorFault, Unreached, DayModels, RunComplete, shadow
    <3> QED
      BY <3>1, <3>5 DEF FairInv, QueueUncharged
  <2>10. ASSUME NEW h \in Hotkeys, LogPenalty(h) PROVE FairInv'
    <3>1. /\ UNCHANGED <<shadow, charged, latecomers, sweep>>
          /\ pc = "log" /\ pc' = "append"
          /\ owed \in [Hotkeys -> 0 .. Episodes]
          /\ owed' = [owed EXCEPT ![h] = 0]
      BY <2>10 DEF LogPenalty, TypeOK, StageOK
    <3>2. Owing' \subseteq Owing
      BY <3>1 DEF Owing
    <3>3. OwedFair'
      BY <3>1, <3>2 DEF FairInv, OwedFair, Deserves, Missed, OperatorFault, Unreached,
                        DayModels, RunComplete, shadow
    <3> QED
      BY <3>1, <3>3, EntriesKept DEF FairInv, QueueUncharged
  <2>11. CASE NextSweepDay
    <3>1. UNCHANGED <<shadow, charged, latecomers>> /\ pc' \notin {"run", "append", "log"}
      BY <2>11 DEF NextSweepDay
    <3> QED
      BY <3>1, <2>a
  <2>12. CASE UNCHANGED vars
    BY <2>12, EntriesKept
       DEF vars, stage, shadow, FairInv, QueueUncharged, OwedFair, Owing, Basket, Deserves,
           Missed, OperatorFault, Unreached, DayModels, RunComplete
  <2> QED
    BY <2>1, <2>2, <2>3, <2>4, <2>5, <2>6, <2>7, <2>8, <2>9, <2>10, <2>11, <2>12 DEF Next
<1>3. TypeOK /\ FairInv => FairCharge
  <2> SUFFICES ASSUME TypeOK, FairInv, NEW d \in Days, NEW h \in Hotkeys, Net(d, h) > 0
               PROVE  charged[d][h] > 0
    BY DEF FairCharge, FairInv, EntriesFair, Deserves
  <2> QED
    BY DEF TypeOK, FilesOK, Net
<1> QED
  BY <1>1, <1>2, <1>3, TypeCorrect, PTL DEF Spec

-----------------------------------------------------------------------------
(* Charges are made once and cancelled once. *)

\* The entries of the charge that is being made, of which the log knows nothing yet.
BeingCharged(d, h) == pc = "log" /\ d = sweep /\ IsNext(h)

\* A day and hotkey without a log line carry at most what stops have left there.
StopsLeave ==
  /\ \A d \in Days, h \in Hotkeys :
       /\ charged[d][h] <= Episodes * (crashes + 1)
       /\ logged[d][h] = 0 /\ ~BeingCharged(d, h) => charged[d][h] <= Episodes * crashes
  /\ pc \in {"append", "log"} => \A h \in Owing : logged[sweep][h] = 0

\* One stop more allows one charge more.
LEMMA OneMore ==
  ASSUME NEW n \in Nat
  PROVE  /\ Episodes * n \in Nat /\ Episodes * (n + 1) \in Nat
         /\ Episodes * (n + 1) = Episodes * n + Episodes
BY ResultsAssumption

(* However often pipelines repeat and days are caught up, no hotkey carries *)
(* more than one charge of a day, and one more for each stop of the absence *)
(* step: the log line is what a later sweep looks at.                       *)
THEOREM OneChargePerDay == Spec => []ChargedOnce
<1>1. Init => StopsLeave
  BY ResultsAssumption DEF Init, StopsLeave, NothingOwed
<1>2. TypeOK /\ StopsLeave /\ [Next]_vars => StopsLeave'
  <2> SUFFICES ASSUME TypeOK, StopsLeave, [Next]_vars
               PROVE  StopsLeave'
    OBVIOUS
  <2>n. /\ crashes \in Nat /\ Episodes \in Nat
        /\ Episodes * crashes \in Nat /\ Episodes * (crashes + 1) = Episodes * crashes + Episodes
    BY OneMore, ResultsAssumption DEF TypeOK
  <2>t. \A d \in Days, h \in Hotkeys : charged[d][h] \in Nat /\ logged[d][h] \in Nat
    BY DEF TypeOK, FilesOK
  <2>a. ASSUME UNCHANGED <<charged, logged, crashes>>, pc # "log",
               pc' \notin {"append", "log"}
        PROVE  StopsLeave'
    BY <2>a DEF StopsLeave, BeingCharged
  <2> USE DEF penalties, bounds
  <2>1. CASE \/ NextDay \/ WriteRunRecord
             \/ \E h \in Hotkeys : Move(h) \/ CancelCutOffCharge(h)
             \/ \E d \in Days : StartPipeline(d)
    BY <2>1, <2>a DEF NextDay, WriteRunRecord, Move, CancelCutOffCharge, StartPipeline
  <2>2. CASE StartShadowDay \/ ResumeShadowDay \/ RetryOurs \/ SkipLockedDay
    BY <2>2, <2>a DEF StartShadowDay, ResumeShadowDay, RetryOurs, RunModels,
                      SkipLockedDay, StartSweep
  <2>3. CASE \/ RecordRunMarker \/ ShadowFails
             \/ \E h \in Hotkeys, r \in Results : RecordDay(h, r)
    BY <2>3, <2>a DEF RecordRunMarker, ShadowFails, StartSweep, RecordDay
  <2>4. CASE NextSweepDay
    BY <2>4, <2>a DEF NextSweepDay
  <2>5. CASE AbsenceFails \/ Killed
    <3>1. /\ UNCHANGED <<charged, logged>> /\ pc' \notin {"append", "log"}
          /\ \/ crashes' = crashes + 1
             \/ crashes' = crashes /\ pc # "log"
      BY <2>5 DEF AbsenceFails, Killed
    <3>2. CASE crashes' = crashes /\ pc # "log"
      BY <2>a, <3>1, <3>2
    <3>3. CASE crashes' = crashes + 1
      <4>1. /\ Episodes * crashes' = Episodes * crashes + Episodes
            /\ Episodes * (crashes' + 1) = Episodes * crashes + Episodes + Episodes
        BY <2>n, <3>3, OneMore
      <4>2. \A d \in Days, h \in Hotkeys :
              /\ charged'[d][h] <= Episodes * crashes'
              /\ charged'[d][h] <= Episodes * (crashes' + 1)
        BY <2>n, <2>t, <3>1, <4>1 DEF StopsLeave
      <4> QED
        BY <3>1, <4>2 DEF StopsLeave
    <3> QED
      BY <3>1, <3>2, <3>3
  <2>6. CASE ComputeDay
    <3>1. /\ UNCHANGED <<charged, logged, crashes, sweep>> /\ sweep \in Days
          /\ owed' = ComputePenalties(sweep) /\ pc = "compute" /\ pc' = "append"
      BY <2>6 DEF ComputeDay, TypeOK, StageOK
    <3>2. \A h \in Owing' : logged[sweep][h] = 0
      BY <3>1 DEF Owing, ComputePenalties
    <3> QED
      BY <3>1, <3>2 DEF StopsLeave, BeingCharged
  <2>7. ASSUME NEW h \in Hotkeys, AppendPenaltyEntries(h) PROVE StopsLeave'
    <3>1. /\ UNCHANGED <<logged, crashes, sweep, owed>> /\ sweep \in Days
          /\ pc = "append" /\ pc' = "log" /\ IsNext(h)
          /\ charged \in [Days -> [Hotkeys -> Nat]]
          /\ charged' = [charged EXCEPT ![sweep][h] = @ + owed[h]]
      BY <2>7 DEF AppendPenaltyEntries, TypeOK, FilesOK, StageOK, stage
    <3>2. /\ owed[h] \in 0 .. Episodes /\ logged[sweep][h] = 0
          /\ charged[sweep][h] <= Episodes * crashes
      BY <3>1 DEF StopsLeave, BeingCharged, IsNext, TypeOK, StageOK
    <3>3. \A k \in Hotkeys : IsNext(k)' <=> k = h
      BY <3>1, HotkeysAssumption DEF IsNext, Owing
    <3>4. \A d \in Days, k \in Hotkeys :
            charged'[d][k] = IF d = sweep /\ k = h THEN charged[sweep][h] + owed[h]
                                                   ELSE charged[d][k]
      BY <3>1
    <3>5. charged[sweep][h] + owed[h] <= Episodes * (crashes + 1)
      BY <2>n, <2>t, <3>1, <3>2
    <3>6. \A d \in Days, k \in Hotkeys :
            /\ charged'[d][k] <= Episodes * (crashes + 1)
            /\ logged[d][k] = 0 /\ ~(d = sweep /\ k = h) => charged'[d][k] <= Episodes * crashes
      <4> TAKE d \in Days, k \in Hotkeys
      <4>1. ~BeingCharged(d, k)
        BY <3>1 DEF BeingCharged
      <4> QED
        BY <3>4, <3>5, <4>1 DEF StopsLeave
    <3>7. \A k \in Owing' : logged'[sweep'][k] = 0
      BY <3>1 DEF StopsLeave, Owing
    <3> QED
      BY <3>1, <3>3, <3>6, <3>7 DEF StopsLeave, BeingCharged
  <2>8. ASSUME NEW h \in Hotkeys, LogPenalty(h) PROVE StopsLeave'
    <3>1. /\ UNCHANGED <<charged, crashes, sweep>> /\ sweep \in Days
          /\ pc = "log" /\ pc' = "append" /\ IsNext(h)
          /\ logged \in [Days -> [Hotkeys -> Nat]]
          /\ owed \in [Hotkeys -> 0 .. Episodes]
          /\ logged' = [logged EXCEPT ![sweep][h] = @ + owed[h]]
          /\ owed' = [owed EXCEPT ![h] = 0]
      BY <2>8 DEF LogPenalty, TypeOK, FilesOK, StageOK
    <3>2. \A k \in Hotkeys : IsNext(k) <=> k = h
      BY <3>1, HotkeysAssumption DEF IsNext, Owing
    <3>3. \A d \in Days, k \in Hotkeys :
            logged'[d][k] = IF d = sweep /\ k = h THEN logged[d][k] + owed[k]
                                                  ELSE logged[d][k]
      BY <3>1
    <3>4. owed[h] > 0
      BY <3>1 DEF IsNext, Owing
    <3>5. logged'[sweep][h] # 0
      BY <2>t, <3>1, <3>3, <3>4
    <3>6. \A d \in Days, k \in Hotkeys :
            logged'[d][k] = 0 => logged[d][k] = 0 /\ ~BeingCharged(d, k)
      BY <3>2, <3>3, <3>5 DEF BeingCharged
    <3>7. \A k \in Owing' : logged'[sweep][k] = 0
      <4> SUFFICES ASSUME NEW k \in Owing' PROVE logged'[sweep][k] = 0
        OBVIOUS
      <4>1. k \in Hotkeys /\ k \in Owing /\ k # h
        BY <3>1 DEF Owing
      <4>2. logged[sweep][k] = 0
        BY <3>1, <4>1 DEF StopsLeave
      <4> QED
        BY <3>1, <3>3, <4>1, <4>2
    <3> QED
      BY <3>1, <3>6, <3>7 DEF StopsLeave
  <2>9. CASE UNCHANGED vars
    BY <2>9 DEF vars, stage, StopsLeave, BeingCharged, IsNext, Owing
  <2> QED
    BY <2>1, <2>2, <2>3, <2>4, <2>5, <2>6, <2>7, <2>8, <2>9 DEF Next
<1>3. StopsLeave => ChargedOnce
  BY DEF StopsLeave, ChargedOnce
<1> QED
  BY <1>1, <1>2, <1>3, TypeCorrect, PTL DEF Spec

(* No more is cancelled than was charged, however often a day is cut off,   *)
(* settled and resumed.                                                     *)
THEOREM CancelledOnce == Spec => []CancelledAtMostCharged
<1>1. Init => CancelledAtMostCharged
  BY DEF Init, CancelledAtMostCharged, NothingOwed
<1>2. TypeOK /\ CancelledAtMostCharged /\ [Next]_vars => CancelledAtMostCharged'
  <2> SUFFICES ASSUME TypeOK, CancelledAtMostCharged, [Next]_vars
               PROVE  CancelledAtMostCharged'
    OBVIOUS
  <2> USE DEF penalties
  <2>a. ASSUME UNCHANGED <<logged, cancelled>> PROVE CancelledAtMostCharged'
    BY <2>a DEF CancelledAtMostCharged
  <2>1. CASE \/ NextDay \/ WriteRunRecord \/ AbsenceFails \/ Killed
             \/ \E h \in Hotkeys : Move(h) \/ AppendPenaltyEntries(h)
             \/ \E d \in Days : StartPipeline(d)
    BY <2>1, <2>a DEF NextDay, WriteRunRecord, AbsenceFails, Killed, Move,
                      AppendPenaltyEntries, StartPipeline
  <2>2. CASE StartShadowDay \/ ResumeShadowDay \/ RetryOurs \/ SkipLockedDay
    BY <2>2, <2>a DEF StartShadowDay, ResumeShadowDay, RetryOurs, RunModels,
                      SkipLockedDay
  <2>3. CASE \/ RecordRunMarker \/ ShadowFails \/ ComputeDay \/ NextSweepDay
             \/ \E h \in Hotkeys, r \in Results : RecordDay(h, r)
    BY <2>3, <2>a DEF RecordRunMarker, ShadowFails, RecordDay, ComputeDay, NextSweepDay
  <2>4. ASSUME NEW h \in Hotkeys, CancelCutOffCharge(h) PROVE CancelledAtMostCharged'
    <3>1. /\ Basket \in Days /\ cancelled[Basket][h] = 0 /\ logged' = logged
          /\ logged \in [Days -> [Hotkeys -> Nat]]
          /\ cancelled \in [Days -> [Hotkeys -> Nat]]
          /\ cancelled' = [cancelled EXCEPT ![Basket][h] = @ + logged[Basket][h]]
      BY <2>4 DEF CancelCutOffCharge, CutOffCharges, TypeOK, FilesOK, StageOK, Basket
    <3>2. \A d \in Days, k \in Hotkeys :
            cancelled'[d][k] = IF d = Basket /\ k = h THEN logged[d][k]
                                                      ELSE cancelled[d][k]
      BY <3>1
    <3> QED
      BY <3>1, <3>2 DEF CancelledAtMostCharged
  <2>5. ASSUME NEW h \in Hotkeys, LogPenalty(h) PROVE CancelledAtMostCharged'
    <3>1. /\ sweep \in Days /\ owed[h] \in 0 .. Episodes /\ cancelled' = cancelled
          /\ logged \in [Days -> [Hotkeys -> Nat]]
          /\ cancelled \in [Days -> [Hotkeys -> Nat]]
          /\ logged' = [logged EXCEPT ![sweep][h] = @ + owed[h]]
      BY <2>5 DEF LogPenalty, TypeOK, FilesOK, StageOK
    <3>2. \A d \in Days, k \in Hotkeys : logged[d][k] <= logged'[d][k]
      BY <3>1, ResultsAssumption
    <3>3. \A d \in Days, k \in Hotkeys : logged'[d][k] \in Nat
      BY <3>1, ResultsAssumption
    <3> QED
      BY <3>1, <3>2, <3>3 DEF CancelledAtMostCharged
  <2>6. CASE UNCHANGED vars
    BY <2>6, <2>a DEF vars
  <2> QED
    BY <2>1, <2>2, <2>3, <2>4, <2>5, <2>6 DEF Next
<1> QED
  BY <1>1, <1>2, TypeCorrect, PTL DEF Spec

-----------------------------------------------------------------------------
(* Predictions are locked. *)

\* What the shadow stage still has to run delivered no prediction yet.
QueueDeliveredNothing ==
  pc = "run" => \A h \in todo : records[Basket][h].preds = 0

(* A run of models that delivered nothing.                                  *)
LEMMA RunQueuesNothing ==
  ASSUME NEW S, RunModels(S), \A h \in S : records[Basket][h].preds = 0
  PROVE  QueueDeliveredNothing'
BY DEF RunModels, QueueDeliveredNothing, Basket

(* A model without a record delivered nothing.                              *)
LEMMA NoRecordNoPrediction ==
  ASSUME NEW d, NEW h \in Hotkeys, h \notin DayModels(d)
  PROVE  records[d][h].preds = 0
<1>1. records[d][h] = NoRecord
  BY DEF DayModels
<1>2. NoRecord.preds = 0
  BY DEF NoRecord
<1> QED
  BY ONLY <1>1, <1>2

(* A record that delivered any prediction is never replaced: not by the     *)
(* resumption of its day, by the retry of its failures or by a rerun.       *)
THEOREM PredictionsStayLocked == Spec => PredictionsLocked
<1>1. Init => QueueDeliveredNothing
  BY DEF Init, QueueDeliveredNothing
<1>2. TypeOK /\ QueueDeliveredNothing /\ [Next]_vars => QueueDeliveredNothing'
  <2> SUFFICES ASSUME TypeOK, QueueDeliveredNothing, [Next]_vars
               PROVE  QueueDeliveredNothing'
    OBVIOUS
  <2>a. ASSUME pc' # "run" PROVE QueueDeliveredNothing'
    BY <2>a DEF QueueDeliveredNothing
  <2>1. CASE \/ NextDay \/ WriteRunRecord \/ AbsenceFails \/ Killed
             \/ \E h \in Hotkeys : Move(h) \/ AppendPenaltyEntries(h) \/ LogPenalty(h)
             \/ \E d \in Days : StartPipeline(d)
    BY <2>1, <2>a DEF NextDay, WriteRunRecord, AbsenceFails, Killed, Move,
                      AppendPenaltyEntries, LogPenalty, StartPipeline
  <2>2. CASE \/ SkipLockedDay \/ RecordRunMarker \/ ShadowFails \/ ComputeDay
             \/ NextSweepDay \/ \E h \in Hotkeys : CancelCutOffCharge(h)
    BY <2>2, <2>a DEF SkipLockedDay, RecordRunMarker, ShadowFails, StartSweep, ComputeDay,
                      NextSweepDay, CancelCutOffCharge
  <2>3. CASE StartShadowDay
    <3>1. \A h \in models : h \in Hotkeys /\ h \notin DayModels(Basket)
      BY <2>3 DEF StartShadowDay, SubnetRan, TypeOK
    <3> QED
      BY <2>3, <3>1, NoRecordNoPrediction, RunQueuesNothing DEF StartShadowDay
  <2>4. CASE ResumeShadowDay
    <3>1. \A h \in Resumable : h \in Hotkeys /\ h \notin DayModels(Basket)
      BY DEF Resumable, TypeOK
    <3> QED
      BY <2>4, <3>1, NoRecordNoPrediction, RunQueuesNothing DEF ResumeShadowDay
  <2>5. CASE RetryOurs
    BY <2>5, RunQueuesNothing DEF RetryOurs, OursWithoutPredictions
  <2>6. ASSUME NEW h \in Hotkeys, NEW r \in Results, RecordDay(h, r)
        PROVE  QueueDeliveredNothing'
    <3>1. /\ pc = "run" /\ Basket \in Days /\ todo \subseteq Hotkeys
          /\ records \in [Days -> [Hotkeys -> Results \cup {NoRecord}]]
          /\ Basket' = Basket /\ todo' = todo \ {h}
          /\ records' = [records EXCEPT ![Basket][h] = r]
      BY <2>6 DEF RecordDay, TypeOK, FilesOK, StageOK, Basket
    <3>2. \A k \in todo' : records'[Basket][k] = records[Basket][k]
      BY <3>1
    <3> QED
      BY <3>1, <3>2 DEF QueueDeliveredNothing
  <2>7. CASE UNCHANGED vars
    BY <2>7 DEF vars, shadow, stage, QueueDeliveredNothing, Basket
  <2> QED
    BY <2>1, <2>2, <2>3, <2>4, <2>5, <2>6, <2>7 DEF Next
<1>3. TypeOK /\ QueueDeliveredNothing /\ [Next]_vars =>
        [\A d \in Days, h \in Hotkeys :
           records[d][h].preds > 0 => records'[d][h] = records[d][h]]_vars
  <2> SUFFICES ASSUME TypeOK, QueueDeliveredNothing, Next,
                      NEW d \in Days, NEW k \in Hotkeys, records[d][k].preds > 0
               PROVE  records'[d][k] = records[d][k]
    OBVIOUS
  <2> USE DEF shadow
  <2>1. CASE \E h \in Hotkeys, r \in Results : RecordDay(h, r)
    <3>1. PICK h \in Hotkeys, r \in Results : RecordDay(h, r)
      BY <2>1
    <3>2. /\ Basket \in Days /\ records[Basket][h].preds = 0
          /\ records \in [Days -> [Hotkeys -> Results \cup {NoRecord}]]
          /\ records' = [records EXCEPT ![Basket][h] = r]
      BY <3>1 DEF RecordDay, QueueDeliveredNothing, TypeOK, FilesOK, StageOK, Basket
    <3>3. ~(d = Basket /\ k = h)
      BY <3>2
    <3> QED
      BY <3>2, <3>3
  <2>2. CASE \/ NextDay \/ WriteRunRecord \/ AbsenceFails \/ Killed
             \/ \E h \in Hotkeys : Move(h) \/ AppendPenaltyEntries(h) \/ LogPenalty(h)
             \/ \E e \in Days : StartPipeline(e)
    BY <2>2 DEF NextDay, WriteRunRecord, AbsenceFails, Killed, Move,
                AppendPenaltyEntries, LogPenalty, StartPipeline
  <2>3. CASE \/ SkipLockedDay \/ RecordRunMarker \/ ShadowFails \/ ComputeDay
             \/ NextSweepDay \/ \E h \in Hotkeys : CancelCutOffCharge(h)
    BY <2>3 DEF SkipLockedDay, RecordRunMarker, ShadowFails, ComputeDay, NextSweepDay,
                CancelCutOffCharge
  <2>4. CASE StartShadowDay \/ ResumeShadowDay \/ RetryOurs
    BY <2>4 DEF StartShadowDay, ResumeShadowDay, RetryOurs, RunModels
  <2> QED
    BY <2>1, <2>2, <2>3, <2>4 DEF Next
<1> QED
  BY <1>1, <1>2, <1>3, TypeCorrect, PTL DEF Spec, PredictionsLocked
=============================================================================
