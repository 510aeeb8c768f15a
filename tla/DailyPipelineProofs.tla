------------------------- MODULE DailyPipelineProofs -------------------------
(***************************************************************************)
(* The executor's day and the pool of models it judges, for any calendar,  *)
(* catch-up window, bounds on trouble and number of corrections.           *)
(*                                                                         *)
(* The order of days rests on what a pass knows of the days behind it: a   *)
(* day still owed a run is one the pass has yet to start (`Turns'), and    *)
(* nothing later than a day the pass will start has been posted (`Clear'). *)
(* The chain of corrections rests on all editions but the last being       *)
(* frozen (`Chained').                                                     *)
(*                                                                         *)
(* In the pool, what was admitted keeps its verdict and is never gated     *)
(* again (`Judged'); while nothing fails, the record of last models names  *)
(* one for whoever delivered, and a run serves all it names                *)
(* (`Remembered'); and each hotkey's entry is read off its deliveries      *)
(* (`Counted').                                                            *)
(***************************************************************************)
EXTENDS DailyPipeline, ModelPool, FiniteSetTheorems, WellFoundedInduction, SequenceTheorems, TLAPS

-----------------------------------------------------------------------------
(* The first and the last of a set of days *)

\* A nonempty set of naturals has a smallest element, which Min returns.
LEMMA MinIsFirst ==
  ASSUME NEW S, S \subseteq Nat, S # {}
  PROVE  Min(S) \in S /\ \A n \in S : Min(S) <= n
<1>1. PICK m \in S : \A n \in S : <<n, m>> \notin OpToRel(<, Nat)
  BY WFMin, NatLessThanWellFounded, Zenon
<1>2. \A n \in S : <<n, m>> \in Nat \X Nat
  OBVIOUS
<1>3. \A n \in S : ~ (n < m)
  BY <1>1, <1>2, Zenon DEF OpToRel
<1>4. m \in S /\ \A n \in S : m <= n
  BY <1>3
<1> QED
  BY <1>4 DEF Min

\* A bounded nonempty set of naturals has a largest element, which Max returns.
LEMMA MaxIsLast ==
  ASSUME NEW S, S \subseteq Nat, S # {}, NEW b \in Nat, \A n \in S : n <= b
  PROVE  Max(S) \in S /\ \A n \in S : n <= Max(S)
<1> DEFINE T == {b - n : n \in S}
<1>0. \A n \in S : n \in Nat /\ b - n \in Nat
  OBVIOUS
<1>1. T \subseteq Nat /\ T # {}
  BY <1>0
<1>2. Min(T) \in T /\ \A u \in T : Min(T) <= u
  BY <1>1, MinIsFirst, Zenon
<1>3. PICK m \in S : Min(T) = b - m
  BY <1>2
<1>4. \A n \in S : b - m <= b - n
  BY <1>2, <1>3
<1>5. m \in S /\ \A n \in S : m >= n
  BY <1>0, <1>4
<1> QED
  BY <1>5 DEF Max

-----------------------------------------------------------------------------
(* Types *)

\* The daemon waits for the pipeline it started and for no other.
Shape ==
  /\ (day = NoDay) <=> (stage = "none")
  /\ (day # NoDay) <=> (pc \in {"run", "today"})
  /\ pc \in {"sleep", "today"} => missed = {}
  /\ day <= today
  /\ \A d \in missed : d < today /\ day < d
  /\ pc = "run" => day < today

Edition == [says : Says, frozen : BOOLEAN]

\* What a report speaks of is a day of the calendar, or nobody.
LEMMA LiveAllocationSays ==
  ASSUME NEW d \in Days, intent \in [Days -> [pays : BOOLEAN, edition : Editions]]
  PROVE  LiveAllocation(d) \in Says
<1> DEFINE paying == {e \in Days : e <= d /\ intent[e].pays}
<1>1. CASE paying = {}
  BY <1>1 DEF LiveAllocation, Says, Nobody, Editions
<1>2. CASE paying # {}
  <2>1. paying \subseteq Nat /\ (\A n \in paying : n <= MaxDay) /\ MaxDay \in Nat
    BY BoundsAssumption DEF Days
  <2>2. Max(paying) \in paying
    BY <1>2, <2>1, MaxIsLast, Zenon
  <2>3. Max(paying) \in Days /\ intent[Max(paying)].edition \in Editions
    BY <2>2
  <2>4. LiveAllocation(d) = [day |-> Max(paying), edition |-> intent[Max(paying)].edition]
    BY <1>2 DEF LiveAllocation
  <2> QED
    BY <2>3, <2>4 DEF Says
<1> QED
  BY <1>1, <1>2

-----------------------------------------------------------------------------
(* The chain of corrections *)

\* All editions of a report but the last are frozen, and there are not more than
\* the report and its corrections.
Chained ==
  \A d \in Days :
    /\ Len(reports[d]) <= MaxCorrections + 1
    /\ \A i \in 1 .. Len(reports[d]) : i < Len(reports[d]) => reports[d][i].frozen

\* An edition goes out as the last of the day's chain, whether it replaces the
\* last one or follows it.
LEMMA ReportIsLast ==
  ASSUME reports \in [Days -> Seq(Edition)], Chained,
         NEW d \in Days, NEW says \in Says, Slots(d) # {}, Report(d, says)
  PROVE  /\ reports' \in [Days -> Seq(Edition)]
         /\ \A e \in Days \ {d} : reports'[e] = reports[e]
         /\ Len(reports'[d]) \in 1 .. (MaxCorrections + 1)
         /\ reports'[d][Len(reports'[d])].says = says
         /\ \A i \in 1 .. Len(reports'[d]) : i < Len(reports'[d]) => reports'[d][i].frozen
<1> DEFINE r == reports[d]
           edition == [says |-> says, frozen |-> FALSE]
           i == Min(Slots(d))
           s == IF i <= Len(r) THEN [r EXCEPT ![i] = edition] ELSE Append(r, edition)
<1>1. r \in Seq(Edition) /\ edition \in Edition /\ Len(r) \in Nat /\ MaxCorrections \in Nat
  BY BoundsAssumption, LenProperties DEF Edition
<1>2. reports' = [reports EXCEPT ![d] = s]
  BY DEF Report
<1>3. Slots(d) \subseteq Nat
  BY <1>1 DEF Slots
<1>4. i \in Slots(d) /\ \A n \in Slots(d) : i <= n
  BY <1>3, MinIsFirst, Zenon
<1>5. /\ i \in 1 .. (MaxCorrections + 1)
      /\ i > Len(r) \/ ~ r[i].frozen
  BY <1>4, <1>1 DEF Slots
<1>6. /\ Len(r) <= MaxCorrections + 1
      /\ \A k \in 1 .. Len(r) : k < Len(r) => r[k].frozen
  BY DEF Chained
<1>7. i >= Len(r)
  BY <1>1, <1>5, <1>6
<1>8. i \in Nat /\ i <= Len(r) + 1
  <2>1. CASE Len(r) = MaxCorrections + 1
    BY <1>1, <1>5, <2>1
  <2>2. CASE Len(r) # MaxCorrections + 1
    <3>1. Len(r) + 1 \in Slots(d)
      BY <1>1, <1>6, <2>2 DEF Slots
    <3> QED
      BY <1>1, <1>4, <1>5, <3>1
  <2> QED
    BY <2>1, <2>2
<1> HIDE DEF i
<1>9. CASE i <= Len(r)
  <2>1. i = Len(r) /\ i \in 1 .. Len(r) /\ s = [r EXCEPT ![i] = edition]
    BY <1>1, <1>5, <1>7, <1>9
  <2> HIDE DEF r, edition
  <2>2. /\ s \in Seq(Edition) /\ Len(s) = Len(r)
        /\ \A j \in 1 .. Len(r) : s[j] = IF j = i THEN edition ELSE r[j]
    BY <1>1, <2>1, ExceptSeq
  <2>3. /\ s[Len(s)] = edition
        /\ \A k \in 1 .. Len(s) : k < Len(s) => s[k].frozen
        /\ Len(s) \in 1 .. (MaxCorrections + 1)
    BY <1>1, <1>6, <2>1, <2>2
  <2> HIDE DEF s
  <2>4. reports'[d] = s /\ edition.says = says
    BY <1>2 DEF edition
  <2> QED
    BY <1>2, <2>2, <2>3, <2>4
<1>10. CASE ~ (i <= Len(r))
  <2>1. i = Len(r) + 1 /\ s = Append(r, edition)
    BY <1>1, <1>5, <1>8, <1>10
  <2> HIDE DEF r, edition
  <2>2. /\ s \in Seq(Edition) /\ Len(s) = Len(r) + 1 /\ s[Len(r) + 1] = edition
        /\ \A j \in 1 .. Len(r) : s[j] = r[j]
    BY <1>1, <2>1, AppendProperties
  <2>3. \A k \in 1 .. Len(r) : r[k].frozen
    <3>1. CASE Len(r) = 0
      BY <3>1, <1>1
    <3>2. CASE Len(r) # 0 /\ ~ r[Len(r)].frozen
      <4>1. Len(r) \in Slots(d)
        BY <1>1, <1>6, <3>2 DEF Slots, r
      <4> QED
        BY <1>1, <1>4, <2>1, <4>1
    <3>3. CASE Len(r) # 0 /\ r[Len(r)].frozen
      BY <1>1, <1>6, <3>3
    <3> QED
      BY <3>1, <3>2, <3>3
  <2>4. /\ s[Len(s)] = edition
        /\ \A k \in 1 .. Len(s) : k < Len(s) => s[k].frozen
        /\ Len(s) \in 1 .. (MaxCorrections + 1)
    BY <1>1, <1>5, <2>1, <2>2, <2>3
  <2> HIDE DEF s
  <2>5. reports'[d] = s /\ edition.says = says
    BY <1>2 DEF edition
  <2> QED
    BY <1>2, <2>2, <2>4, <2>5
<1> QED
  BY <1>9, <1>10

\* Freezing the last edition of a day changes nothing else.
LEMMA FreezeKeeps ==
  ASSUME reports \in [Days -> Seq(Edition)], NEW d \in Days, Freeze(d)
  PROVE  /\ reports' \in [Days -> Seq(Edition)]
         /\ \A e \in Days \ {d} : reports'[e] = reports[e]
         /\ Len(reports'[d]) = Len(reports[d])
         /\ \A i \in 1 .. Len(reports[d]) :
              /\ reports'[d][i].says = reports[d][i].says
              /\ reports'[d][i].frozen <=> (reports[d][i].frozen \/ i = Len(reports[d]))
<1> DEFINE r == reports[d]
           n == Len(r)
           edition == [r[n] EXCEPT !.frozen = TRUE]
           s == [r EXCEPT ![n] = edition]
<1>1. r \in Seq(Edition) /\ r # <<>>
  BY DEF Freeze
<1>2. n \in Nat /\ n \in 1 .. n
  BY <1>1, LenProperties
<1>3. r[n] \in Edition
  BY <1>1, <1>2, ElementOfSeq
<1>4. edition \in Edition /\ edition.says = r[n].says /\ edition.frozen = TRUE
  BY <1>3 DEF Edition
<1>5. reports' = [reports EXCEPT ![d] = s]
  BY DEF Freeze
<1> HIDE DEF edition
<1>6. /\ s \in Seq(Edition) /\ Len(s) = n
      /\ \A j \in 1 .. n : s[j] = IF j = n THEN edition ELSE r[j]
  BY <1>1, <1>2, <1>4, ExceptSeq
<1>7. \A j \in 1 .. n : r[j] \in Edition
  BY <1>1, ElementOfSeq
<1>8. \A j \in 1 .. n : r[j].frozen \in BOOLEAN
  BY <1>7 DEF Edition
<1>9. \A j \in 1 .. n : s[j].says = r[j].says /\ (s[j].frozen <=> (r[j].frozen \/ j = n))
  <2> SUFFICES ASSUME NEW j \in 1 .. n
               PROVE  s[j].says = r[j].says /\ (s[j].frozen <=> (r[j].frozen \/ j = n))
    OBVIOUS
  <2>1. CASE j = n
    BY <1>4, <1>6, <2>1, Zenon
  <2>2. CASE j # n
    <3>1. s[j] = r[j]
      BY <1>6, <2>2
    <3> QED
      BY <2>2, <3>1, Zenon
  <2> QED
    BY <2>1, <2>2
<1>10. reports'[d] = s
  BY <1>5
<1> HIDE DEF s
<1> QED
  BY <1>5, <1>6, <1>9, <1>10

-----------------------------------------------------------------------------
(* Every step keeps types and shape *)

LEMMA ReportsTyped == [says : Says, frozen : BOOLEAN] = Edition
  BY DEF Edition

\* Days are numbers, from 1 on.
LEMMA Numbers ==
  ASSUME TypeOK
  PROVE  /\ today \in Nat /\ today >= 1 /\ day \in Nat /\ missed \subseteq Nat
         /\ \A d \in Days : d \in Nat /\ NoDay < d
<1>1. \A d \in Days : d \in Nat /\ d >= 1
  BY BoundsAssumption DEF Days
<1>2. today \in Days /\ day \in Days \cup {NoDay} /\ missed \subseteq Days
  BY DEF TypeOK
<1> QED
  BY <1>1, <1>2 DEF NoDay

\* The end of a pipeline, clean or not.
LEMMA ExitKeeps ==
  ASSUME TypeOK, Shape, stage # "none", NEW clean \in BOOLEAN, Exit(clean), today' = today
  PROVE  /\ pc' \in {"sleep", "catch up"} /\ missed' = missed
         /\ rerun' \in BOOLEAN /\ ticked' \in BOOLEAN
         /\ day' = NoDay /\ stage' = "none"
         /\ Shape'
<1>1. pc \in {"run", "today"} /\ day \in Days
  BY DEF Shape, TypeOK
<1>2. /\ pc' \in {"sleep", "catch up"} /\ missed' = missed
      /\ day' = NoDay /\ stage' = "none"
      /\ pc' = "sleep" => pc = "today"
  BY <1>1 DEF Exit
<1>3. ticked' \in BOOLEAN
  BY <1>1 DEF Exit, TypeOK
<1>4. rerun' \in BOOLEAN
  <2>1. rerun' = rerun \/ rerun' = (rerun /\ ~(clean /\ day = RerunDay))
    BY DEF Exit
  <2> QED
    BY <2>1, Zenon DEF TypeOK
<1>5. Shape'
  <2>0. missed \subseteq Days /\ \A d \in missed : d < today
    BY DEF TypeOK, Shape
  <2>1. today \in Nat /\ NoDay <= today /\ \A d \in missed : d \in Nat /\ NoDay < d /\ d < today
    BY <2>0, Numbers DEF NoDay
  <2>2. pc = "today" => missed = {}
    BY DEF Shape
  <2> QED
    BY <1>2, <2>1, <2>2 DEF Shape
<1> QED
  BY <1>2, <1>3, <1>4, <1>5

\* The variables a stage of a pipeline leaves alone.
Aside == <<clock, operator, daemon, day>>

\* A stage that hands over to the next keeps the shape.
LEMMA StageKeeps ==
  ASSUME TypeOK, Shape, stage # "none", UNCHANGED Aside,
         stage' \in {"settle", "weights", "report", "record"}
  PROVE  Shape' /\ day \in Days
BY DEF Shape, TypeOK, Aside, clock, operator, daemon, NoDay

LEMMA TypeStep ==
  ASSUME TypeOK, Shape, Chained, Next
  PROVE  TypeOK' /\ Shape'
<1> USE DEF clock, operator, daemon, run, outlets
<1>r. reports \in [Days -> Seq(Edition)]
  BY ReportsTyped DEF TypeOK
<1>s. ASSUME Suffer PROVE trouble' \in 0 .. MaxTrouble
  <2>1. trouble \in 0 .. MaxTrouble /\ MaxTrouble \in Nat
    BY BoundsAssumption DEF TypeOK
  <2>2. trouble < MaxTrouble /\ trouble' = trouble + 1
    BY <1>s DEF Suffer
  <2> QED
    BY <2>1, <2>2
<1>d. Days \subseteq Nat /\ MaxDay \in Days /\ NoDay \notin Days /\ 1 \in Days
  BY BoundsAssumption DEF Days, NoDay
<1>n. today \in Nat /\ today >= 1 /\ day \in Nat /\ missed \subseteq Nat
  BY Numbers
<1>1. CASE NewDay
  <2>0. today' = today + 1 /\ today < MaxDay /\ UNCHANGED <<pc, missed, rerun, run>>
    BY <1>1 DEF NewDay
  <2>1. today' \in Days /\ today' = today + 1
    BY <1>n, <2>0, BoundsAssumption DEF Days
  <2>2. trouble' \in 0 .. MaxTrouble
    BY <1>1, <1>s DEF NewDay, TypeOK
  <2>3. excused' \subseteq Days
    BY <1>1 DEF NewDay, TypeOK
  <2>4. TypeOK'
    BY <1>1, <2>1, <2>2, <2>3 DEF NewDay, TypeOK
  <2>5. Shape'
    BY <1>n, <2>0 DEF Shape
  <2> QED
    BY <2>4, <2>5
<1>2. CASE Noon
  BY <1>2 DEF Noon, TypeOK, Shape
<1>3. ASSUME NEW d \in Days, ListBasket(d) PROVE TypeOK' /\ Shape'
  <2>1. listed' \in [Days -> Days \cup {NoDay}] /\ empty' \subseteq Days
    BY <1>3 DEF ListBasket, TypeOK
  <2> QED
    BY <1>3, <2>1 DEF ListBasket, TypeOK, Shape
<1>4. ASSUME NEW d \in Days, Freeze(d) PROVE TypeOK' /\ Shape'
  <2>1. reports' \in [Days -> Seq([says : Says, frozen : BOOLEAN])]
    BY <1>r, <1>4, FreezeKeeps, ReportsTyped
  <2> QED
    BY <1>4, <2>1 DEF Freeze, TypeOK, Shape
<1>5. CASE Wake
  <2>1. missed' \subseteq Days /\ \A d \in missed' : d < today
    BY <1>5 DEF Wake, MissedDays
  <2>2. day = NoDay
    BY <1>5 DEF Wake, Shape
  <2>3. /\ pc' = "catch up"
        /\ UNCHANGED <<clock, operator, rerun, ticked, run, record, intent, outlets, excused, trouble>>
    BY <1>5 DEF Wake
  <2>4. TypeOK'
    BY <2>1, <2>3 DEF TypeOK
  <2>5. \A d \in missed' : NoDay < d
    BY <2>1 DEF Days, NoDay
  <2>6. Shape'
    BY <1>n, <2>1, <2>2, <2>3, <2>5 DEF Shape
  <2> QED
    BY <2>4, <2>6
<1>6. CASE CatchUp
  <2>1. missed \subseteq Nat /\ missed # {} /\ missed \subseteq Days
    BY <1>6, <1>d DEF CatchUp, TypeOK
  <2>2. NextMissed \in missed /\ \A n \in missed : NextMissed <= n
    BY <2>1, MinIsFirst, Zenon DEF NextMissed
  <2>3. /\ day' = NextMissed /\ stage' = "resolve" /\ pc' = "run"
        /\ missed' = missed \ {NextMissed} /\ today' = today
    BY <1>6 DEF CatchUp, Start
  <2> HIDE DEF NextMissed
  <2>4. TypeOK'
    BY <1>6, <2>1, <2>2, <2>3 DEF CatchUp, TypeOK
  <2>5. \A n \in missed : n < today
    BY DEF Shape
  <2>6. NextMissed \in Nat /\ NextMissed # NoDay /\ NextMissed < today
    BY <1>d, <2>1, <2>2, <2>5
  <2>7. \A n \in missed \ {NextMissed} : NextMissed < n
    BY <2>1, <2>2, <2>6
  <2>8. Shape'
    BY <1>n, <2>3, <2>5, <2>6, <2>7 DEF Shape
  <2> QED
    BY <2>4, <2>8
<1>7. CASE RunToday
  <2>1. /\ day' = today /\ stage' = "resolve" /\ pc' = "today" /\ missed = {}
        /\ UNCHANGED <<clock, operator, missed, rerun, ticked, record, intent, outlets, excused, trouble>>
    BY <1>7 DEF RunToday, Start, CaughtUp
  <2>2. today \in Days /\ today # NoDay
    BY <1>d DEF TypeOK
  <2>3. TypeOK'
    BY <2>1, <2>2 DEF TypeOK
  <2>4. Shape'
    BY <1>n, <2>1, <2>2 DEF Shape
  <2> QED
    BY <2>3, <2>4
<1>8. CASE Idle
  <2>1. day = NoDay /\ missed = {}
    BY <1>8 DEF Idle, CaughtUp, Shape
  <2> QED
    BY <1>8, <1>d, <2>1 DEF Idle, TypeOK, Shape
<1>9. CASE Die
  <2>1. /\ day' = NoDay /\ stage' = "none" /\ pc' = "sleep" /\ missed' = {} /\ today' = today
    BY <1>9 DEF Die
  <2>2. excused' \subseteq Days /\ trouble' \in 0 .. MaxTrouble
    BY <1>9, <1>s DEF Die, TypeOK
  <2>3. TypeOK'
    BY <1>9, <2>2 DEF Die, TypeOK
  <2>4. Shape'
    BY <1>n, <2>1 DEF Shape, NoDay
  <2> QED
    BY <2>3, <2>4
<1>10. CASE Resolve
  <2>1. Shape'
    BY <1>10, StageKeeps DEF Resolve, Aside
  <2> QED
    BY <1>10, <2>1 DEF Resolve, TypeOK
<1>11. CASE ResolveFails
  <2>1. trouble' \in 0 .. MaxTrouble
    BY <1>11, <1>s DEF ResolveFails, TypeOK
  <2>2. /\ pc' \in {"sleep", "catch up"} /\ missed' = missed /\ rerun' \in BOOLEAN
        /\ ticked' \in BOOLEAN /\ day' = NoDay /\ stage' = "none" /\ Shape'
    BY <1>11, ExitKeeps DEF ResolveFails
  <2>3. day \in Days
    BY <1>11 DEF ResolveFails, Shape, TypeOK
  <2> QED
    BY <1>11, <2>1, <2>2, <2>3 DEF ResolveFails, TypeOK
<1>12. CASE EmptyBasket \/ WriteRunRecord
  <2>1. /\ stage # "none" /\ Exit(TRUE) /\ record' = record \cup {day}
        /\ UNCHANGED <<clock, operator, intent, outlets, excused, trouble>>
    BY <1>12 DEF EmptyBasket, WriteRunRecord
  <2>2. /\ pc' \in {"sleep", "catch up"} /\ missed' = missed /\ rerun' \in BOOLEAN
        /\ ticked' \in BOOLEAN /\ day' = NoDay /\ stage' = "none" /\ Shape'
    BY <2>1, ExitKeeps
  <2>3. day \in Days
    BY <2>1 DEF Shape, TypeOK
  <2> QED
    BY <2>1, <2>2, <2>3 DEF TypeOK
<1>13. CASE Settle
  <2>1. Shape' /\ day \in Days
    BY <1>13, StageKeeps DEF Settle, Aside
  <2>2. intent' \in [Days -> [pays : BOOLEAN, edition : Editions]]
    <3>1. PICK pays \in BOOLEAN :
            intent' = [intent EXCEPT ![day] = [pays |-> pays, edition |-> @.edition + 1]]
      BY <1>13 DEF Settle
    <3>2. intent \in [Days -> [pays : BOOLEAN, edition : Nat]]
      BY DEF TypeOK, Editions
    <3>3. intent[day].edition + 1 \in Nat
      BY <2>1, <3>2
    <3>4. [pays |-> pays, edition |-> intent[day].edition + 1] \in [pays : BOOLEAN, edition : Nat]
      BY <3>3
    <3> QED
      BY <3>1, <3>2, <3>4 DEF Editions
  <2> QED
    BY <1>13, <2>1, <2>2 DEF Settle, TypeOK
<1>14. CASE SettleFails
  <2>1. Shape'
    BY <1>14, StageKeeps DEF SettleFails, Aside
  <2> QED
    BY <1>14, <1>s, <2>1 DEF SettleFails, TypeOK
<1>15. CASE PublishWeights
  <2>1. Shape' /\ day \in Days
    BY <1>15, StageKeeps DEF PublishWeights, Aside
  <2>2. posted' \in [Days -> Editions]
    BY <1>15, <2>1 DEF PublishWeights, TypeOK
  <2> QED
    BY <1>15, <2>1, <2>2 DEF PublishWeights, TypeOK
<1>16. CASE PublishWeightsFails
  <2>1. Shape'
    BY <1>16, StageKeeps DEF PublishWeightsFails, Aside
  <2> QED
    BY <1>16, <1>s, <2>1 DEF PublishWeightsFails, TypeOK
<1>17. CASE PublishReport
  <2>1. Shape' /\ day \in Days
    BY <1>17, StageKeeps DEF PublishReport, Aside
  <2>2. LiveAllocation(day) \in Says
    BY <2>1, LiveAllocationSays DEF TypeOK
  <2>3. reports' \in [Days -> Seq([says : Says, frozen : BOOLEAN])]
    <3>1. CASE Slots(day) = {}
      BY <1>17, <3>1 DEF PublishReport, TypeOK
    <3>2. CASE Slots(day) # {}
      BY <1>17, <1>r, <2>1, <2>2, <3>2, ReportIsLast, ReportsTyped DEF PublishReport
    <3> QED
      BY <3>1, <3>2
  <2>4. told' \in [Days -> Says]
    BY <1>17, <2>2 DEF PublishReport, TypeOK
  <2> QED
    BY <1>17, <2>1, <2>3, <2>4 DEF PublishReport, TypeOK
<1>18. CASE NoReport
  <2>1. Shape'
    BY <1>18, StageKeeps DEF NoReport, Aside
  <2>2. trouble' \in 0 .. MaxTrouble
    BY <1>18, <1>s DEF NoReport, TypeOK
  <2> QED
    BY <1>18, <2>1, <2>2 DEF NoReport, TypeOK
<1> QED
  BY <1>1, <1>2, <1>3, <1>4, <1>5, <1>6, <1>7, <1>8, <1>9, <1>10, <1>11, <1>12, <1>13,
     <1>14, <1>15, <1>16, <1>17, <1>18 DEF Next, Daemon, Stage

-----------------------------------------------------------------------------
(* What the CMS shows *)

\* The steps that leave the CMS as it is.
LEMMA CmsSteps ==
  ASSUME Next
  PROVE  \/ \E d \in Days : Freeze(d)
         \/ PublishReport
         \/ UNCHANGED <<reports, told>>
BY DEF Next, Daemon, Stage, NewDay, Noon, ListBasket, Wake, CatchUp, RunToday, Idle, Die,
       Resolve, ResolveFails, EmptyBasket, Settle, SettleFails, PublishWeights,
       PublishWeightsFails, NoReport, WriteRunRecord, outlets

\* The chain grows at its end, and its end is what was told last.
LEMMA ChainStep ==
  ASSUME TypeOK, Shape, Chained, CanonicalIsLatest, Next
  PROVE  Chained' /\ CanonicalIsLatest'
<1>r. reports \in [Days -> Seq(Edition)]
  BY ReportsTyped DEF TypeOK
<1>l. \A e \in Days : Len(reports[e]) \in Nat /\ (reports[e] # <<>> => Len(reports[e]) > 0)
  <2> SUFFICES ASSUME NEW e \in Days
               PROVE  Len(reports[e]) \in Nat /\ (reports[e] # <<>> => Len(reports[e]) > 0)
    OBVIOUS
  <2>1. reports[e] \in Seq(Edition)
    BY <1>r
  <2> QED
    BY <2>1
<1>1. ASSUME NEW d \in Days, Freeze(d) PROVE Chained' /\ CanonicalIsLatest'
  <2>1. /\ \A e \in Days \ {d} : reports'[e] = reports[e]
        /\ Len(reports'[d]) = Len(reports[d])
        /\ \A i \in 1 .. Len(reports[d]) :
             /\ reports'[d][i].says = reports[d][i].says
             /\ reports'[d][i].frozen <=> (reports[d][i].frozen \/ i = Len(reports[d]))
    BY <1>r, <1>1, FreezeKeeps
  <2>2. reports[d] # <<>> /\ told' = told /\ ~ reports[d][Len(reports[d])].frozen
    BY <1>1 DEF Freeze
  <2>3. Len(reports[d]) \in Nat /\ Len(reports[d]) \in 1 .. Len(reports[d])
    BY <1>l, <2>2
  <2>4. Chained'
    <3> SUFFICES ASSUME NEW e \in Days
                 PROVE  /\ Len(reports'[e]) <= MaxCorrections + 1
                        /\ \A i \in 1 .. Len(reports'[e]) :
                             i < Len(reports'[e]) => reports'[e][i].frozen
      BY DEF Chained
    <3>1. CASE e = d
      BY <2>1, <2>3, <3>1 DEF Chained
    <3>2. CASE e # d
      BY <2>1, <3>2 DEF Chained
    <3> QED
      BY <3>1, <3>2
  <2>5. CanonicalIsLatest'
    <3> SUFFICES ASSUME NEW e \in Days, reports'[e] # <<>>,
                        ~(Len(reports'[e]) = MaxCorrections + 1
                          /\ reports'[e][Len(reports'[e])].frozen)
                 PROVE  reports'[e][Len(reports'[e])].says = told'[e]
      BY DEF CanonicalIsLatest
    <3>1. CASE e = d
      <4>1. reports[d][Len(reports[d])].says = told[d]
        BY <2>2 DEF CanonicalIsLatest
      <4> QED
        BY <2>1, <2>2, <2>3, <3>1, <4>1
    <3>2. CASE e # d
      BY <2>1, <2>2, <3>2 DEF CanonicalIsLatest
    <3> QED
      BY <3>1, <3>2
  <2> QED
    BY <2>4, <2>5
<1>2. CASE PublishReport
  <2> DEFINE says == LiveAllocation(day)
  <2>1. day \in Days
    BY <1>2 DEF PublishReport, Shape, TypeOK
  <2>2. says \in Says
    BY <2>1, LiveAllocationSays DEF TypeOK
  <2>3. told' = [told EXCEPT ![day] = says] /\ told \in [Days -> Says]
    BY <1>2 DEF PublishReport, TypeOK
  <2> HIDE DEF says
  <2>4. CASE Slots(day) # {}
    <3>1. Report(day, says)
      BY <1>2, <2>4 DEF PublishReport, says
    <3>2. /\ \A e \in Days \ {day} : reports'[e] = reports[e]
          /\ Len(reports'[day]) \in 1 .. (MaxCorrections + 1)
          /\ reports'[day][Len(reports'[day])].says = says
          /\ \A i \in 1 .. Len(reports'[day]) :
               i < Len(reports'[day]) => reports'[day][i].frozen
      BY <1>r, <2>1, <2>2, <2>4, <3>1, ReportIsLast
    <3>3. Chained'
      <4> SUFFICES ASSUME NEW e \in Days
                   PROVE  /\ Len(reports'[e]) <= MaxCorrections + 1
                          /\ \A i \in 1 .. Len(reports'[e]) :
                               i < Len(reports'[e]) => reports'[e][i].frozen
        BY DEF Chained
      <4>1. CASE e = day
        BY <3>2, <4>1, BoundsAssumption
      <4>2. CASE e # day
        BY <3>2, <4>2 DEF Chained
      <4> QED
        BY <4>1, <4>2
    <3>4. CanonicalIsLatest'
      <4> SUFFICES ASSUME NEW e \in Days, reports'[e] # <<>>,
                          ~(Len(reports'[e]) = MaxCorrections + 1
                            /\ reports'[e][Len(reports'[e])].frozen)
                   PROVE  reports'[e][Len(reports'[e])].says = told'[e]
        BY DEF CanonicalIsLatest
      <4>1. CASE e = day
        BY <2>1, <2>3, <3>2, <4>1
      <4>2. CASE e # day
        BY <2>3, <3>2, <4>2 DEF CanonicalIsLatest
      <4> QED
        BY <4>1, <4>2
    <3> QED
      BY <3>3, <3>4
  <2>5. CASE Slots(day) = {}
    <3>1. reports' = reports
      BY <1>2, <2>5 DEF PublishReport
    <3>2. Len(reports[day]) = MaxCorrections + 1 /\ reports[day][Len(reports[day])].frozen
      <4>1. MaxCorrections + 1 \in 1 .. (MaxCorrections + 1)
        BY BoundsAssumption
      <4>2. ~ (MaxCorrections + 1 > Len(reports[day])) /\ reports[day][MaxCorrections + 1].frozen
        BY <2>5, <4>1 DEF Slots
      <4>3. Len(reports[day]) <= MaxCorrections + 1 /\ Len(reports[day]) \in Nat
        BY <1>l, <2>1 DEF Chained
      <4> QED
        BY <4>2, <4>3, BoundsAssumption
    <3>3. CanonicalIsLatest'
      <4> SUFFICES ASSUME NEW e \in Days, reports[e] # <<>>,
                          ~(Len(reports[e]) = MaxCorrections + 1
                            /\ reports[e][Len(reports[e])].frozen)
                   PROVE  reports[e][Len(reports[e])].says = told'[e]
        BY <3>1 DEF CanonicalIsLatest
      <4>1. e # day
        BY <3>2
      <4> QED
        BY <2>3, <4>1 DEF CanonicalIsLatest
    <3> QED
      BY <3>1, <3>3 DEF Chained
  <2> QED
    BY <2>4, <2>5
<1>3. CASE UNCHANGED <<reports, told>>
  BY <1>3 DEF Chained, CanonicalIsLatest
<1> QED
  BY <1>1, <1>2, <1>3, CmsSteps

\* The invariant all theorems share.
Inv == TypeOK /\ Shape /\ Chained /\ CanonicalIsLatest

LEMMA InvHolds == Spec => []Inv
<1>1. Init => Inv
  <2> SUFFICES ASSUME Init PROVE Inv
    OBVIOUS
  <2>1. 1 \in Days /\ NoDay \notin Days /\ \A d \in Days : d \in Nat
    BY BoundsAssumption DEF Days, NoDay
  <2>2. <<>> \in Seq([says : Says, frozen : BOOLEAN]) /\ Nobody \in Says
    BY DEF Says, Nobody, Editions
  <2>3. NoIntent \in [pays : BOOLEAN, edition : Editions] /\ 0 \in Editions
    BY DEF NoIntent, Editions
  <2>4. 0 \in 0 .. MaxTrouble
    BY BoundsAssumption
  <2>5. TypeOK
    BY <2>1, <2>2, <2>3, <2>4 DEF Init, TypeOK
  <2>6. Shape
    BY DEF Init, Shape, NoDay
  <2>7. Chained /\ CanonicalIsLatest
    BY BoundsAssumption DEF Init, Chained, CanonicalIsLatest
  <2> QED
    BY <2>5, <2>6, <2>7 DEF Inv
<1>2. Inv /\ [Next]_vars => Inv'
  <2> SUFFICES ASSUME Inv, [Next]_vars PROVE Inv'
    OBVIOUS
  <2>1. CASE Next
    BY <2>1, TypeStep, ChainStep DEF Inv
  <2>2. CASE UNCHANGED vars
    BY <2>2 DEF Inv, TypeOK, Shape, Chained, CanonicalIsLatest, vars, clock, operator,
                daemon, run, outlets
  <2> QED
    BY <2>1, <2>2
<1> QED
  BY <1>1, <1>2, PTL DEF Spec

\* Every reachable state is well typed, for any calendar, window and bounds:
\* what a report speaks of is always a day and an edition there was.
THEOREM TypeCorrect == Spec => []TypeOK
<1>1. Inv => TypeOK
  BY DEF Inv
<1> QED
  BY <1>1, InvHolds, PTL

\* However often a day is run again and its editions freeze, the last one on the
\* CMS is what the last run told it, for any number of corrections
\* (post_with_correction).
THEOREM CanonicalStays == Spec => []CanonicalIsLatest
<1>1. Inv => CanonicalIsLatest
  BY DEF Inv
<1> QED
  BY <1>1, InvHolds, PTL

-----------------------------------------------------------------------------
(* The order in which vectors go out *)

\* A day that is owed a run: within the window, with no record and no turn that
\* came to nothing.
Pending(d) ==
  /\ d >= CatchupFrom /\ today - d <= CatchupDays
  /\ d \notin record \cup excused

\* Nothing is posted for a day to come.
Ahead == \A e \in Days : posted[e] # 0 => e <= today

\* No day owed a run lies behind a day that was posted.
Behind == \A d, e \in Days : d < e /\ posted[e] # 0 => ~Pending(d)

\* In a pass, the days owed a run are those it has yet to start and the one it
\* runs; today's own run has none behind it.
Turns ==
  /\ pc \in {"catch up", "run"} =>
       \A d \in Days : d < today /\ Pending(d) => d \in missed \cup {day}
  /\ pc = "today" => \A d \in Days : d < day => ~Pending(d)

\* Nothing later than a day the pass runs or will run has been posted.
Clear ==
  \A d \in Days : d \in missed \cup {day} /\ d \notin excused
    => \A e \in Days : e > d => posted[e] = 0

Order == Ahead /\ Behind /\ Turns /\ Clear

\* Steps that post nothing and start no run: days owed a run can only become
\* fewer, but for the day midnight ends.
LEMMA OrderKeeps ==
  ASSUME TypeOK, Shape, Order, posted' = posted, today' = today,
         record \subseteq record', excused \subseteq excused',
         UNCHANGED <<pc, missed, day>>
  PROVE  Order'
<1>1. \A d \in Days : Pending(d)' => Pending(d)
  BY DEF Pending
<1>2. Ahead'
  BY DEF Order, Ahead
<1>3. Behind'
  BY <1>1 DEF Order, Behind
<1>4. Turns'
  BY <1>1 DEF Order, Turns
<1>5. Clear'
  BY DEF Order, Clear
<1> QED
  BY <1>2, <1>3, <1>4, <1>5 DEF Order

\* The end of a run leaves its day with a record or an excuse.
LEMMA OrderAfterRun ==
  ASSUME TypeOK, Shape, Order, posted' = posted, today' = today,
         record \subseteq record', excused \subseteq excused',
         day \in record' \cup excused',
         stage # "none", NEW clean \in BOOLEAN, Exit(clean)
  PROVE  Order'
<1>0. /\ pc \in {"run", "today"} /\ missed' = missed /\ day' = NoDay
      /\ pc' = "catch up" => pc = "run"
      /\ pc' \in {"sleep", "catch up"}
      /\ pc' = "sleep" => missed = {}
  BY DEF Shape, TypeOK, Exit
<1>1. \A d \in Days : Pending(d)' => Pending(d) /\ d # day
  BY DEF Pending
<1>2. NoDay \notin Days
  BY DEF Days, NoDay
<1>3. Ahead'
  BY DEF Order, Ahead
<1>4. Behind'
  BY <1>1 DEF Order, Behind
<1>5. Turns'
  <2>1. ASSUME pc' = "catch up", NEW d \in Days, d < today, Pending(d)'
        PROVE  d \in missed
    BY <1>0, <1>1, <2>1 DEF Order, Turns
  <2> QED
    BY <1>0, <2>1 DEF Turns
<1>6. Clear'
  BY <1>0, <1>2 DEF Order, Clear
<1> QED
  BY <1>3, <1>4, <1>5, <1>6 DEF Order

\* A vector goes out in its turn: what lies behind it is settled, and what the
\* pass has yet to run lies ahead of it.
LEMMA OrderAfterPost ==
  ASSUME TypeOK, Shape, Order, PublishWeights
  PROVE  Order'
<1>0. /\ day \in Days /\ pc \in {"run", "today"}
      /\ UNCHANGED <<today, pc, missed, day, record, excused>>
      /\ \A e \in Days \ {day} : posted'[e] = posted[e]
  BY DEF PublishWeights, Shape, TypeOK, clock, daemon
<1>1. \A d \in Days : d \in Nat
  BY Numbers
<1>2. today \in Nat /\ day <= today /\ \A d \in missed : day < d
  BY Numbers DEF Shape
<1>3. \A d \in Days : Pending(d)' <=> Pending(d)
  BY <1>0 DEF Pending
<1>4. ASSUME NEW d \in Days, d < day PROVE ~Pending(d)
  <2>1. CASE pc = "run"
    <3>1. day < today
      BY <2>1 DEF Shape
    <3>2. d < today
      BY <1>0, <1>1, <1>2, <1>4, <3>1
    <3>3. d \notin missed \cup {day}
      BY <1>0, <1>1, <1>2, <1>4
    <3> QED
      BY <2>1, <3>2, <3>3 DEF Order, Turns
  <2>2. CASE pc = "today"
    BY <1>4, <2>2 DEF Order, Turns
  <2> QED
    BY <1>0, <2>1, <2>2
<1>5. Ahead'
  BY <1>0, <1>2 DEF Order, Ahead
<1>6. Behind'
  <2> SUFFICES ASSUME NEW d \in Days, NEW e \in Days, d < e, posted'[e] # 0
               PROVE  ~Pending(d)
    BY <1>3 DEF Behind
  <2>1. CASE e = day
    BY <1>4, <2>1
  <2>2. CASE e # day
    BY <1>0, <2>2 DEF Order, Behind
  <2> QED
    BY <2>1, <2>2
<1>7. Turns'
  BY <1>0, <1>3 DEF Order, Turns
<1>8. Clear'
  <2> SUFFICES ASSUME NEW d \in Days, d \in missed \cup {day}, d \notin excused,
                      NEW e \in Days, e > d
               PROVE  posted'[e] = 0
    BY <1>0 DEF Clear
  <2>1. e # day
    BY <1>0, <1>1, <1>2
  <2>2. posted[e] = 0
    BY DEF Order, Clear
  <2> QED
    BY <1>0, <2>1, <2>2
<1> QED
  BY <1>5, <1>6, <1>7, <1>8 DEF Order

\* Midnight: the day that ends is today's no longer, and in a pass over missed
\* days it has had its turn.
LEMMA OrderAfterMidnight ==
  ASSUME TypeOK, Shape, Order, NewDay
  PROVE  Order'
<1>0. /\ today' = today + 1 /\ UNCHANGED <<pc, missed, day, record, posted>>
      /\ excused \subseteq excused'
      /\ pc \in {"catch up", "run"} => today \in excused'
  BY DEF NewDay, outlets, run
<1>1. today \in Nat /\ day \in Nat /\ \A d \in Days : d \in Nat
  BY Numbers
<1>2. \A d \in Days : Pending(d)' => Pending(d)
  <2> SUFFICES ASSUME NEW d \in Days, Pending(d)' PROVE Pending(d)
    OBVIOUS
  <2>0. today' - d <= CatchupDays /\ today' = today + 1
    BY <1>0 DEF Pending
  <2>1. d \in Nat /\ CatchupDays \in Nat /\ today + 1 - d <= CatchupDays
    BY <1>1, <2>0, BoundsAssumption
  <2>2. today - d <= CatchupDays
    BY <1>1, <2>1
  <2> QED
    BY <1>0, <2>2 DEF Pending
<1>3. Ahead'
  <2> SUFFICES ASSUME NEW e \in Days, posted[e] # 0 PROVE e <= today + 1
    BY <1>0 DEF Ahead
  <2>1. e <= today /\ e \in Nat
    BY <1>1 DEF Order, Ahead
  <2> QED
    BY <1>1, <2>1
<1>4. Behind'
  BY <1>0, <1>2 DEF Order, Behind
<1>5. Turns'
  <2>1. ASSUME pc \in {"catch up", "run"}, NEW d \in Days, d < today', Pending(d)'
        PROVE  d \in missed \cup {day}
    <3>1. d # today
      BY <1>0, <2>1 DEF Pending
    <3>2. d < today
      <4>1. d \in Nat /\ d < today + 1
        BY <1>0, <1>1, <2>1
      <4> QED
        BY <1>1, <3>1, <4>1
    <3> QED
      BY <1>2, <2>1, <3>2 DEF Order, Turns
  <2>2. ASSUME pc = "today", NEW d \in Days, d < day PROVE ~Pending(d)'
    BY <1>2, <2>2 DEF Order, Turns
  <2> QED
    BY <1>0, <2>1, <2>2 DEF Turns
<1>6. Clear'
  BY <1>0 DEF Order, Clear
<1> QED
  BY <1>3, <1>4, <1>5, <1>6 DEF Order

LEMMA OrderStep ==
  ASSUME TypeOK, Shape, Order, Next
  PROVE  Order'
<1> USE DEF clock, operator, daemon, run, outlets
<1>n. /\ today \in Nat /\ today >= 1 /\ day \in Nat
      /\ \A d \in Days : d \in Nat /\ NoDay < d
      /\ NoDay \notin Days
  BY Numbers DEF Days, NoDay
<1>1. CASE NewDay
  BY <1>1, OrderAfterMidnight
<1>2. CASE Noon \/ (\E d \in Days : ListBasket(d) \/ Freeze(d))
  BY <1>2, OrderKeeps DEF Noon, ListBasket, Freeze
<1>3. CASE Wake
  <2>1. /\ pc' = "catch up" /\ missed' = MissedDays
        /\ UNCHANGED <<today, day, record, excused, posted>>
    BY <1>3 DEF Wake
  <2>2. day = NoDay
    BY <1>3 DEF Wake, Shape
  <2>3. \A d \in Days : Pending(d)' <=> Pending(d)
    BY <2>1 DEF Pending
  <2>4. \A d \in Days : d < today /\ Pending(d) => d \in MissedDays
    BY DEF Pending, MissedDays
  <2>5. \A d \in MissedDays : d \notin excused => Pending(d)
    BY DEF Pending, MissedDays
  <2>6. Turns'
    BY <2>1, <2>3, <2>4 DEF Turns
  <2>7. Clear'
    <3> SUFFICES ASSUME NEW d \in MissedDays, d \notin excused, NEW e \in Days, e > d
                 PROVE  posted[e] = 0
      BY <1>n, <2>1, <2>2 DEF Clear
    <3>1. d \in Days /\ Pending(d) /\ d \in Nat /\ e \in Nat
      BY <1>n, <2>5 DEF MissedDays
    <3>2. d < e
      BY <3>1
    <3> QED
      BY <3>1, <3>2 DEF Order, Behind
  <2>8. Ahead' /\ Behind'
    BY <2>1, <2>3 DEF Order, Ahead, Behind
  <2> QED
    BY <2>6, <2>7, <2>8 DEF Order
<1>4. CASE CatchUp
  <2>1. missed \subseteq Nat /\ missed # {} /\ missed \subseteq Days
    BY <1>4, Numbers DEF CatchUp, TypeOK
  <2>2. NextMissed \in missed
    BY <2>1, MinIsFirst, Zenon DEF NextMissed
  <2>3. /\ day' = NextMissed /\ pc' = "run" /\ missed' = missed \ {NextMissed}
        /\ UNCHANGED <<today, record, excused, posted>> /\ pc = "catch up"
    BY <1>4 DEF CatchUp, Start
  <2> HIDE DEF NextMissed
  <2>4. day = NoDay
    BY <2>3 DEF Shape
  <2>5. \A d \in Days : Pending(d)' <=> Pending(d)
    BY <2>3 DEF Pending
  <2>6. \A d \in Days : d \in missed' \cup {day'} <=> d \in missed \cup {day}
    BY <1>n, <2>2, <2>3, <2>4
  <2>7. Turns'
    BY <2>3, <2>5, <2>6 DEF Order, Turns
  <2>8. Clear'
    BY <2>3, <2>6 DEF Order, Clear
  <2>9. Ahead' /\ Behind'
    BY <2>3, <2>5 DEF Order, Ahead, Behind
  <2> QED
    BY <2>7, <2>8, <2>9 DEF Order
<1>5. CASE RunToday
  <2>1. /\ day' = today /\ pc' = "today" /\ missed = {} /\ pc = "catch up" /\ missed' = missed
        /\ UNCHANGED <<today, record, excused, posted>>
    BY <1>5 DEF RunToday, Start, CaughtUp
  <2>2. day = NoDay
    BY <2>1 DEF Shape
  <2>3. \A d \in Days : Pending(d)' <=> Pending(d)
    BY <2>1 DEF Pending
  <2>4. \A d \in Days : d < today => ~Pending(d)
    BY <1>n, <2>1, <2>2 DEF Order, Turns
  <2>5. Turns'
    BY <2>1, <2>3, <2>4 DEF Turns
  <2>6. Clear'
    <3> SUFFICES ASSUME NEW e \in Days, e > today PROVE posted[e] = 0
      BY <2>1 DEF Clear
    <3>1. ~ (e <= today)
      BY <1>n
    <3> QED
      BY <3>1 DEF Order, Ahead
  <2>7. Ahead' /\ Behind'
    BY <2>1, <2>3 DEF Order, Ahead, Behind
  <2> QED
    BY <2>5, <2>6, <2>7 DEF Order
<1>6. CASE Idle \/ Die
  <2>1. /\ pc' = "sleep" /\ missed' = {} /\ day' = NoDay
        /\ UNCHANGED <<today, record, posted>> /\ excused \subseteq excused'
    <3>1. CASE Idle
      BY <3>1 DEF Idle, CaughtUp, Shape
    <3>2. CASE Die
      BY <3>2 DEF Die
    <3> QED
      BY <1>6, <3>1, <3>2
  <2>2. \A d \in Days : Pending(d)' => Pending(d)
    BY <2>1 DEF Pending
  <2>3. Ahead' /\ Behind'
    BY <2>1, <2>2 DEF Order, Ahead, Behind
  <2>4. Turns' /\ Clear'
    BY <1>n, <2>1 DEF Turns, Clear
  <2> QED
    BY <2>3, <2>4 DEF Order
<1>7. CASE ResolveFails
  <2>1. /\ Exit(FALSE) /\ stage # "none" /\ UNCHANGED <<today, record, posted>>
        /\ excused' = excused \cup ({day} \ record)
    BY <1>7 DEF ResolveFails
  <2>2. excused \subseteq excused' /\ day \in record' \cup excused' /\ record \subseteq record'
    BY <2>1
  <2> QED
    BY <2>1, <2>2, OrderAfterRun
<1>8. CASE EmptyBasket \/ WriteRunRecord
  <2>1. /\ Exit(TRUE) /\ stage # "none" /\ UNCHANGED <<today, excused, posted>>
        /\ record' = record \cup {day}
    BY <1>8 DEF EmptyBasket, WriteRunRecord
  <2> QED
    BY <2>1, OrderAfterRun
<1>9. CASE Resolve \/ Settle \/ SettleFails \/ PublishWeightsFails \/ PublishReport \/ NoReport
  <2>1. UNCHANGED <<today, posted, record, excused, pc, missed, day>>
    BY <1>9 DEF Resolve, Settle, SettleFails, PublishWeightsFails, PublishReport, NoReport
  <2> QED
    BY <2>1, OrderKeeps
<1>10. CASE PublishWeights
  BY <1>10, OrderAfterPost
<1> QED
  BY <1>1, <1>2, <1>3, <1>4, <1>5, <1>6, <1>7, <1>8, <1>9, <1>10 DEF Next, Daemon, Stage

\* A step that posts a vector posts that of the pipeline's day, and when a later
\* day has been posted the day has an excuse.
LEMMA PostsInOrder ==
  ASSUME TypeOK, Shape, Order, Next, NEW d \in Days, posted'[d] # posted[d],
         NEW e \in Days, e > d, posted[e] # 0
  PROVE  d \in excused
<1>1. PublishWeights
  BY DEF Next, Daemon, Stage, NewDay, Noon, ListBasket, Freeze, Wake, CatchUp, RunToday, Idle,
         Die, Resolve, ResolveFails, EmptyBasket, Settle, SettleFails, PublishWeightsFails,
         PublishReport, NoReport, WriteRunRecord, outlets
<1>2. d = day
  BY <1>1 DEF PublishWeights, TypeOK
<1> QED
  BY <1>2 DEF Order, Clear

\* Vectors go out in the order of their days: one is posted after that of a later
\* day only if its own turn had come before and left no record, for any calendar,
\* window, reruns, deaths and midnights (catch_up, main of executor_daemon).
THEOREM DaysInOrder == Spec => InDayOrder
<1> DEFINE Step == \A d \in Days :
                     posted'[d] # posted[d] /\ (\E e \in Days : e > d /\ posted[e] # 0)
                       => d \in excused
<1>1. Init => Order
  <2> SUFFICES ASSUME Init PROVE Order
    OBVIOUS
  <2>1. \A d \in Days : posted[d] = 0
    BY DEF Init
  <2> QED
    BY <2>1 DEF Init, Order, Ahead, Behind, Turns, Clear
<1>2. Inv /\ Order /\ [Next]_vars => Order'
  <2> SUFFICES ASSUME Inv, Order, [Next]_vars PROVE Order'
    OBVIOUS
  <2>1. CASE Next
    BY <2>1, OrderStep DEF Inv
  <2>2. CASE UNCHANGED vars
    BY <2>2, OrderKeeps DEF Inv, vars, clock, daemon, run, outlets
  <2> QED
    BY <2>1, <2>2
<1>3. Inv /\ Order /\ [Next]_vars => [Step]_vars
  <2> SUFFICES ASSUME Inv, Order, Next PROVE Step
    OBVIOUS
  <2> SUFFICES ASSUME NEW d \in Days, posted'[d] # posted[d],
                      NEW e \in Days, e > d, posted[e] # 0
               PROVE  d \in excused
    OBVIOUS
  <2> QED
    BY PostsInOrder DEF Inv
<1> QED
  BY <1>1, <1>2, <1>3, InvHolds, PTL DEF Spec, InDayOrder

-----------------------------------------------------------------------------
(* What a report says and what validators read *)

\* Until something fails, a vector that pays is on the operator API in its latest
\* edition, bar the one a pipeline has written and is about to post.
Carried ==
  trouble = 0 =>
    \A e \in Days : intent[e].pays =>
      /\ intent[e].edition >= 1
      /\ posted[e] = intent[e].edition \/ (e = day /\ stage = "weights")

\* Trouble is never forgotten.
LEMMA TroubleStays ==
  ASSUME TypeOK, Next, trouble' = 0
  PROVE  trouble = 0 /\ ~Suffer
<1>1. trouble \in Nat
  <2>1. trouble \in 0 .. MaxTrouble /\ MaxTrouble \in Nat
    BY BoundsAssumption DEF TypeOK
  <2> QED
    BY <2>1
<1>2. ~Suffer
  BY <1>1 DEF Suffer
<1>3. trouble' = trouble \/ Suffer
  BY DEF Next, Daemon, Stage, NewDay, Noon, ListBasket, Freeze, Wake, CatchUp, RunToday, Idle,
         Die, Resolve, ResolveFails, EmptyBasket, Settle, SettleFails, PublishWeights,
         PublishWeightsFails, PublishReport, NoReport, WriteRunRecord
<1> QED
  BY <1>2, <1>3

LEMMA CarriedStep ==
  ASSUME TypeOK, Shape, Carried, Next
  PROVE  Carried'
<1> SUFFICES ASSUME trouble' = 0
             PROVE  \A e \in Days : intent'[e].pays =>
                      /\ intent'[e].edition >= 1
                      /\ posted'[e] = intent'[e].edition \/ (e = day' /\ stage' = "weights")
  BY DEF Carried
<1> USE DEF clock, operator, daemon, run, outlets
<1>1. trouble = 0 /\ ~Suffer
  BY TroubleStays
<1>2. \A e \in Days : intent[e].pays =>
        /\ intent[e].edition >= 1
        /\ posted[e] = intent[e].edition \/ (e = day /\ stage = "weights")
  BY <1>1 DEF Carried
<1>3. CASE UNCHANGED <<intent, posted>> /\ stage # "weights"
  BY <1>2, <1>3
<1>4. CASE UNCHANGED <<intent, posted, day, stage>>
  BY <1>2, <1>4
<1>5. CASE Settle
  <2>1. /\ stage = "settle" /\ stage' = "weights" /\ day' = day /\ posted' = posted
        /\ \E pays \in BOOLEAN :
             intent' = [intent EXCEPT ![day] = [pays |-> pays, edition |-> @.edition + 1]]
    BY <1>5 DEF Settle
  <2>2. day \in Days
    BY <2>1 DEF Shape, TypeOK
  <2>3. intent[day].edition \in Nat
    BY <2>2 DEF TypeOK, Editions
  <2>4. intent'[day].edition = intent[day].edition + 1
    <3>1. PICK pays \in BOOLEAN :
            intent' = [intent EXCEPT ![day] = [pays |-> pays, edition |-> @.edition + 1]]
      BY <2>1
    <3>2. intent'[day] = [pays |-> pays, edition |-> intent[day].edition + 1]
      BY <2>2, <3>1 DEF TypeOK
    <3> QED
      BY <3>2
  <2>5. \A e \in Days : e # day => intent'[e] = intent[e]
    BY <2>1 DEF TypeOK
  <2> QED
    BY <1>2, <2>1, <2>3, <2>4, <2>5
<1>6. CASE PublishWeights
  <2>1. /\ stage = "weights" /\ stage' = "report" /\ UNCHANGED <<day, intent>>
        /\ posted' = IF intent[day].pays THEN [posted EXCEPT ![day] = intent[day].edition]
                     ELSE posted
    BY <1>6 DEF PublishWeights
  <2>2. \A e \in Days : posted'[e] = IF e = day /\ intent[day].pays
                                     THEN intent[day].edition ELSE posted[e]
    BY <2>1 DEF TypeOK
  <2> QED
    BY <1>2, <2>1, <2>2
<1>7. CASE NewDay \/ Noon \/ \E d \in Days : ListBasket(d) \/ Freeze(d)
  BY <1>4, <1>7 DEF NewDay, Noon, ListBasket, Freeze
<1>8. CASE Wake \/ CatchUp \/ RunToday \/ Idle
  <2>1. pc \in {"sleep", "catch up"} /\ UNCHANGED <<intent, posted>>
    BY <1>8 DEF Wake, CatchUp, RunToday, Idle
  <2>2. stage # "weights"
    BY <2>1 DEF Shape
  <2> QED
    BY <1>3, <2>1, <2>2
<1>9. CASE Resolve \/ ResolveFails \/ EmptyBasket \/ PublishReport \/ NoReport \/ WriteRunRecord
  BY <1>3, <1>9 DEF Resolve, ResolveFails, EmptyBasket, PublishReport, NoReport, WriteRunRecord
<1>10. ~(Die \/ SettleFails \/ PublishWeightsFails)
  BY <1>1 DEF Die, SettleFails, PublishWeightsFails
<1> QED
  BY <1>5, <1>6, <1>7, <1>8, <1>9, <1>10 DEF Next, Daemon, Stage

\* What the report of the pipeline's day says, when nothing has failed and no
\* vector that was posted has been held since.
LEMMA ReportSpeaksOfServed ==
  ASSUME TypeOK, Carried, trouble = 0, stage = "report", NEW d \in Days,
         \A e \in 1 .. d : posted[e] # 0 => intent[e].pays
  PROVE  LET served == {e \in 1 .. d : posted[e] # 0}
         IN  LiveAllocation(d) = IF served = {} THEN Nobody
                                 ELSE [day |-> Max(served), edition |-> posted[Max(served)]]
<1> DEFINE served == {e \in 1 .. d : posted[e] # 0}
           paying == {e \in Days : e <= d /\ intent[e].pays}
<1>1. /\ d \in Nat /\ \A e : e \in 1 .. d <=> e \in Days /\ e <= d
      /\ \A e \in Days : posted[e] \in Nat /\ e \in Nat
  <2>1. MaxDay \in Nat /\ d \in 1 .. MaxDay
    BY BoundsAssumption DEF Days
  <2>2. \A e : e \in 1 .. d <=> e \in 1 .. MaxDay /\ e <= d
    BY <2>1
  <2>3. \A e \in Days : posted[e] \in Nat
    BY DEF TypeOK, Editions
  <2> QED
    BY <2>1, <2>2, <2>3 DEF Days
<1>2. \A e \in paying : posted[e] = intent[e].edition /\ posted[e] # 0
  <2> TAKE e \in paying
  <2>1. intent[e].edition >= 1 /\ posted[e] = intent[e].edition /\ posted[e] \in Nat
    BY <1>1 DEF Carried
  <2> QED
    BY <2>1
<1>3. served = paying
  BY <1>1, <1>2
<1>4. ASSUME paying # {} PROVE Max(paying) \in paying
  <2>1. paying \subseteq Nat /\ \A n \in paying : n <= d
    BY <1>1
  <2> QED
    BY <1>1, <1>4, <2>1, MaxIsLast
<1> HIDE DEF served, paying
<1>5. LiveAllocation(d) = IF paying = {} THEN Nobody
                          ELSE [day |-> Max(paying), edition |-> intent[Max(paying)].edition]
  BY DEF LiveAllocation, paying
<1>6. LiveAllocation(d) = IF served = {} THEN Nobody
                          ELSE [day |-> Max(served), edition |-> posted[Max(served)]]
  BY <1>2, <1>3, <1>4, <1>5
<1> QED
  BY <1>6 DEF served

\* Until a call fails or the service dies, the report of a day speaks of the newest
\* vector validators can read, its edition included, for any calendar, reruns and
\* corrections; a vector withdrawn by a held rerun excepted
\* (live_allocation, stage_publish_weights).
THEOREM ReportIsOfServedVector == Spec => ReportTellsWhatIsServed
<1> DEFINE Step == \A d \in Days :
       LET served == {e \in 1 .. d : posted[e] # 0}
       IN /\ stage = "report" /\ stage' = "record" /\ reports'[d] # reports[d] /\ trouble' = 0
          /\ \A e \in served : intent[e].pays
          => reports'[d][Len(reports'[d])].says
               = IF served = {} THEN Nobody
                 ELSE [day |-> Max(served), edition |-> posted[Max(served)]]
<1>1. Init => Carried
  BY DEF Init, Carried, NoIntent
<1>2. Inv /\ Carried /\ [Next]_vars => Carried'
  <2> SUFFICES ASSUME Inv, Carried, [Next]_vars PROVE Carried'
    OBVIOUS
  <2>1. CASE Next
    BY <2>1, CarriedStep DEF Inv
  <2>2. CASE UNCHANGED vars
    BY <2>2 DEF Carried, vars, run, outlets
  <2> QED
    BY <2>1, <2>2
<1>3. Inv /\ Carried /\ [Next]_vars => [Step]_vars
  <2> SUFFICES ASSUME Inv, Carried, Next, NEW d \in Days,
                      stage = "report", stage' = "record", reports'[d] # reports[d], trouble' = 0,
                      \A e \in {f \in 1 .. d : posted[f] # 0} : intent[e].pays
               PROVE  LET served == {e \in 1 .. d : posted[e] # 0}
                      IN  reports'[d][Len(reports'[d])].says
                            = IF served = {} THEN Nobody
                              ELSE [day |-> Max(served), edition |-> posted[Max(served)]]
    OBVIOUS
  <2>1. TypeOK /\ Shape /\ Chained
    BY DEF Inv
  <2>2. trouble = 0
    BY <2>1, TroubleStays
  <2>3. PublishReport
    <3>1. \A e \in Days : ~Freeze(e)
      BY DEF Freeze, run
    <3>2. reports' # reports
      OBVIOUS
    <3> QED
      BY <3>1, <3>2, CmsSteps
  <2>4. Slots(day) # {} /\ Report(day, LiveAllocation(day))
    BY <2>3 DEF PublishReport
  <2>5. d = day /\ day \in Days
    BY <2>1, <2>4 DEF Report, TypeOK, Shape
  <2>6. LiveAllocation(d) =
          LET served == {e \in 1 .. d : posted[e] # 0}
          IN  IF served = {} THEN Nobody
              ELSE [day |-> Max(served), edition |-> posted[Max(served)]]
    BY <2>1, <2>2, ReportSpeaksOfServed
  <2>7. LiveAllocation(day) \in Says
    BY <2>1, <2>5, LiveAllocationSays DEF TypeOK
  <2>8. reports'[d][Len(reports'[d])].says = LiveAllocation(d)
    BY <2>1, <2>4, <2>5, <2>7, ReportsTyped, ReportIsLast DEF TypeOK
  <2> QED
    BY <2>6, <2>8
<1> QED
  BY <1>1, <1>2, <1>3, InvHolds, PTL DEF Spec, ReportTellsWhatIsServed

-----------------------------------------------------------------------------
(* ModelPool: types *)

\* A pipeline runs on the day after its basket, and runs only models whose hotkey
\* has no record of the basket.  What was delivered names its model.
PoolTyped ==
  /\ PoolTypeOK /\ faults \in Nat
  /\ step # "idle" => runDay - 1 \in Calendar
  /\ \A b \in Calendar, h \in Hotkeys : Delivered(b, h) => records[b][h].digest # NoDigest
  /\ step = "run" => \A h \in todo : pool[h] # NoDigest /\ records[runDay - 1][h] = NoRecord

Models == [Hotkeys -> Digests \cup {NoDigest}]

\* What fails is counted.
LEMMA CountedFailures ==
  ASSUME faults \in Nat, NEW failing \in SUBSET {"read", "remember", "apply"},
         faults' = faults + Cardinality(failing)
  PROVE  faults' \in Nat /\ (faults' = 0 => faults = 0 /\ failing = {})
<1>1. IsFiniteSet(failing)
  <2>1. IsFiniteSet({"read"} \cup {"remember"} \cup {"apply"})
    <3>1. IsFiniteSet({"read"} \cup {"remember"})
      BY FS_Singleton, FS_Union, Zenon
    <3> QED
      BY <3>1, FS_Singleton, FS_Union, Zenon
  <2>2. failing \subseteq {"read"} \cup {"remember"} \cup {"apply"}
    OBVIOUS
  <2> QED
    BY <2>1, <2>2, FS_Subset
<1>2. Cardinality(failing) \in Nat /\ (Cardinality(failing) = 0 <=> failing = {})
  BY <1>1, FS_CardinalityType, FS_EmptySet
<1> QED
  BY <1>2

\* What the stage resolves: the record keeps what it has and takes only what is
\* admitted; and when nothing fails, whoever has a slot and an admitted model on
\* record has a model.
LEMMA Resolved ==
  ASSUME PoolTyped, AdmittedModels
  PROVE  \E models \in Models, out \in SUBSET Hotkeys :
           /\ \A h \in Hotkeys : pool'[h] = IF h \in out THEN NoDigest ELSE models[h]
           /\ pool' \in Models /\ last' \in Models
           /\ todo' = IF runDay - 1 \in marked THEN {}
                      ELSE {h \in Hotkeys \ out : models[h] # NoDigest} \ DayModels(runDay - 1)
           /\ step' = IF runDay - 1 \in marked THEN "charge" ELSE "run"
           /\ withheld' = IF runDay - 1 \in marked THEN withheld
                          ELSE withheld \cup ({runDay - 1} \X (out \ DayModels(runDay - 1)))
           /\ plan' \in [Calendar -> SUBSET Hotkeys] /\ cancelled' \subseteq charged
           /\ \A h \in Hotkeys : /\ last'[h] # last[h] => last'[h] \in admitted
                                 /\ last[h] # NoDigest => last'[h] # NoDigest
           /\ faults' \in Nat
           /\ faults' = 0 =>
                /\ faults = 0
                /\ \A h \in Hotkeys : models[h] # NoDigest => last'[h] # NoDigest
                /\ date >= KeepFrom =>
                     \A h \in Hotkeys : slot[h] # NoDigest /\ last'[h] \in admitted
                                          => models[h] # NoDigest
           /\ Apply(models, out) \/ UNCHANGED unchanged
           /\ UNCHANGED <<date, slot, verdicts, records, marked, charged, recorded, runDay, unseen>>
<1> PICK failing \in SUBSET {"read", "remember", "apply"}, out \in SUBSET Hotkeys :
       LET read == "read" \notin failing
           remembers == "remember" \notin failing
           applies == "apply" \notin failing
           active == Active(read)
           newest == IF remembers THEN Remember(active) ELSE last
           kept == IF remembers THEN Fallbacks(read, newest) ELSE NoPool
           models == [h \in Hotkeys |-> IF active[h] # NoDigest THEN active[h] ELSE kept[h]]
           basket == runDay - 1
           runs == {h \in Hotkeys \ out : models[h] # NoDigest}
       IN /\ faults' = faults + Cardinality(failing)
          /\ last' = newest
          /\ IF applies THEN Apply(models, out) ELSE out = {} /\ UNCHANGED unchanged
          /\ pool' = [h \in Hotkeys |-> IF h \in runs THEN models[h] ELSE NoDigest]
          /\ todo' = IF basket \in marked THEN {} ELSE runs \ DayModels(basket)
          /\ plan' = IF basket \in marked THEN plan
                     ELSE [plan EXCEPT ![basket] = @ \cup todo']
          /\ cancelled' = IF basket \in marked \/ ~SubnetRan(basket) THEN cancelled
                          ELSE cancelled \cup
                            {c \in charged : /\ c[1] = basket /\ c[2] \in plan[basket]
                                             /\ c[2] \notin DayModels(basket)}
          /\ withheld' = IF basket \in marked THEN withheld
                         ELSE withheld \cup ({basket} \X (out \ DayModels(basket)))
          /\ step' = IF basket \in marked THEN "charge" ELSE "run"
  BY DEF AdmittedModels
<1> DEFINE read == "read" \notin failing
           remembers == "remember" \notin failing
           active == Active(read)
           newest == IF remembers THEN Remember(active) ELSE last
           kept == IF remembers THEN Fallbacks(read, newest) ELSE NoPool
           models == [h \in Hotkeys |-> IF active[h] # NoDigest THEN active[h] ELSE kept[h]]
<1>0. /\ slot \in Models /\ last \in Models /\ admitted \subseteq Digests /\ NoDigest \notin admitted
      /\ plan \in [Calendar -> SUBSET Hotkeys] /\ cancelled \subseteq charged
  BY DigestsAssumption DEF PoolTyped, PoolTypeOK, Models
<1>1. /\ active \in Models
      /\ \A h \in Hotkeys : active[h] = IF read /\ slot[h] \in admitted THEN slot[h] ELSE NoDigest
  BY <1>0 DEF Active, Models
<1>2. /\ newest \in Models
      /\ \A h \in Hotkeys : newest[h] = IF remembers /\ active[h] # NoDigest THEN active[h] ELSE last[h]
  BY <1>0, <1>1 DEF Remember, Models
<1>3. /\ kept \in Models
      /\ \A h \in Hotkeys : kept[h] = IF /\ remembers /\ read /\ date >= KeepFrom
                                         /\ slot[h] # NoDigest /\ slot[h] \notin admitted
                                         /\ newest[h] \in admitted
                                      THEN newest[h] ELSE NoDigest
  BY <1>0, <1>2 DEF Fallbacks, Models, NoPool
<1>4. /\ models \in Models
      /\ \A h \in Hotkeys : models[h] = IF active[h] # NoDigest THEN active[h] ELSE kept[h]
  BY <1>1, <1>3 DEF Models
<1> HIDE DEF models, kept, newest, active
<1>5. last' = newest
  BY DEF models, kept, newest, active
<1>6. /\ \A h \in Hotkeys : pool'[h] = IF h \in out THEN NoDigest ELSE models[h]
      /\ pool' \in Models
  <2>1. pool' = [h \in Hotkeys |-> IF h \in {k \in Hotkeys \ out : models[k] # NoDigest}
                                  THEN models[h] ELSE NoDigest]
    BY DEF models, kept, newest, active
  <2> QED
    BY <1>4, <2>1 DEF Models
<1>7. /\ todo' = IF runDay - 1 \in marked THEN {}
                 ELSE {h \in Hotkeys \ out : models[h] # NoDigest} \ DayModels(runDay - 1)
      /\ step' = IF runDay - 1 \in marked THEN "charge" ELSE "run"
      /\ withheld' = IF runDay - 1 \in marked THEN withheld
                     ELSE withheld \cup ({runDay - 1} \X (out \ DayModels(runDay - 1)))
      /\ cancelled' = IF runDay - 1 \in marked \/ ~SubnetRan(runDay - 1) THEN cancelled
                      ELSE cancelled \cup
                            {c \in charged : /\ c[1] = runDay - 1 /\ c[2] \in plan[runDay - 1]
                                             /\ c[2] \notin DayModels(runDay - 1)}
      /\ plan' = IF runDay - 1 \in marked THEN plan
                 ELSE [plan EXCEPT ![runDay - 1] = @ \cup todo']
      /\ faults' = faults + Cardinality(failing)
  BY DEF models, kept, newest, active
<1>8. Apply(models, out) \/ UNCHANGED unchanged
  BY DEF models, kept, newest, active
<1>9. plan' \in [Calendar -> SUBSET Hotkeys] /\ cancelled' \subseteq charged
  <2>1. todo' \subseteq Hotkeys
    BY <1>7
  <2>2. plan' \in [Calendar -> SUBSET Hotkeys]
    <3>1. plan' = plan \/ plan' = [plan EXCEPT ![runDay - 1] = @ \cup todo']
      BY <1>7, Zenon
    <3> QED
      BY <1>0, <2>1, <3>1
  <2>3. cancelled' \subseteq charged
    BY <1>0, <1>7, Zenon
  <2> QED
    BY <2>2, <2>3
<1>10. faults' \in Nat /\ (faults' = 0 => faults = 0 /\ failing = {})
  BY <1>7, CountedFailures DEF PoolTyped
<1>11. \A h \in Hotkeys : /\ last'[h] # last[h] => last'[h] \in admitted
                          /\ last[h] # NoDigest => last'[h] # NoDigest
  BY <1>0, <1>1, <1>2, <1>5
<1>12. ASSUME failing = {}
       PROVE  /\ \A h \in Hotkeys : models[h] # NoDigest => last'[h] # NoDigest
              /\ date >= KeepFrom =>
                   \A h \in Hotkeys : slot[h] # NoDigest /\ last'[h] \in admitted
                                        => models[h] # NoDigest
  BY <1>0, <1>1, <1>2, <1>3, <1>4, <1>5, <1>12
<1>13. UNCHANGED <<date, slot, verdicts, records, marked, charged, recorded, runDay, unseen>>
  BY DEF AdmittedModels
<1>14. last' \in Models
  BY <1>2, <1>5
<1>15. faults' = 0 =>
         /\ faults = 0
         /\ \A h \in Hotkeys : models[h] # NoDigest => last'[h] # NoDigest
         /\ date >= KeepFrom =>
              \A h \in Hotkeys : slot[h] # NoDigest /\ last'[h] \in admitted
                                   => models[h] # NoDigest
  BY <1>10, <1>12, Zenon
<1> HIDE DEF read, remembers
<1> USE <1>4
<1> WITNESS models \in Models, out \in SUBSET Hotkeys
<1> QED
  BY <1>6, <1>7, <1>8, <1>9, <1>10, <1>11, <1>13, <1>14, <1>15, Zenon

\* A nonempty set of calendar days has a first and a last one.
LEMMA LatestIsLast ==
  ASSUME NEW S, S \subseteq Calendar, S # {}
  PROVE  Latest(S) \in S /\ \A c \in S : c <= Latest(S)
<1>1. S \subseteq Nat /\ LastDay \in Nat /\ \A n \in S : n <= LastDay
  BY PoolDaysAssumption DEF Calendar
<1>2. Max(S) \in S /\ \A n \in S : n <= Max(S)
  BY <1>1, MaxIsLast, Zenon
<1> QED
  BY <1>2, Zenon DEF Latest

LEMMA EarliestIsFirst ==
  ASSUME NEW S, S \subseteq Calendar, S # {}
  PROVE  Earliest(S) \in S /\ \A c \in S : Earliest(S) <= c
<1>1. S \subseteq Nat
  BY DEF Calendar
<1>2. Min(S) \in S /\ \A n \in S : Min(S) <= n
  BY <1>1, MinIsFirst, Zenon
<1> QED
  BY <1>2, Zenon DEF Earliest

\* The days of folded on which h delivered.
RanOn(h, folded) == {b \in folded : Delivered(b, h)}

\* What FoldedEntry computes: the entry as it was, when h delivered nothing or the
\* same digest only; or the last digest, from the day on after which it delivered
\* no other.
LEMMA Folding ==
  ASSUME PoolTyped, NEW h \in Hotkeys, NEW folded \in SUBSET Calendar
  PROVE  LET new == FoldedEntry(h, folded)
             on  == RanOn(h, folded)
         IN /\ new \in Entries
            /\ \/ new = entry[h] /\ \A b \in on : records[b][h].digest = entry[h].digest
               \/ /\ new.since \in on /\ new.digest # NoDigest
                  /\ \A b \in on : b >= new.since => records[b][h].digest = new.digest
                  /\ \A b \in on : b < new.since /\ (\A c \in on : c < new.since => c <= b)
                                     => records[b][h].digest # new.digest
                  /\ (\A b \in on : b >= new.since) => entry[h].digest # new.digest
<1> DEFINE on == RanOn(h, folded)
           digest == records[Latest(on)][h].digest
           others == {b \in on : records[b][h].digest # digest}
           same == {b \in on : \A c \in others : b > c}
           new == FoldedEntry(h, folded)
<1>0. new = CASE on = {} -> entry[h]
              [] on # {} /\ others = {} /\ entry[h].digest = digest -> entry[h]
              [] OTHER -> [digest |-> digest, since |-> Earliest(same)]
  BY DEF FoldedEntry, RanOn
<1>1. /\ on \subseteq Calendar /\ Calendar \subseteq Nat /\ entry[h] \in Entries
      /\ \A b \in on : /\ records[b][h].digest \in Digests \cup {NoDigest}
                       /\ records[b][h].digest # NoDigest
  <2>1. /\ records \in [Calendar -> [Hotkeys -> [digest : Digests \cup {NoDigest}, delivered : BOOLEAN]]]
        /\ entry[h] \in Entries
        /\ \A b \in Calendar : Delivered(b, h) => records[b][h].digest # NoDigest
    BY DEF PoolTyped, PoolTypeOK
  <2>2. on \subseteq Calendar /\ \A b \in on : Delivered(b, h)
    BY DEF RanOn
  <2>3. Calendar \subseteq Nat
    BY DEF Calendar
  <2> HIDE DEF on
  <2> QED
    BY <2>1, <2>2, <2>3
<1> HIDE DEF on, digest, new
<1>2. CASE on = {}
  <2>1. new = entry[h]
    BY <1>0, <1>2
  <2> QED
    BY <1>1, <1>2, <2>1 DEF new, on
<1>3. CASE on # {} /\ others = {} /\ entry[h].digest = digest
  <2>1. new = entry[h] /\ \A b \in on : records[b][h].digest = entry[h].digest
    BY <1>0, <1>3
  <2> QED
    BY <1>1, <2>1 DEF new, on
<1>4. CASE on # {} /\ ~(others = {} /\ entry[h].digest = digest)
  <2>1. Latest(on) \in on /\ \A c \in on : c <= Latest(on)
    BY <1>1, <1>4, LatestIsLast
  <2>2. Latest(on) \in same
    <3>1. \A c \in others : c \in on /\ c # Latest(on) /\ c <= Latest(on) /\ c \in Nat
      BY <1>1, <2>1 DEF digest
    <3>2. Latest(on) \in Nat
      BY <1>1, <2>1
    <3>3. ASSUME NEW c \in others PROVE Latest(on) > c
      <4>1. c # Latest(on) /\ c <= Latest(on) /\ c \in Nat
        BY <3>1, <3>3
      <4> QED
        BY <3>2, <4>1
    <3> QED
      BY <2>1, <3>3
  <2>3. same \subseteq Calendar /\ same # {}
    BY <1>1, <2>2
  <2>4. Earliest(same) \in same /\ \A c \in same : Earliest(same) <= c
    BY <2>3, EarliestIsFirst, Zenon
  <2>5. new = [digest |-> digest, since |-> Earliest(same)]
    BY <1>0, <1>4
  <2>51. new.since = Earliest(same) /\ new.digest = digest
    BY <2>5
  <2> HIDE DEF same
  <2>6. digest \in Digests /\ digest # NoDigest
    BY <1>1, <2>1 DEF digest
  <2>7. new.since \in on /\ new.digest = digest /\ new \in Entries
    <3>1. Earliest(same) \in Calendar
      BY <2>3, <2>4
    <3> QED
      BY <1>1, <2>4, <2>5, <2>51, <2>6, <3>1 DEF Entries, same
  <2>8. ASSUME NEW b \in on, b >= new.since PROVE records[b][h].digest = new.digest
    <3> SUFFICES ASSUME b \in others PROVE FALSE
      BY <2>7
    <3>1. new.since > b /\ new.since \in Nat /\ b \in Nat
      BY <1>1, <2>4, <2>7, <2>51 DEF same
    <3> QED
      BY <2>8, <3>1
  <2>9. ASSUME NEW b \in on, b < new.since, \A c \in on : c < new.since => c <= b,
               records[b][h].digest = new.digest
        PROVE  FALSE
    <3>1. b \notin others
      BY <2>7, <2>9
    <3>2. ASSUME NEW c \in others PROVE b > c
      <4>1. c \in on /\ c < new.since
        BY <2>4, <2>51, <3>2 DEF same
      <4>2. c <= b /\ c # b
        BY <2>9, <3>1, <4>1
      <4> QED
        BY <1>1, <4>1, <4>2
    <3>3. b \in same
      BY <3>2 DEF same
    <3>4. new.since <= b /\ new.since \in Nat /\ b \in Nat
      BY <1>1, <2>4, <2>7, <2>51, <3>3
    <3> QED
      BY <2>9, <3>4
  <2>10. ASSUME \A b \in on : b >= new.since PROVE entry[h].digest # new.digest
    <3>1. \A b \in on : new.since \in Nat /\ b \in Nat /\ b >= new.since
      BY <1>1, <2>7, <2>10
    <3>2. \A b \in others : b \in on /\ new.since > b
      BY <2>4, <2>51 DEF same
    <3>3. others = {}
      BY <3>1, <3>2
    <3> QED
      BY <1>4, <2>7, <3>3
  <2> QED
    BY <2>6, <2>7, <2>8, <2>9, <2>10 DEF new, on
<1> QED
  BY <1>2, <1>3, <1>4

\* The types of what the unchanged rule saves.
LEMMA ApplyTypes ==
  ASSUME PoolTyped, NEW models \in Models, NEW out \in SUBSET Hotkeys, Apply(models, out)
  PROVE  /\ through' \in Calendar \cup {Never}
         /\ entry' \in [Hotkeys -> Entries]
         /\ removed' \in [Digests -> Calendar \cup {Never}]
         /\ byDay' \in [Calendar -> SUBSET Hotkeys]
<1>0. /\ date \in Calendar /\ removed \in [Digests -> Calendar \cup {Never}]
      /\ byDay \in [Calendar -> SUBSET Hotkeys] /\ through \in Calendar \cup {Never}
  BY DEF PoolTyped, PoolTypeOK
<1>1. FoldedDays \in SUBSET Calendar
  BY DEF FoldedDays
<1>2. through' \in Calendar \cup {Never}
  <2>1. through' = IF FoldedDays = {} THEN through ELSE Latest(FoldedDays)
    BY DEF Apply
  <2> QED
    BY <1>0, <1>1, <2>1, LatestIsLast
<1>3. entry' \in [Hotkeys -> Entries]
  <2>1. entry' = [h \in Hotkeys |-> FoldedEntry(h, FoldedDays)]
    BY DEF Apply
  <2> QED
    BY <1>1, <2>1, Folding
<1>4. removed' \in [Digests -> Calendar \cup {Never}]
  <2>1. removed' = [d \in Digests |->
          IF removed[d] = Never /\ \E h \in out : models[h] = d THEN date ELSE removed[d]]
    BY DEF Apply
  <2> QED
    BY <1>0, <2>1
<1>5. byDay' \in [Calendar -> SUBSET Hotkeys]
  <2>1. byDay' = [d \in Calendar |-> CASE d = date -> IF out # {} THEN out ELSE byDay[d]
                                      [] d # date /\ d <= date - ByDayKept -> {}
                                      [] OTHER -> byDay[d]]
    BY DEF Apply
  <2> QED
    BY <1>0, <2>1
<1> QED
  BY <1>2, <1>3, <1>4, <1>5

\* The types of the actions, one at a time.
LEMMA PoolInitTyped == PoolInit => PoolTyped
<1> SUFFICES ASSUME PoolInit PROVE PoolTyped
  OBVIOUS
<1>1. 1 \in Calendar
  BY PoolDaysAssumption DEF Calendar
<1>2. records \in [Calendar -> [Hotkeys -> [digest : Digests \cup {NoDigest}, delivered : BOOLEAN]]]
  BY Zenon DEF PoolInit, NoRecord
<1>3. entry \in [Hotkeys -> Entries]
  BY Zenon DEF PoolInit, NoEntry, Entries
<1>4. \A b \in Calendar, h \in Hotkeys : ~Delivered(b, h)
  BY DEF PoolInit, NoRecord, Delivered
<1>5. /\ slot \in Models /\ last \in Models /\ pool \in Models
      /\ verdict \in [Digests -> Final \cup {"none", "retry"}]
      /\ removed \in [Digests -> Calendar \cup {Never}]
      /\ byDay \in [Calendar -> SUBSET Hotkeys] /\ plan \in [Calendar -> SUBSET Hotkeys]
  BY DEF PoolInit, NoPool, Models
<1>6. /\ date \in Calendar /\ runDay \in Calendar /\ through = Never /\ step = "idle"
      /\ admitted = {} /\ marked = {} /\ recorded = {} /\ charged = {} /\ cancelled = {}
      /\ withheld = {} /\ unseen = {} /\ todo = {} /\ faults = 0
  BY <1>1 DEF PoolInit
<1> QED
  BY <1>2, <1>3, <1>4, <1>5, <1>6 DEF PoolTyped, PoolTypeOK, Models

LEMMA IntakeTyped ==
  ASSUME PoolTyped, NextDay \/ Commit \/ StartIntake \/ GateNext \/ RewriteAdmitted \/ IntakeRaises
  PROVE  PoolTyped'
<1>0. /\ UNCHANGED <<last, unchanged, shadow, penalties, recorded, pool, history>>
      /\ faults' \in Nat
  BY DEF PoolTyped, NextDay, Commit, StartIntake, GateNext, RewriteAdmitted, IntakeRaises, bounds
<1>1. date' \in Calendar /\ runDay' \in Calendar /\ (step' # "idle" => runDay' - 1 \in Calendar)
  <2>1. CASE NextDay
    <3>1. date < LastDay /\ date \in Calendar /\ LastDay \in Nat
      BY <2>1, PoolDaysAssumption DEF NextDay, PoolTyped, PoolTypeOK
    <3> QED
      BY <2>1, <3>1 DEF NextDay, Calendar, PoolTyped, PoolTypeOK
  <2>2. CASE StartIntake
    <3>1. PICK p \in 2 .. date : runDay' = p
      BY <2>2 DEF StartIntake
    <3>2. date \in Calendar /\ date' = date
      BY <2>2 DEF StartIntake, PoolTyped, PoolTypeOK
    <3> QED
      BY <3>1, <3>2, PoolDaysAssumption DEF Calendar
  <2>3. CASE Commit \/ GateNext \/ RewriteAdmitted \/ IntakeRaises
    BY <2>3 DEF Commit, GateNext, RewriteAdmitted, IntakeRaises, PoolTyped, PoolTypeOK
  <2> QED
    BY <2>1, <2>2, <2>3
<1>2. slot' \in Models
  <2>1. slot \in Models
    BY DEF PoolTyped, PoolTypeOK, Models
  <2>2. CASE Commit
    <3>1. PICK h \in Hotkeys, d \in Digests : slot' = [slot EXCEPT ![h] = d]
      BY <2>2 DEF Commit
    <3> QED
      BY <2>1, <3>1 DEF Models
  <2> QED
    BY <2>1, <2>2 DEF NextDay, StartIntake, GateNext, RewriteAdmitted, IntakeRaises
<1>3. verdict' \in [Digests -> Final \cup {"none", "retry"}] /\ admitted' \subseteq Digests
  <2>1. verdict \in [Digests -> Final \cup {"none", "retry"}] /\ admitted \subseteq Digests
    BY DEF PoolTyped, PoolTypeOK
  <2>2. CASE GateNext
    <3>1. PICK h \in todo, status \in Final \cup {"retry"} :
                verdict' = [verdict EXCEPT ![slot[h]] = status]
      BY <2>2 DEF GateNext
    <3> QED
      BY <2>1, <2>2, <3>1 DEF GateNext
  <2>3. CASE RewriteAdmitted
    BY <2>1, <2>3 DEF RewriteAdmitted
  <2> QED
    BY <2>1, <2>2, <2>3 DEF NextDay, Commit, StartIntake, IntakeRaises, verdicts
<1>4. todo' \subseteq Hotkeys /\ step' \in {"idle", "gate", "resolve"}
  BY DEF PoolTyped, PoolTypeOK, NextDay, Commit, StartIntake, GateNext, RewriteAdmitted, IntakeRaises
<1> QED
  BY <1>0, <1>1, <1>2, <1>3, <1>4
  DEF PoolTyped, PoolTypeOK, Models, unchanged, shadow, penalties, history, Delivered

LEMMA ResolveTyped ==
  ASSUME PoolTyped, AdmittedModels
  PROVE  PoolTyped'
<1>1. PICK models \in Models, out \in SUBSET Hotkeys :
           /\ \A h \in Hotkeys : pool'[h] = IF h \in out THEN NoDigest ELSE models[h]
           /\ pool' \in Models /\ last' \in Models
           /\ todo' = IF runDay - 1 \in marked THEN {}
                      ELSE {h \in Hotkeys \ out : models[h] # NoDigest} \ DayModels(runDay - 1)
           /\ step' = IF runDay - 1 \in marked THEN "charge" ELSE "run"
           /\ withheld' = IF runDay - 1 \in marked THEN withheld
                          ELSE withheld \cup ({runDay - 1} \X (out \ DayModels(runDay - 1)))
           /\ plan' \in [Calendar -> SUBSET Hotkeys] /\ cancelled' \subseteq charged
           /\ faults' \in Nat
           /\ Apply(models, out) \/ UNCHANGED unchanged
           /\ UNCHANGED <<date, slot, verdicts, records, marked, charged, recorded, runDay, unseen>>
  BY Resolved
<1>2. /\ through' \in Calendar \cup {Never}
      /\ entry' \in [Hotkeys -> Entries]
      /\ removed' \in [Digests -> Calendar \cup {Never}]
      /\ byDay' \in [Calendar -> SUBSET Hotkeys]
  BY <1>1, ApplyTypes DEF unchanged, PoolTyped, PoolTypeOK
<1>3. step = "resolve" /\ runDay - 1 \in Calendar
  BY DEF AdmittedModels, PoolTyped
<1>4. withheld' \subseteq Calendar \X Hotkeys
  BY <1>1, <1>3 DEF PoolTyped, PoolTypeOK
<1>5. /\ todo' \subseteq Hotkeys /\ step' \in {"run", "charge"}
      /\ step' = "run" => \A h \in todo' : pool'[h] # NoDigest /\ records[runDay - 1][h] = NoRecord
  BY <1>1 DEF DayModels
<1> QED
  BY <1>1, <1>2, <1>3, <1>4, <1>5 DEF PoolTyped, PoolTypeOK, verdicts, Models, Delivered

LEMMA RunTyped ==
  ASSUME PoolTyped, RunModel
  PROVE  PoolTyped'
<1>1. PICK h \in todo, delivers \in BOOLEAN :
         /\ records' = [records EXCEPT ![runDay - 1][h] = [digest |-> pool[h], delivered |-> delivers]]
         /\ unseen' = IF delivers /\ runDay - 1 <= through THEN unseen \cup {h} ELSE unseen
         /\ todo' = todo \ {h}
  BY DEF RunModel
<1>2. /\ h \in Hotkeys /\ runDay - 1 \in Calendar /\ pool[h] \in Digests
      /\ records \in [Calendar -> [Hotkeys -> [digest : Digests \cup {NoDigest}, delivered : BOOLEAN]]]
  BY <1>1 DEF RunModel, PoolTyped, PoolTypeOK
<1>3. /\ records' \in [Calendar -> [Hotkeys -> [digest : Digests \cup {NoDigest}, delivered : BOOLEAN]]]
      /\ \A b \in Calendar, k \in Hotkeys :
           records'[b][k] = IF b = runDay - 1 /\ k = h THEN [digest |-> pool[h], delivered |-> delivers]
                            ELSE records[b][k]
  BY <1>1, <1>2
<1>4. \A b \in Calendar, k \in Hotkeys : Delivered(b, k)' => records'[b][k].digest # NoDigest
  <2> TAKE b \in Calendar, k \in Hotkeys
  <2>1. CASE b = runDay - 1 /\ k = h
    BY <1>2, <1>3, <2>1, DigestsAssumption
  <2>2. CASE ~(b = runDay - 1 /\ k = h)
    BY <1>3, <2>2 DEF Delivered, PoolTyped
  <2> QED
    BY <2>1, <2>2
<1>5. \A k \in todo' : pool[k] # NoDigest /\ records'[runDay - 1][k] = NoRecord
  BY <1>1, <1>2, <1>3 DEF RunModel, PoolTyped, PoolTypeOK
<1>6. UNCHANGED <<date, slot, verdicts, last, unchanged, plan, marked, penalties, recorded,
                  step, runDay, pool, withheld, bounds>>
  BY DEF RunModel
<1>7. unseen' \subseteq Hotkeys /\ todo' \subseteq Hotkeys
  BY <1>1, <1>2 DEF PoolTyped, PoolTypeOK
<1> QED
  BY <1>2, <1>3, <1>4, <1>5, <1>6, <1>7
  DEF PoolTyped, PoolTypeOK, verdicts, unchanged, penalties, bounds

LEMMA EndTyped ==
  ASSUME PoolTyped, MarkRun \/ ApplyPenalties \/ PipelineDies \/ UNCHANGED poolVars
  PROVE  PoolTyped'
<1>0. /\ UNCHANGED <<date, slot, verdicts, last, unchanged, plan, records, cancelled, runDay, history>>
      /\ faults' = faults
  BY DEF MarkRun, ApplyPenalties, PipelineDies, poolVars, shadow, penalties, bounds
<1>1. marked' \subseteq Calendar /\ recorded' \subseteq Calendar
  BY DEF PoolTyped, PoolTypeOK, MarkRun, ApplyPenalties, PipelineDies, poolVars, shadow
<1>2. charged \subseteq charged' /\ charged' \subseteq Calendar \X Hotkeys
  BY DEF PoolTyped, PoolTypeOK, MarkRun, ApplyPenalties, PipelineDies, poolVars, penalties
<1>3. /\ todo' \subseteq Hotkeys /\ pool' \in Models /\ step' \in {"idle", "gate", "resolve", "run", "charge"}
      /\ step' # "idle" => runDay - 1 \in Calendar
      /\ step' = "run" => \A h \in todo' : pool'[h] # NoDigest /\ records[runDay - 1][h] = NoRecord
  BY DEF PoolTyped, PoolTypeOK, MarkRun, ApplyPenalties, PipelineDies, poolVars, NoPool, Models
<1> QED
  BY <1>0, <1>1, <1>2, <1>3
  DEF PoolTyped, PoolTypeOK, verdicts, unchanged, history, Models, Delivered

LEMMA PoolStepTyped == PoolTyped /\ [PoolNext]_poolVars => PoolTyped'
BY IntakeTyped, ResolveTyped, RunTyped, EndTyped DEF PoolNext

\* The variables of ModelPool keep their types.
THEOREM PoolTypeCorrect == PoolSpec => []PoolTypeOK
<1>1. PoolTyped => PoolTypeOK
  BY DEF PoolTyped
<1> QED
  BY <1>1, PoolInitTyped, PoolStepTyped, PTL DEF PoolSpec

-----------------------------------------------------------------------------
(* ModelPool: what is admitted, and who is served *)

\* What was admitted is admitted by its verdict, and the sweep gates nothing that was.
Judged ==
  /\ \A d \in admitted : verdict[d] = "admitted"
  /\ step = "gate" => \A h \in todo : slot[h] \notin admitted

LEMMA JudgedStep ==
  ASSUME PoolTyped, Judged, [PoolNext]_poolVars
  PROVE  Judged' /\ admitted \subseteq admitted'
<1>0. /\ verdict \in [Digests -> Final \cup {"none", "retry"}] /\ admitted \subseteq Digests
      /\ slot \in Models /\ todo \subseteq Hotkeys
  BY DEF PoolTyped, PoolTypeOK, Models
<1>1. CASE StartIntake
  <2>1. /\ \A h \in todo' : slot[h] # NoDigest /\ ~IsFinalVerdict(verdict[slot[h]])
        /\ UNCHANGED <<slot, verdict, admitted>>
    BY <1>1 DEF StartIntake, verdicts
  <2>2. \A h \in todo' : slot[h] \notin admitted
    BY <2>1 DEF Judged, IsFinalVerdict, Final
  <2> QED
    BY <2>1, <2>2 DEF Judged
<1>2. CASE GateNext
  <2>1. PICK h \in todo, status \in Final \cup {"retry"} :
          verdict' = [verdict EXCEPT ![slot[h]] = status] /\ todo' = todo \ {h}
    BY <1>2 DEF GateNext
  <2>2. slot[h] \notin admitted /\ UNCHANGED <<slot, admitted>>
    BY <1>2 DEF GateNext, Judged
  <2>3. \A d \in admitted : verdict'[d] = "admitted"
    BY <1>0, <2>1, <2>2 DEF Judged
  <2> QED
    BY <1>2, <2>1, <2>2, <2>3 DEF GateNext, Judged
<1>3. CASE RewriteAdmitted
  BY <1>0, <1>3 DEF RewriteAdmitted, Judged
<1>4. CASE NextDay \/ Commit \/ IntakeRaises
  BY <1>4 DEF NextDay, Commit, IntakeRaises, verdicts, Judged
<1>5. CASE AdmittedModels \/ RunModel \/ MarkRun \/ ApplyPenalties \/ PipelineDies \/ UNCHANGED poolVars
  <2>1. UNCHANGED <<slot, verdict, admitted>> /\ (step' = "gate" => UNCHANGED <<step, todo>>)
    BY <1>5 DEF AdmittedModels, RunModel, MarkRun, ApplyPenalties, PipelineDies, poolVars, verdicts
  <2> QED
    BY <2>1 DEF Judged
<1> QED
  BY <1>1, <1>2, <1>3, <1>4, <1>5 DEF PoolNext

LEMMA PoolJudged == PoolSpec => [](PoolTyped /\ Judged)
<1>1. PoolInit => Judged
  BY DEF PoolInit, Judged
<1> QED
  BY <1>1, PoolInitTyped, PoolStepTyped, JudgedStep, PTL DEF PoolSpec

\* No sweep, whatever fails in it, takes back an admission.
THEOREM AdmissionsStay == PoolSpec => AdmittedStays
<1>1. PoolTyped /\ Judged /\ [PoolNext]_poolVars => [admitted \subseteq admitted']_poolVars
  BY JudgedStep
<1> QED
  BY <1>1, PoolJudged, PTL DEF PoolSpec, AdmittedStays

\* The record of last models names admitted ones only; as long as nothing failed
\* it names one for whoever delivered or is about to run; and a run serves every
\* hotkey it names one for.
Remembered ==
  /\ \A h \in Hotkeys : last[h] # NoDigest => last[h] \in admitted
  /\ faults = 0 =>
       /\ \A b \in Calendar, h \in Hotkeys : Delivered(b, h) => last[h] # NoDigest
       /\ step = "run" => \A h \in todo : last[h] # NoDigest
       /\ step = "run" /\ date >= KeepFrom =>
            \A h \in Hotkeys : slot[h] # NoDigest /\ last[h] # NoDigest =>
              pool[h] # NoDigest \/ <<runDay - 1, h>> \in withheld \/ h \in DayModels(runDay - 1)

LEMMA RememberedStep ==
  ASSUME PoolTyped, Judged, Remembered, [PoolNext]_poolVars
  PROVE  Remembered'
<1>0. admitted \subseteq admitted'
  BY JudgedStep
<1>1. CASE AdmittedModels
  <2>1. PICK models \in Models, out \in SUBSET Hotkeys :
           /\ \A h \in Hotkeys : pool'[h] = IF h \in out THEN NoDigest ELSE models[h]
           /\ todo' = IF runDay - 1 \in marked THEN {}
                      ELSE {h \in Hotkeys \ out : models[h] # NoDigest} \ DayModels(runDay - 1)
           /\ step' = IF runDay - 1 \in marked THEN "charge" ELSE "run"
           /\ withheld' = IF runDay - 1 \in marked THEN withheld
                          ELSE withheld \cup ({runDay - 1} \X (out \ DayModels(runDay - 1)))
           /\ \A h \in Hotkeys : /\ last'[h] # last[h] => last'[h] \in admitted
                                 /\ last[h] # NoDigest => last'[h] # NoDigest
           /\ faults' = 0 =>
                /\ faults = 0
                /\ \A h \in Hotkeys : models[h] # NoDigest => last'[h] # NoDigest
                /\ date >= KeepFrom =>
                     \A h \in Hotkeys : slot[h] # NoDigest /\ last'[h] \in admitted
                                          => models[h] # NoDigest
           /\ UNCHANGED <<date, slot, verdicts, records, runDay>>
    BY <1>1, Resolved
  <2>2. \A h \in Hotkeys : last'[h] # NoDigest => last'[h] \in admitted
    BY <2>1 DEF Remembered
  <2> SUFFICES ASSUME faults' = 0
               PROVE  /\ \A b \in Calendar, h \in Hotkeys : Delivered(b, h)' => last'[h] # NoDigest
                      /\ step' = "run" => \A h \in todo' : last'[h] # NoDigest
                      /\ step' = "run" /\ date' >= KeepFrom =>
                           \A h \in Hotkeys : slot'[h] # NoDigest /\ last'[h] # NoDigest =>
                             \/ pool'[h] # NoDigest
                             \/ <<runDay - 1, h>> \in withheld'
                             \/ h \in DayModels(runDay - 1)
    BY <1>0, <2>1, <2>2 DEF Remembered, DayModels
  <2>3. \A b \in Calendar, h \in Hotkeys : Delivered(b, h)' => last'[h] # NoDigest
    BY <2>1 DEF Delivered, Remembered
  <2>4. step' = "run" => \A h \in todo' : last'[h] # NoDigest
    BY <2>1
  <2>5. ASSUME step' = "run", date' >= KeepFrom, NEW h \in Hotkeys, slot'[h] # NoDigest,
               last'[h] # NoDigest, pool'[h] = NoDigest, h \notin DayModels(runDay - 1)
        PROVE  <<runDay - 1, h>> \in withheld'
    <3>1. models[h] # NoDigest
      BY <2>1, <2>2, <2>5
    <3>2. h \in out
      BY <2>1, <2>5, <3>1
    <3>3. withheld' = withheld \cup ({runDay - 1} \X (out \ DayModels(runDay - 1)))
      BY <2>1, <2>5
    <3> QED
      BY <2>5, <3>2, <3>3
  <2> QED
    BY <2>3, <2>4, <2>5
<1>2. CASE RunModel
  <2>1. PICK h \in todo, delivers \in BOOLEAN :
          /\ records' = [records EXCEPT ![runDay - 1][h] = [digest |-> pool[h], delivered |-> delivers]]
          /\ todo' = todo \ {h}
    BY <1>2 DEF RunModel
  <2>2. UNCHANGED <<date, slot, admitted, last, step, runDay, pool, withheld, faults>> /\ step = "run"
    BY <1>2 DEF RunModel, verdicts, bounds
  <2>3. \A b \in Calendar, k \in Hotkeys :
          records'[b][k] = IF b = runDay - 1 /\ k = h THEN [digest |-> pool[h], delivered |-> delivers]
                           ELSE records[b][k]
    BY <2>1 DEF PoolTyped, PoolTypeOK
  <2>4. \A b \in Calendar, k \in Hotkeys : Delivered(b, k)' => Delivered(b, k) \/ k = h
    BY <2>3 DEF Delivered
  <2>5. DayModels(runDay - 1) \subseteq DayModels(runDay - 1)'
    <3>1. runDay - 1 \in Calendar /\ pool[h] # NoDigest
      BY <2>1, <2>2 DEF PoolTyped
    <3>2. [digest |-> pool[h], delivered |-> delivers] # NoRecord
      BY <3>1 DEF NoRecord
    <3> QED
      BY <2>2, <2>3, <3>1, <3>2 DEF DayModels
  <2> QED
    BY <2>1, <2>2, <2>4, <2>5 DEF Remembered
<1>3. CASE NextDay \/ Commit \/ StartIntake \/ GateNext \/ RewriteAdmitted \/ IntakeRaises
  <2>1. /\ UNCHANGED <<last, records>> /\ step' # "run"
        /\ faults' = 0 => faults = 0
    BY <1>3 DEF NextDay, Commit, StartIntake, GateNext, RewriteAdmitted, IntakeRaises,
                shadow, bounds, PoolTyped
  <2> QED
    BY <1>0, <2>1 DEF Remembered, Delivered
<1>4. CASE MarkRun \/ ApplyPenalties \/ PipelineDies
  <2>1. /\ UNCHANGED <<last, records, faults>> /\ step' # "run"
    BY <1>4 DEF MarkRun, ApplyPenalties, PipelineDies, shadow, bounds
  <2> QED
    BY <1>0, <2>1 DEF Remembered, Delivered
<1>5. CASE UNCHANGED poolVars
  <2>1. UNCHANGED <<date, slot, admitted, last, records, step, runDay, todo, pool, withheld, faults>>
    BY <1>5 DEF poolVars, verdicts, shadow, history, bounds
  <2> QED
    BY <2>1 DEF Remembered, Delivered, DayModels
<1> QED
  BY <1>1, <1>2, <1>3, <1>4, <1>5 DEF PoolNext

\* As long as no step failed, a hotkey whose admitted model delivered has a model to
\* run, bar those the rule withholds.
THEOREM WaitingIsServed == PoolSpec => []ServedWhileWaiting
<1>1. PoolInit => Remembered
  BY DEF PoolInit, NoPool, NoRecord, Remembered, Delivered
<1>2. Remembered => ServedWhileWaiting
  BY DEF Remembered, ServedWhileWaiting
<1> QED
  BY <1>1, <1>2, PoolJudged, RememberedStep, PTL DEF PoolSpec

-----------------------------------------------------------------------------
(* ModelPool: the count of days *)

\* An entry, and the days up to the last one folded in: none delivered without an
\* entry; the day counted from was delivered; no other digest since; and another
\* one on the last day delivered before it.
CountedFor(h, e, upto) ==
  /\ e = NoEntry => \A b \in Calendar : b <= upto => ~Delivered(b, h)
  /\ e # NoEntry =>
       /\ e.digest # NoDigest
       /\ e.since \in Calendar /\ e.since <= upto /\ Delivered(e.since, h)
       /\ \A b \in Calendar : e.since <= b /\ b <= upto /\ Delivered(b, h)
                                => records[b][h].digest = e.digest
       /\ \A b \in Calendar :
            /\ b < e.since /\ Delivered(b, h)
            /\ \A c \in Calendar : c < e.since /\ Delivered(c, h) => c <= b
            => records[b][h].digest # e.digest

Counted == \A h \in Hotkeys \ unseen : CountedFor(h, entry[h], through)

\* Folding the days after the last one folded keeps the count.
LEMMA FoldCounts ==
  ASSUME PoolTyped, NEW h \in Hotkeys, CountedFor(h, entry[h], through),
         NEW upto \in Calendar \cup {Never}, through <= upto,
         \A b \in FoldedDays : b <= upto
  PROVE  CountedFor(h, FoldedEntry(h, FoldedDays), upto)
<1> DEFINE new == FoldedEntry(h, FoldedDays)
           on == RanOn(h, FoldedDays)
           old == entry[h]
<1>0. /\ Calendar \subseteq Nat /\ through \in Nat /\ upto \in Nat
      /\ FoldedDays \subseteq Calendar /\ old \in Entries
  BY DEF PoolTyped, PoolTypeOK, Calendar, FoldedDays, Never
<1>1. \A b \in Calendar : b \in on <=> b > through /\ Delivered(b, h)
  <2> TAKE b \in Calendar
  <2>1. Delivered(b, h) => records[b][h] # NoRecord
    BY DEF Delivered, NoRecord
  <2>2. Delivered(b, h) => SubnetRan(b)
    BY <2>1 DEF SubnetRan, DayModels
  <2> QED
    BY <2>2 DEF RanOn, FoldedDays
<1>2. on \subseteq Calendar /\ \A b \in on : b <= upto
  BY <1>0 DEF RanOn
<1>3. /\ new \in Entries
      /\ \/ new = old /\ \A b \in on : records[b][h].digest = old.digest
         \/ /\ new.since \in on /\ new.digest # NoDigest
            /\ \A b \in on : b >= new.since => records[b][h].digest = new.digest
            /\ \A b \in on : b < new.since /\ (\A c \in on : c < new.since => c <= b)
                               => records[b][h].digest # new.digest
            /\ (\A b \in on : b >= new.since) => old.digest # new.digest
  BY <1>0, Folding
<1> HIDE DEF new, on, old
<1>4. CountedFor(h, old, through)
  BY DEF old
<1>5. CASE new = old /\ \A b \in on : records[b][h].digest = old.digest
  <2>1. CASE old = NoEntry
    <3>1. on = {}
      <4> SUFFICES ASSUME NEW b \in on PROVE FALSE
        OBVIOUS
      <4>1. records[b][h].digest = NoDigest
        BY <1>5, <2>1 DEF NoEntry
      <4>2. b \in Calendar /\ Delivered(b, h)
        BY <1>1, <1>2
      <4> QED
        BY <4>1, <4>2 DEF PoolTyped
    <3>2. \A b \in Calendar : b <= upto => ~Delivered(b, h)
      BY <1>0, <1>1, <1>4, <2>1, <3>1 DEF CountedFor
    <3> QED
      BY <1>5, <2>1, <3>2 DEF CountedFor, new
  <2>2. CASE old # NoEntry
    <3>1. /\ old.digest # NoDigest
          /\ old.since \in Calendar /\ old.since <= upto /\ Delivered(old.since, h)
          /\ \A b \in Calendar :
               /\ b < old.since /\ Delivered(b, h)
               /\ \A c \in Calendar : c < old.since /\ Delivered(c, h) => c <= b
               => records[b][h].digest # old.digest
      <4>1. /\ old.digest # NoDigest
            /\ old.since \in Calendar /\ old.since <= through /\ Delivered(old.since, h)
            /\ \A b \in Calendar :
                 /\ b < old.since /\ Delivered(b, h)
                 /\ \A c \in Calendar : c < old.since /\ Delivered(c, h) => c <= b
                 => records[b][h].digest # old.digest
        BY <1>4, <2>2 DEF CountedFor
      <4>2. old.since \in Nat /\ through \in Nat /\ upto \in Nat
        BY <1>0, <4>1
      <4>3. old.since <= upto
        BY <4>1, <4>2
      <4> QED
        BY <4>1, <4>3
    <3>2. ASSUME NEW b \in Calendar, old.since <= b, b <= upto, Delivered(b, h)
          PROVE  records[b][h].digest = old.digest
      <4>1. CASE b <= through
        BY <1>4, <2>2, <3>2, <4>1 DEF CountedFor
      <4>2. CASE b > through
        BY <1>1, <1>5, <3>2, <4>2
      <4> QED
        BY <1>0, <4>1, <4>2
    <3>3. CountedFor(h, old, upto)
      BY <2>2, <3>1, <3>2 DEF CountedFor
    <3> QED
      BY <1>5, <3>3 DEF new
  <2> QED
    BY <2>1, <2>2
<1>6. CASE /\ new.since \in on /\ new.digest # NoDigest
           /\ \A b \in on : b >= new.since => records[b][h].digest = new.digest
           /\ \A b \in on : b < new.since /\ (\A c \in on : c < new.since => c <= b)
                              => records[b][h].digest # new.digest
           /\ (\A b \in on : b >= new.since) => old.digest # new.digest
  <2>1. /\ new.since \in Calendar /\ new.since <= upto /\ Delivered(new.since, h)
        /\ new.since > through
    BY <1>1, <1>2, <1>6
  <2>2. new # NoEntry
    BY <1>6 DEF NoEntry
  <2>3. ASSUME NEW b \in Calendar, new.since <= b, b <= upto, Delivered(b, h)
        PROVE  records[b][h].digest = new.digest
    <3>1. b > through
      <4>1. b \in Nat /\ through \in Nat /\ new.since \in Nat
        BY <1>0, <2>1
      <4> QED
        BY <2>1, <2>3, <4>1
    <3> QED
      BY <1>1, <1>6, <2>3, <3>1
  <2>4. ASSUME NEW b \in Calendar, b < new.since, Delivered(b, h),
               \A c \in Calendar : c < new.since /\ Delivered(c, h) => c <= b
        PROVE  records[b][h].digest # new.digest
    <3>1. CASE b \in on
      <4>1. \A c \in on : c < new.since => c <= b
        BY <1>1, <1>2, <2>4
      <4> QED
        BY <1>6, <2>4, <3>1, <4>1
    <3>2. CASE b \notin on
      <4>1. b <= through
        BY <1>0, <1>1, <2>4, <3>2
      <4>2. ASSUME NEW c \in on PROVE c >= new.since
        <5>1. c \in Calendar /\ c > through /\ Delivered(c, h)
          BY <1>1, <1>2
        <5>2. c \in Nat /\ b \in Nat /\ through \in Nat /\ new.since \in Nat
          BY <1>0, <2>1, <5>1
        <5>3. ~(c <= b)
          BY <4>1, <5>1, <5>2
        <5> QED
          BY <2>4, <5>1, <5>2, <5>3
      <4>3. old.digest # new.digest
        BY <1>6, <4>2
      <4>4. old # NoEntry
        BY <1>4, <2>4, <4>1 DEF CountedFor
      <4>5. old.since \in Calendar /\ old.since <= through /\ Delivered(old.since, h)
        BY <1>4, <4>4 DEF CountedFor
      <4>6. old.since <= b
        <5>1. old.since \in Nat /\ through \in Nat /\ new.since \in Nat
          BY <1>0, <2>1, <4>5
        <5>2. old.since < new.since
          BY <2>1, <4>5, <5>1
        <5> QED
          BY <2>4, <4>5, <5>2
      <4>7. records[b][h].digest = old.digest
        BY <1>4, <2>4, <4>1, <4>4, <4>6 DEF CountedFor
      <4> QED
        BY <4>3, <4>7
    <3> QED
      BY <3>1, <3>2
  <2>5. CountedFor(h, new, upto)
    BY <1>6, <2>1, <2>2, <2>3, <2>4 DEF CountedFor
  <2> QED
    BY <2>5 DEF new
<1> QED
  BY <1>3, <1>5, <1>6

LEMMA CountedStep ==
  ASSUME PoolTyped, Counted, [PoolNext]_poolVars
  PROVE  Counted'
<1>1. CASE AdmittedModels
  <2>1. PICK models \in Models, out \in SUBSET Hotkeys :
          /\ Apply(models, out) \/ UNCHANGED unchanged
          /\ UNCHANGED <<records, unseen>>
    BY <1>1, Resolved
  <2>2. CASE Apply(models, out)
    <3>1. /\ entry' = [h \in Hotkeys |-> FoldedEntry(h, FoldedDays)]
          /\ through' = IF FoldedDays = {} THEN through ELSE Latest(FoldedDays)
      BY <2>2 DEF Apply
    <3>2. FoldedDays \subseteq Calendar /\ \A b \in FoldedDays : b > through
      BY DEF FoldedDays
    <3>3. /\ Calendar \subseteq Nat /\ through \in Nat /\ through \in Calendar \cup {Never}
      BY DEF PoolTyped, PoolTypeOK, Calendar, Never
    <3>4. /\ through' \in Calendar \cup {Never} /\ through <= through'
          /\ \A b \in FoldedDays : b <= through'
      <4>1. CASE FoldedDays = {}
        BY <3>1, <3>3, <4>1
      <4>2. CASE FoldedDays # {}
        <5>1. Latest(FoldedDays) \in FoldedDays /\ \A b \in FoldedDays : b <= Latest(FoldedDays)
          BY <3>2, <4>2, LatestIsLast
        <5> QED
          BY <3>1, <3>2, <3>3, <4>2, <5>1
      <4> QED
        BY <4>1, <4>2
    <3>5. ASSUME NEW h \in Hotkeys \ unseen
          PROVE  CountedFor(h, FoldedEntry(h, FoldedDays), through')
      <4>1. CountedFor(h, entry[h], through)
        BY DEF Counted
      <4> QED
        BY <3>4, <4>1, FoldCounts
    <3>6. ASSUME NEW h \in Hotkeys \ unseen PROVE CountedFor(h, entry[h], through)'
      BY <2>1, <3>1, <3>5 DEF CountedFor, Delivered
    <3> QED
      BY <2>1, <3>6 DEF Counted
  <2>3. CASE UNCHANGED unchanged
    BY <2>1, <2>3 DEF unchanged, Counted, CountedFor, Delivered
  <2> QED
    BY <2>1, <2>2, <2>3
<1>2. CASE RunModel
  <2>1. PICK h \in todo, delivers \in BOOLEAN :
          /\ records' = [records EXCEPT ![runDay - 1][h] = [digest |-> pool[h], delivered |-> delivers]]
          /\ unseen' = IF delivers /\ runDay - 1 <= through THEN unseen \cup {h} ELSE unseen
    BY <1>2 DEF RunModel
  <2>2. UNCHANGED <<through, entry>> /\ runDay - 1 \in Calendar /\ h \in Hotkeys
    BY <1>2 DEF RunModel, unchanged, PoolTyped, PoolTypeOK
  <2>3. \A b \in Calendar, k \in Hotkeys :
          records'[b][k] = IF b = runDay - 1 /\ k = h THEN [digest |-> pool[h], delivered |-> delivers]
                           ELSE records[b][k]
    BY <2>1 DEF PoolTyped, PoolTypeOK
  <2>4. ~Delivered(runDay - 1, h)
    BY <1>2 DEF RunModel, PoolTyped, NoRecord, Delivered
  <2>5. ASSUME NEW k \in Hotkeys \ unseen' PROVE CountedFor(k, entry[k], through)'
    <3>1. CountedFor(k, entry[k], through)
      BY <2>1, <2>5 DEF Counted
    <3>2. \A b \in Calendar : b <= through =>
            Delivered(b, k)' = Delivered(b, k)
            /\ (Delivered(b, k) => records'[b][k] = records[b][k])
      BY <2>1, <2>3, <2>4, <2>5 DEF Delivered, PoolTyped, PoolTypeOK
    <3>3. /\ Calendar \subseteq Nat /\ through \in Nat
      BY DEF PoolTyped, PoolTypeOK, Calendar, Never
    <3>4. CASE entry[k] = NoEntry
      BY <2>2, <3>1, <3>2, <3>4 DEF CountedFor
    <3>5. CASE entry[k] # NoEntry
      <4>1. /\ entry[k].digest # NoDigest
            /\ entry[k].since \in Calendar /\ entry[k].since <= through
            /\ Delivered(entry[k].since, k)
        BY <3>1, <3>5 DEF CountedFor
      <4>2. ASSUME NEW b \in Calendar, b < entry[k].since PROVE b <= through
        <5>1. b \in Nat /\ entry[k].since \in Nat /\ through \in Nat
          BY <3>3, <4>1
        <5> QED
          BY <4>1, <4>2, <5>1
      <4>3. \A b \in Calendar : entry[k].since <= b /\ b <= through /\ Delivered(b, k)'
              => records'[b][k].digest = entry[k].digest
        BY <3>1, <3>2, <3>5 DEF CountedFor
      <4>4. ASSUME NEW b \in Calendar, b < entry[k].since, Delivered(b, k)',
                   \A c \in Calendar : c < entry[k].since /\ Delivered(c, k)' => c <= b
            PROVE  records'[b][k].digest # entry[k].digest
        <5>1. Delivered(b, k) /\ records'[b][k] = records[b][k]
          BY <3>2, <4>2, <4>4
        <5>2. \A c \in Calendar : c < entry[k].since /\ Delivered(c, k) => c <= b
          BY <3>2, <4>2, <4>4
        <5> QED
          BY <3>1, <3>5, <4>4, <5>1, <5>2 DEF CountedFor
      <4> QED
        BY <2>2, <3>2, <3>5, <4>1, <4>3, <4>4 DEF CountedFor
    <3> QED
      BY <3>4, <3>5
  <2> QED
    BY <2>5 DEF Counted
<1>3. CASE \/ NextDay \/ Commit \/ StartIntake \/ GateNext \/ RewriteAdmitted \/ IntakeRaises
           \/ MarkRun \/ ApplyPenalties \/ PipelineDies \/ UNCHANGED poolVars
  <2>1. UNCHANGED <<records, entry, through, unseen>>
    BY <1>3 DEF NextDay, Commit, StartIntake, GateNext, RewriteAdmitted, IntakeRaises,
                MarkRun, ApplyPenalties, PipelineDies, poolVars, shadow, unchanged, history
  <2> QED
    BY <2>1 DEF Counted, CountedFor, Delivered
<1> QED
  BY <1>1, <1>2, <1>3 DEF PoolNext

\* The count agrees with the shadow ledger whatever is committed, removed, resumed
\* or cut off, for hotkeys that did not deliver on a basket folded in before.
THEOREM CountAgrees == PoolSpec => []CountIsTrue
<1>1. PoolInit => Counted
  BY DEF PoolInit, Counted, CountedFor, NoEntry, NoRecord, Delivered
<1>2. PoolTyped /\ Counted => CountIsTrue
  <2> SUFFICES ASSUME PoolTyped, Counted, NEW h \in Hotkeys \ unseen, entry[h] # NoEntry
               PROVE  LET e == entry[h]
                          on(S) == {b \in S : Delivered(b, h)}
                      IN /\ e.since \in on(Calendar)
                         /\ \A b \in on(e.since .. through) : records[b][h].digest = e.digest
                         /\ LET before == on(1 .. (e.since - 1))
                            IN before # {} => records[Latest(before)][h].digest # e.digest
    BY DEF CountIsTrue
  <2> DEFINE e == entry[h]
             before == {b \in 1 .. (e.since - 1) : Delivered(b, h)}
  <2>1. CountedFor(h, e, through)
    BY DEF Counted
  <2>2. /\ Calendar = 1 .. LastDay /\ LastDay \in Nat
        /\ through \in Nat /\ through <= LastDay
    BY PoolDaysAssumption DEF PoolTyped, PoolTypeOK, Calendar, Never
  <2>3. /\ e.since \in Calendar /\ e.since <= through /\ Delivered(e.since, h)
        /\ \A b \in Calendar : e.since <= b /\ b <= through /\ Delivered(b, h)
                                 => records[b][h].digest = e.digest
        /\ \A b \in Calendar :
             /\ b < e.since /\ Delivered(b, h)
             /\ \A c \in Calendar : c < e.since /\ Delivered(c, h) => c <= b
             => records[b][h].digest # e.digest
    BY <2>1 DEF CountedFor
  <2> HIDE DEF e
  <2>4. \A b \in e.since .. through : b \in Calendar /\ e.since <= b /\ b <= through
    BY <2>2, <2>3
  <2>5. \A b \in Calendar : b \in before <=> b < e.since /\ Delivered(b, h)
    BY <2>2, <2>3
  <2>6. before \subseteq Calendar
    BY <2>2, <2>3
  <2>7. before # {} => records[Latest(before)][h].digest # e.digest
    <3> SUFFICES ASSUME before # {} PROVE records[Latest(before)][h].digest # e.digest
      OBVIOUS
    <3> HIDE DEF before
    <3>1. Latest(before) \in before /\ \A c \in before : c <= Latest(before)
      BY <2>6, LatestIsLast
    <3> QED
      BY <2>3, <2>5, <2>6, <3>1
  <2> QED
    BY <2>3, <2>4, <2>7 DEF e
<1> QED
  BY <1>1, <1>2, PoolInitTyped, PoolStepTyped, CountedStep, PTL DEF PoolSpec
=============================================================================
