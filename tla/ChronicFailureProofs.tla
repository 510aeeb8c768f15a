------------------------- MODULE ChronicFailureProofs -------------------------
(***************************************************************************)
(* Type correctness of the liveness policy, the floor under the field, the *)
(* log line behind every stored eviction, the append-only log, and the     *)
(* windowed read that suffices, for any models, days, policy numbers,      *)
(* reruns and crashes; and, for every model but those whose new state a    *)
(* crash threw away (`torn'), that states follow the log and every         *)
(* eviction that stands was earned (`Sound').                              *)
(***************************************************************************)
EXTENDS ChronicFailure, FiniteSetTheorems, WellFoundedInduction, TLAPS

-----------------------------------------------------------------------------
(* Facts about the helpers. *)

LEMMA KindType == \A run \in Runs : KindOf(run) \in ObservationKinds
BY RunsAssumption DEF KindOf, ObservationKinds

LEMMA NoRunIsNoRun == NoRun \notin Runs
BY RunsAssumption DEF NoRun, Errors

\* A set of models is finite.
LEMMA ModelsFinite == \A S \in SUBSET Hotkeys : IsFiniteSet(S) /\ Cardinality(S) \in Nat
BY HotkeysAssumption, FS_Subset, FS_CardinalityType

LEMMA OtherEvictionsFinite ==
  ASSUME TypeOK, NEW h \in Hotkeys
  PROVE  Cardinality(OtherEvictions(h)) \in Nat
<1>1. Len(mlife[h]) \in Nat
  BY DEF TypeOK
<1>2. IsFiniteSet(1 .. Len(mlife[h]))
  BY <1>1, FS_Interval
<1>3. OtherEvictions(h) \subseteq 1 .. Len(mlife[h])
  BY DEF OtherEvictions
<1> QED  BY <1>2, <1>3, FS_Subset, FS_CardinalityType

LEMMA PreviousEvictionType ==
  ASSUME TypeOK, NEW h \in Hotkeys
  PROVE  PreviousEvictionDay(h) \subseteq Days \cup {NoDay}
<1>1. mlife[h] \in Seq(Lines)
  BY DEF TypeOK
<1>2. \A i \in 1 .. Len(mlife[h]) : mlife[h][i] \in Lines
  BY <1>1
<1>3. \A i \in 1 .. Len(mlife[h]) : mlife[h][i].day \in Days
  BY <1>2 DEF Lines
<1> QED  BY <1>3 DEF PreviousEvictionDay, OtherEvictions

-----------------------------------------------------------------------------
(* Type correctness. *)

LEMMA InitTypes == Init => TypeOK
BY DaysAssumption DEF Init, TypeOK, Days, NoRuns, NoObs, NoLife, NoStates, FreshState,
   EvictionStates, NoDay

\* What Turn and Emit leave of the types, shared by the five outcomes.
LEMMA TurnTypes ==
  ASSUME TypeOK, NEW h \in Hotkeys, Turn(h)
  PROVE  /\ mobs' \in [Days -> [Hotkeys -> ObservationKinds \cup {NoKind}]]
         /\ queue' \in SUBSET {k \in Hotkeys : runs'[k] # NoRun}
         /\ day \in Days /\ Kind(h) \in ObservationKinds
         /\ UNCHANGED <<shadow, durable, pc, todo, day, runs, field, fate>>
<1>1. h \in queue /\ pc = "models"
  BY DEF Turn
<1>2. day \in Days /\ runs[h] \in Runs
  BY <1>1 DEF TypeOK
<1>3. Kind(h) \in ObservationKinds
  BY <1>2, KindType DEF Kind
<1>4. mobs' \in [Days -> [Hotkeys -> ObservationKinds \cup {NoKind}]]
  BY <1>2, <1>3 DEF Turn, Note, TypeOK
<1> QED  BY <1>2, <1>3, <1>4 DEF Turn, TypeOK

LEMMA EmitTypes ==
  ASSUME TypeOK, NEW h \in Hotkeys, NEW kind \in LifecycleKinds, day \in Days, Emit(h, kind)
  PROVE  mlife' \in [Hotkeys -> Seq(Lines)]
<1>1. [kind |-> kind, day |-> day] \in Lines
  BY DEF Lines
<1>2. mlife[h] \in Seq(Lines)
  BY DEF TypeOK
<1>3. Append(mlife[h], [kind |-> kind, day |-> day]) \in Seq(Lines)
  BY <1>1, <1>2
<1> QED  BY <1>3 DEF Emit, TypeOK

LEMMA ObserveTypes ==
  ASSUME TypeOK, NEW h \in Hotkeys, ObserveModel(h)
  PROVE  TypeOK'
<1>1. Turn(h)
  BY DEF ObserveModel, RetractEviction, Evict, WithholdEviction, Reinstate, JustNote
<1>2. mem[h] \in EvictionStates
  BY DEF TypeOK
<1>3. SUFFICES mlife' \in [Hotkeys -> Seq(Lines)] /\ mem' \in [Hotkeys -> EvictionStates]
  BY <1>1, TurnTypes DEF TypeOK, shadow, durable, fate
<1>4. CASE RetractEviction(h)
  <2>1. mlife' \in [Hotkeys -> Seq(Lines)]
    BY <1>1, <1>4, TurnTypes, EmitTypes DEF RetractEviction, LifecycleKinds
  <2>2. PICK prev \in PreviousEvictionDay(h) :
          mem' = [mem EXCEPT ![h] =
                    [evicted_on |-> NoDay,
                     evictions_total |-> Cardinality(OtherEvictions(h)),
                     last_eviction_on |-> prev,
                     not_before |-> NoDay]]
    BY <1>4 DEF RetractEviction
  <2>3. mem' \in [Hotkeys -> EvictionStates]
    BY <2>2, OtherEvictionsFinite, PreviousEvictionType DEF TypeOK, EvictionStates, NoDay
  <2> QED  BY <2>1, <2>3
<1>5. CASE Evict(h)
  <2>1. mlife' \in [Hotkeys -> Seq(Lines)]
    BY <1>1, <1>5, TurnTypes, EmitTypes DEF Evict, LifecycleKinds
  <2>2. (IF IsRepeat(mem[h]) THEN day + ReviewDays ELSE day) \in Nat
    BY <1>1, TurnTypes, DaysAssumption, ParamsAssumption DEF Days
  <2>3. mem[h].evictions_total + 1 \in Nat
    BY <1>2 DEF EvictionStates
  <2>4. mem' \in [Hotkeys -> EvictionStates]
    BY <1>1, <1>5, <2>2, <2>3, TurnTypes DEF Evict, TypeOK, EvictionStates
  <2> QED  BY <2>1, <2>4
<1>6. CASE WithholdEviction(h)
  BY <1>1, <1>6, TurnTypes, EmitTypes DEF WithholdEviction, LifecycleKinds, TypeOK
<1>7. CASE Reinstate(h)
  <2>1. mlife' \in [Hotkeys -> Seq(Lines)]
    BY <1>1, <1>7, TurnTypes, EmitTypes DEF Reinstate, LifecycleKinds
  <2>2. mem' \in [Hotkeys -> EvictionStates]
    BY <1>2, <1>7 DEF Reinstate, TypeOK, EvictionStates, NoDay
  <2> QED  BY <2>1, <2>2
<1>8. CASE JustNote(h)
  BY <1>8 DEF JustNote, TypeOK
<1> QED  BY <1>4, <1>5, <1>6, <1>7, <1>8 DEF ObserveModel

\* What the process holds after it ended or died has its types.
LEMMA ForgetTypes ==
  ASSUME Forget
  PROVE  /\ pc' = "idle" /\ todo' \in SUBSET Days /\ day' = NoDay
         /\ runs' \in [Hotkeys -> Runs \cup {NoRun}] /\ queue' = {}
         /\ mobs' \in [Days -> [Hotkeys -> ObservationKinds \cup {NoKind}]]
         /\ mlife' \in [Hotkeys -> Seq(Lines)]
         /\ mem' \in [Hotkeys -> EvictionStates]
         /\ field' \in SUBSET Hotkeys
BY DEF Forget, NoRuns, NoObs, NoLife, NoStates, FreshState, EvictionStates, NoDay

LEMMA StepTypes == TypeOK /\ [Next]_vars => TypeOK'
<1> SUFFICES ASSUME TypeOK, [Next]_vars PROVE TypeOK'
  OBVIOUS
<1>1. CASE NextDay
  BY <1>1, DaysAssumption DEF NextDay, TypeOK, Days, durable, volatile, fate
<1>2. ASSUME NEW d \in Days, NEW h \in Hotkeys, NEW run \in Runs, RecordDay(d, h, run)
      PROVE  TypeOK'
  <2>1. ledger' \in [Days -> [Hotkeys -> Runs \cup {NoRun}]] /\ reruns' \in Nat
    BY <1>2 DEF RecordDay, TypeOK
  <2> QED  BY <1>2, <2>1 DEF RecordDay, TypeOK, durable, volatile, fate
<1>3. CASE LoadLedgers
  <2>1. LoadedObs \in [Days -> [Hotkeys -> ObservationKinds \cup {NoKind}]]
    BY DEF LoadedObs, NoObs, TypeOK
  <2> QED  BY <1>3, <2>1 DEF LoadLedgers, LoadedLife, DaysToObserve, TypeOK, shadow, durable, fate
<1>4. CASE StartDay
  <2>1. PICK d \in todo : /\ todo' = todo \ {d} /\ day' = d /\ runs' = ledger[d]
                          /\ queue' = DayRuns(d) /\ field' = field \cup DayRuns(d)
    BY <1>4 DEF StartDay
  <2>2. d \in Days /\ DayRuns(d) \subseteq Hotkeys
    BY <2>1 DEF TypeOK, DayRuns, RanOn
  <2>3. queue' \in SUBSET {k \in Hotkeys : runs'[k] # NoRun}
    BY <2>1 DEF DayRuns, RanOn
  <2> QED  BY <1>4, <2>1, <2>2, <2>3 DEF StartDay, TypeOK, shadow, durable, fate
<1>5. CASE \E h \in Hotkeys : ObserveModel(h)
  BY <1>5, ObserveTypes
<1>6. CASE EndDay
  BY <1>6 DEF EndDay, NoRuns, TypeOK, shadow, durable, fate
<1>7. CASE AppendStrikeEvents
  <2>1. obs' \in [Days -> [Hotkeys -> ObservationKinds \cup {NoKind}]]
    BY <1>7 DEF AppendStrikeEvents, Overlay, TypeOK
  <2> QED  BY <1>7, <2>1 DEF AppendStrikeEvents, TypeOK, shadow, volatile, fate
<1>8. CASE SaveEvictionStates
  BY <1>8, ForgetTypes DEF SaveEvictionStates, TypeOK, shadow, fate, NoDay
<1>9. CASE Crash
  <2>1. crashes' \in Nat
    BY <1>9 DEF Crash, TypeOK
  <2>2. torn' \in SUBSET Hotkeys
    BY <1>9 DEF Crash, Unsaved, TypeOK
  <2>3. Forget /\ UNCHANGED <<shadow, durable>>
    BY <1>9 DEF Crash
  <2> QED  BY <2>1, <2>2, <2>3, ForgetTypes DEF TypeOK, shadow, durable, NoDay
<1>10. CASE UNCHANGED vars
  BY <1>10 DEF vars, TypeOK, shadow, durable, volatile, fate
<1> QED
  BY <1>1, <1>2, <1>3, <1>4, <1>5, <1>6, <1>7, <1>8, <1>9, <1>10 DEF Next, Loop

\* Every state the liveness step, the executor and the calendar can reach
\* together is well typed, crashes included.
THEOREM TypeCorrect == Spec => []TypeOK
BY InitTypes, StepTypes, PTL DEF Spec

-----------------------------------------------------------------------------
(* The floor.  The stored states alone are not inductive: the step in      *)
(* flight must keep the floor over the field it counts, and a model that   *)
(* has no state yet must not be out.                                       *)

Alive(st, f) == {h \in f : st[h].evicted_on = NoDay}

FloorHolds(st, f) ==
  /\ (\E h \in f : st[h].evicted_on # NoDay) => Cardinality(Alive(st, f)) >= MinSurvivors
  /\ \A h \in Hotkeys \ f : st[h].evicted_on = NoDay

FieldInv ==
  /\ TypeOK
  /\ FloorHolds(states, known)
  /\ FloorHolds(mem, field)
  /\ queue \subseteq field
  /\ pc # "models" => queue = {}

\* A model's state may lose its eviction and the field may grow by models
\* that are not out: the floor stays.
LEMMA FloorKept ==
  ASSUME NEW st, NEW st2, NEW f \in SUBSET Hotkeys, NEW f2 \in SUBSET Hotkeys,
         FloorHolds(st, f), f \subseteq f2,
         \A h \in Hotkeys : st[h].evicted_on = NoDay => st2[h].evicted_on = NoDay
  PROVE  FloorHolds(st2, f2)
<1>1. Alive(st, f) \subseteq Alive(st2, f2)
  BY DEF Alive
<1>2. IsFiniteSet(Alive(st2, f2)) /\ Alive(st2, f2) \in SUBSET Hotkeys
  BY ModelsFinite DEF Alive
<1>3. /\ Cardinality(Alive(st, f)) <= Cardinality(Alive(st2, f2))
      /\ Cardinality(Alive(st, f)) \in Nat /\ Cardinality(Alive(st2, f2)) \in Nat
  BY <1>1, <1>2, FS_Subset, FS_CardinalityType
<1>4. \A h \in Hotkeys \ f2 : st2[h].evicted_on = NoDay
  BY DEF FloorHolds
<1>5. ASSUME NEW h \in f2, st2[h].evicted_on # NoDay
      PROVE  Cardinality(Alive(st2, f2)) >= MinSurvivors
  <2>1. h \in f /\ st[h].evicted_on # NoDay
    BY <1>5 DEF FloorHolds
  <2>2. Cardinality(Alive(st, f)) >= MinSurvivors
    BY <2>1 DEF FloorHolds
  <2> QED  BY <1>3, <2>2 DEF MinSurvivors
<1> QED  BY <1>4, <1>5 DEF FloorHolds

LEMMA FreshFloor == FloorHolds(NoStates, {})
BY DEF FloorHolds, NoStates, FreshState

LEMMA ObserveFloor ==
  ASSUME FieldInv, NEW h \in Hotkeys, ObserveModel(h)
  PROVE  FloorHolds(mem', field) /\ h \in field
<1> USE DEF FieldInv
<1>1. Turn(h)
  BY DEF ObserveModel, RetractEviction, Evict, WithholdEviction, Reinstate, JustNote
<1>2. h \in field
  BY <1>1 DEF Turn
<1>3. field \in SUBSET Hotkeys /\ mem \in [Hotkeys -> EvictionStates] /\ day \in Days
  BY <1>1, TurnTypes DEF TypeOK
<1>4. CASE Evict(h)
  <2>1. Cardinality(SurvivorsWithout(h)) >= MinSurvivors
    <3>1. SurvivorsWithout(h) \in SUBSET Hotkeys
      BY <1>3 DEF SurvivorsWithout
    <3>2. Cardinality(SurvivorsWithout(h)) \in Nat
      BY <3>1, ModelsFinite
    <3>3. ~(Cardinality(SurvivorsWithout(h)) < MinSurvivors)
      BY <1>4 DEF Evict, EvictionBlocked
    <3> QED  BY <3>2, <3>3 DEF MinSurvivors
  <2>2. day # NoDay
    BY <1>3, DaysAssumption DEF Days, NoDay
  <2>3. mem'[h].evicted_on = day /\ \A k \in Hotkeys \ {h} : mem'[k] = mem[k]
    BY <1>3, <1>4 DEF Evict
  <2>4. Alive(mem', field) = SurvivorsWithout(h)
    BY <1>3, <2>2, <2>3 DEF Alive, SurvivorsWithout
  <2>5. \A k \in Hotkeys \ field : mem'[k].evicted_on = NoDay
    BY <1>2, <2>3 DEF FloorHolds
  <2> QED  BY <1>2, <2>1, <2>4, <2>5 DEF FloorHolds
<1>5. CASE ~Evict(h)
  <2>1. \A k \in Hotkeys : mem[k].evicted_on = NoDay => mem'[k].evicted_on = NoDay
    <3>1. CASE RetractEviction(h)
      <4>1. PICK prev \in PreviousEvictionDay(h) :
              mem' = [mem EXCEPT ![h] =
                        [evicted_on |-> NoDay,
                         evictions_total |-> Cardinality(OtherEvictions(h)),
                         last_eviction_on |-> prev,
                         not_before |-> NoDay]]
        BY <3>1 DEF RetractEviction
      <4> QED  BY <1>3, <4>1
    <3>2. CASE WithholdEviction(h) \/ JustNote(h)
      BY <3>2 DEF WithholdEviction, JustNote
    <3>3. CASE Reinstate(h)
      BY <1>3, <3>3 DEF Reinstate, EvictionStates
    <3> QED  BY <1>5, <3>1, <3>2, <3>3 DEF ObserveModel
  <2> QED  BY <1>2, <1>3, <2>1, FloorKept
<1> QED  BY <1>2, <1>4, <1>5

LEMMA InitField == Init => FieldInv
BY InitTypes, FreshFloor DEF Init, FieldInv

LEMMA StepField == FieldInv /\ [Next]_vars => FieldInv'
<1> SUFFICES ASSUME FieldInv, [Next]_vars PROVE FieldInv'
  OBVIOUS
<1> USE DEF FieldInv
<1>1. TypeOK'
  BY StepTypes
<1>2. CASE NextDay
  BY <1>1, <1>2 DEF NextDay, durable, volatile, FloorHolds, Alive
<1>3. ASSUME NEW d \in Days, NEW h \in Hotkeys, NEW run \in Runs, RecordDay(d, h, run)
      PROVE  FieldInv'
  BY <1>1, <1>3 DEF RecordDay, durable, volatile, FloorHolds, Alive
<1>4. CASE LoadLedgers
  <2>2. mem' = states /\ field' = known /\ queue' = queue /\ UNCHANGED durable
    BY <1>4 DEF LoadLedgers
  <2>3. queue' = {}
    BY <1>4 DEF LoadLedgers
  <2> QED  BY <1>1, <2>2, <2>3 DEF durable, FloorHolds, Alive
<1>5. CASE StartDay
  <2>1. PICK d \in todo : queue' = DayRuns(d) /\ field' = field \cup DayRuns(d)
    BY <1>5 DEF StartDay
  <2>2. field' \in SUBSET Hotkeys /\ field \in SUBSET Hotkeys
    BY <1>1 DEF TypeOK
  <2>3. mem' = mem /\ UNCHANGED durable /\ pc' = "models"
    BY <1>5 DEF StartDay
  <2>4. FloorHolds(mem, field')
    BY <2>1, <2>2, FloorKept
  <2> QED  BY <1>1, <2>1, <2>3, <2>4 DEF durable, FloorHolds, Alive
<1>6. ASSUME NEW h \in Hotkeys, ObserveModel(h) PROVE FieldInv'
  <2>1. Turn(h)
    BY <1>6 DEF ObserveModel, RetractEviction, Evict, WithholdEviction, Reinstate, JustNote
  <2>2. UNCHANGED <<durable, field>> /\ queue' \subseteq queue /\ pc' = "models"
    BY <2>1 DEF Turn
  <2>3. FloorHolds(mem', field)
    BY <1>6, ObserveFloor
  <2> QED  BY <1>1, <2>2, <2>3 DEF durable, FloorHolds, Alive
<1>7. CASE EndDay
  BY <1>1, <1>7 DEF EndDay, durable, FloorHolds, Alive
<1>8. CASE AppendStrikeEvents
  BY <1>1, <1>8 DEF AppendStrikeEvents, volatile, FloorHolds, Alive
<1>9. CASE SaveEvictionStates
  <2>1. states' = mem /\ known' = field /\ mem' = NoStates /\ field' = {} /\ queue' = {}
    BY <1>9 DEF SaveEvictionStates, Forget
  <2>2. FloorHolds(states', known') /\ FloorHolds(mem', field')
    BY <2>1, FreshFloor
  <2> QED  BY <1>1, <2>1, <2>2 DEF FloorHolds, Alive
<1>10. CASE Crash
  <2>1. UNCHANGED durable /\ mem' = NoStates /\ field' = {} /\ queue' = {}
    BY <1>10 DEF Crash, Forget
  <2>2. FloorHolds(mem', field')
    BY <2>1, FreshFloor
  <2> QED  BY <1>1, <2>1, <2>2 DEF durable, FloorHolds, Alive
<1>11. CASE UNCHANGED vars
  BY <1>1, <1>11 DEF vars, durable, volatile, FloorHolds, Alive
<1> QED
  BY <1>2, <1>3, <1>4, <1>5, <1>6, <1>7, <1>8, <1>9, <1>10, <1>11 DEF Next, Loop

\* Whatever the results, their order, the reruns and the crashes: the stored
\* states never put the last min_survivors models out.
THEOREM FieldSafe == Spec => []FieldNeverEmpties
<1>1. FieldInv => FieldNeverEmpties
  BY DEF FieldInv, FloorHolds, Alive, FieldNeverEmpties
<1> QED  BY InitField, StepField, <1>1, PTL DEF Spec

-----------------------------------------------------------------------------
(* The log.  While a step is in flight its copy of the log extends the     *)
(* stored one, and once the log is written the two are the same.           *)

Extends(s, t) == Len(s) <= Len(t) /\ \A i \in 1 .. Len(s) : t[i] = s[i]

HasLine(st, lines) ==
  \A h \in Hotkeys : st[h].evicted_on # NoDay =>
    \E i \in 1 .. Len(lines[h]) :
      lines[h][i] = [kind |-> "evicted", day |-> st[h].evicted_on]

LogInv ==
  /\ TypeOK
  /\ pc # "idle" => \A h \in Hotkeys : Extends(life[h], mlife[h])
  /\ pc = "save" => life = mlife
  /\ HasLine(states, life)
  /\ HasLine(mem, mlife)

LEMMA LineKept ==
  ASSUME NEW st, NEW lines, NEW longer, HasLine(st, lines),
         \A h \in Hotkeys : lines[h] \in Seq(Lines) /\ longer[h] \in Seq(Lines),
         \A h \in Hotkeys : Extends(lines[h], longer[h])
  PROVE  HasLine(st, longer)
<1> SUFFICES ASSUME NEW h \in Hotkeys, st[h].evicted_on # NoDay
             PROVE  \E i \in 1 .. Len(longer[h]) :
                      longer[h][i] = [kind |-> "evicted", day |-> st[h].evicted_on]
  BY DEF HasLine
<1>1. PICK i \in 1 .. Len(lines[h]) :
        lines[h][i] = [kind |-> "evicted", day |-> st[h].evicted_on]
  BY DEF HasLine
<1>2. Len(lines[h]) \in Nat /\ Len(longer[h]) \in Nat
  OBVIOUS
<1>3. i \in 1 .. Len(longer[h]) /\ longer[h][i] = lines[h][i]
  BY <1>1, <1>2 DEF Extends
<1> QED  BY <1>1, <1>3

LEMMA EmitExtends ==
  ASSUME TypeOK, NEW h \in Hotkeys, NEW kind, Emit(h, kind)
  PROVE  /\ \A k \in Hotkeys : Extends(mlife[k], mlife'[k])
         /\ Len(mlife[h]) + 1 \in 1 .. Len(mlife'[h])
         /\ mlife'[h][Len(mlife[h]) + 1] = [kind |-> kind, day |-> day]
<1>1. mlife \in [Hotkeys -> Seq(Lines)] /\ mlife[h] \in Seq(Lines)
  BY DEF TypeOK
<1>2. mlife'[h] = Append(mlife[h], [kind |-> kind, day |-> day])
  BY <1>1 DEF Emit
<1>3. /\ Len(mlife[h]) \in Nat /\ Len(mlife'[h]) = Len(mlife[h]) + 1
      /\ mlife'[h][Len(mlife[h]) + 1] = [kind |-> kind, day |-> day]
      /\ \A i \in 1 .. Len(mlife[h]) : mlife'[h][i] = mlife[h][i]
  BY <1>1, <1>2
<1>4. Extends(mlife[h], mlife'[h]) /\ Len(mlife[h]) + 1 \in 1 .. Len(mlife'[h])
  BY <1>3 DEF Extends
<1>5. ASSUME NEW k \in Hotkeys \ {h} PROVE Extends(mlife[k], mlife'[k])
  <2>1. mlife'[k] = mlife[k] /\ Len(mlife[k]) \in Nat
    BY <1>1, <1>5 DEF Emit
  <2> QED  BY <2>1 DEF Extends
<1> QED  BY <1>3, <1>4, <1>5

\* One model's turn adds lines only, and an eviction adds its own.
LEMMA ObserveLog ==
  ASSUME LogInv, TypeOK', NEW h \in Hotkeys, ObserveModel(h)
  PROVE  /\ \A k \in Hotkeys : Extends(mlife[k], mlife'[k])
         /\ HasLine(mem', mlife')
<1> USE DEF LogInv
<1>1. /\ mem \in [Hotkeys -> EvictionStates] /\ mlife \in [Hotkeys -> Seq(Lines)]
      /\ mlife' \in [Hotkeys -> Seq(Lines)]
  BY DEF TypeOK
<1>2. \A k \in Hotkeys : Extends(mlife[k], mlife'[k])
  <2>1. CASE mlife' = mlife
    <3>1. \A k \in Hotkeys : Len(mlife[k]) \in Nat
      BY <1>1
    <3> QED  BY <2>1, <3>1 DEF Extends
  <2>2. CASE \E kind \in LifecycleKinds : Emit(h, kind)
    BY <2>2, EmitExtends
  <2> QED
    BY <2>1, <2>2
    DEF ObserveModel, RetractEviction, Evict, WithholdEviction, Reinstate, JustNote, LifecycleKinds
<1>3. HasLine(mem, mlife')
  BY <1>1, <1>2, LineKept
<1>4. CASE Evict(h)
  <2>1. mlife'[h][Len(mlife[h]) + 1] = [kind |-> "evicted", day |-> day]
        /\ Len(mlife[h]) + 1 \in 1 .. Len(mlife'[h])
    BY <1>4, EmitExtends DEF Evict
  <2>2. mem'[h].evicted_on = day /\ \A k \in Hotkeys \ {h} : mem'[k] = mem[k]
    BY <1>1, <1>4 DEF Evict
  <2> QED  BY <1>2, <1>3, <2>1, <2>2 DEF HasLine
<1>5. CASE RetractEviction(h)
  <2>1. PICK prev \in PreviousEvictionDay(h) :
          mem' = [mem EXCEPT ![h] =
                    [evicted_on |-> NoDay,
                     evictions_total |-> Cardinality(OtherEvictions(h)),
                     last_eviction_on |-> prev,
                     not_before |-> NoDay]]
    BY <1>5 DEF RetractEviction
  <2> QED  BY <1>1, <1>2, <1>3, <2>1 DEF HasLine
<1>6. CASE Reinstate(h)
  <2>1. mem'[h].evicted_on = NoDay /\ \A k \in Hotkeys \ {h} : mem'[k] = mem[k]
    BY <1>1, <1>6 DEF Reinstate, EvictionStates
  <2> QED  BY <1>2, <1>3, <2>1 DEF HasLine
<1>7. CASE WithholdEviction(h) \/ JustNote(h)
  <2>1. mem' = mem
    BY <1>7 DEF WithholdEviction, JustNote
  <2> QED  BY <1>2, <1>3, <2>1
<1> QED  BY <1>2, <1>4, <1>5, <1>6, <1>7 DEF ObserveModel

LEMMA FreshLines == \A lines : HasLine(NoStates, lines)
BY DEF HasLine, NoStates, FreshState

LEMMA InitLog == Init => LogInv
BY InitTypes, FreshLines DEF Init, LogInv

LEMMA SelfExtends == \A s \in Seq(Lines) : Extends(s, s)
BY DEF Extends

\* A step keeps the invariant, and its stored log extends the one before.
LEMMA StepLog ==
  LogInv /\ [Next]_vars => LogInv' /\ \A h \in Hotkeys : Extends(life[h], life'[h])
<1> SUFFICES ASSUME LogInv, [Next]_vars
             PROVE  LogInv' /\ \A h \in Hotkeys : Extends(life[h], life'[h])
  OBVIOUS
<1> USE DEF LogInv
<1>1. TypeOK'
  BY StepTypes
<1>2. /\ \A h \in Hotkeys : life[h] \in Seq(Lines) /\ mlife[h] \in Seq(Lines)
      /\ \A h \in Hotkeys : Extends(life[h], life[h])
  BY SelfExtends DEF TypeOK
<1>3. CASE NextDay
  BY <1>1, <1>2, <1>3 DEF NextDay, durable, volatile, HasLine
<1>4. ASSUME NEW d \in Days, NEW h \in Hotkeys, NEW run \in Runs, RecordDay(d, h, run)
      PROVE  LogInv' /\ \A k \in Hotkeys : Extends(life[k], life'[k])
  BY <1>1, <1>2, <1>4 DEF RecordDay, durable, volatile, HasLine
<1>5. CASE LoadLedgers
  BY <1>1, <1>2, <1>5 DEF LoadLedgers, LoadedLife, durable, HasLine
<1>6. CASE StartDay
  BY <1>1, <1>2, <1>6 DEF StartDay, durable, HasLine
<1>7. ASSUME NEW h \in Hotkeys, ObserveModel(h)
      PROVE  LogInv' /\ \A k \in Hotkeys : Extends(life[k], life'[k])
  <2>1. /\ \A k \in Hotkeys : Extends(mlife[k], mlife'[k])
        /\ HasLine(mem', mlife')
    BY <1>1, <1>7, ObserveLog
  <2>2. Turn(h)
    BY <1>7 DEF ObserveModel, RetractEviction, Evict, WithholdEviction, Reinstate, JustNote
  <2>3. UNCHANGED <<life, states>> /\ pc = "models" /\ pc' = "models"
    BY <2>2 DEF Turn, durable
  <2>4. \A k \in Hotkeys : mlife'[k] \in Seq(Lines)
    BY <1>1 DEF TypeOK
  <2>5. \A k \in Hotkeys : Extends(life[k], mlife'[k])
    <3> TAKE k \in Hotkeys
    <3>1. Extends(life[k], mlife[k]) /\ Extends(mlife[k], mlife'[k])
      BY <2>1, <2>3
    <3>2. Len(life[k]) \in Nat /\ Len(mlife[k]) \in Nat /\ Len(mlife'[k]) \in Nat
      BY <1>2, <2>4
    <3> QED  BY <3>1, <3>2 DEF Extends
  <2> QED  BY <1>1, <1>2, <2>1, <2>3, <2>5 DEF HasLine
<1>8. CASE EndDay
  BY <1>1, <1>2, <1>8 DEF EndDay, durable, HasLine
<1>9. CASE AppendStrikeEvents
  <2>1. /\ life' = mlife /\ pc' = "save" /\ pc = "fold"
        /\ UNCHANGED <<states, mlife, mem>>
    BY <1>9 DEF AppendStrikeEvents, volatile
  <2>2. \A h \in Hotkeys : Extends(life[h], life'[h]) /\ Extends(life'[h], mlife'[h])
    BY <1>2, <2>1, SelfExtends
  <2>3. HasLine(states, mlife)
    BY <1>2, <2>1, LineKept
  <2> QED  BY <1>1, <2>1, <2>2, <2>3 DEF HasLine
<1>10. CASE SaveEvictionStates
  <2>1. states' = mem /\ life' = life /\ pc = "save" /\ pc' = "idle" /\ mem' = NoStates
    BY <1>10 DEF SaveEvictionStates, Forget
  <2>2. HasLine(mem', mlife')
    BY <2>1, FreshLines
  <2> QED  BY <1>1, <1>2, <2>1, <2>2 DEF HasLine
<1>11. CASE Crash
  <2>1. UNCHANGED <<states, life>> /\ pc' = "idle" /\ mem' = NoStates
    BY <1>11 DEF Crash, Forget, durable
  <2>2. HasLine(mem', mlife')
    BY <2>1, FreshLines
  <2> QED  BY <1>1, <1>2, <2>1, <2>2 DEF HasLine
<1>12. CASE UNCHANGED vars
  BY <1>1, <1>2, <1>12 DEF vars, durable, volatile, HasLine
<1> QED
  BY <1>3, <1>4, <1>5, <1>6, <1>7, <1>8, <1>9, <1>10, <1>11, <1>12 DEF Next, Loop

\* A stored eviction has its line in the log, wherever the process died.
THEOREM EvictionBacked == Spec => []EvictionHasLine
<1>1. LogInv => EvictionHasLine
  BY DEF LogInv, HasLine, EvictionHasLine
<1> QED  BY InitLog, StepLog, <1>1, PTL DEF Spec

\* The strike log is append-only under every interleaving and crash.
THEOREM LogAppendOnly == Spec => LogOnlyGrows
<1>1. LogInv /\ [Next]_vars =>
        [\A h \in Hotkeys :
           /\ Len(life[h]) <= Len(life'[h])
           /\ \A i \in 1 .. Len(life[h]) : life'[h][i] = life[h][i]]_vars
  BY StepLog DEF Extends
<1>2. LogInv /\ [Next]_vars => LogInv'
  BY StepLog
<1> QED  BY InitLog, <1>1, <1>2, PTL DEF Spec, LogOnlyGrows

-----------------------------------------------------------------------------
(* The windowed read. *)

\* What the log in memory misses within the window, the stored log lacks too.
WindowRead ==
  pc \in {"fold", "models"} =>
    \A d \in Days, h \in Hotkeys : d >= Cutoff /\ mobs[d][h] = NoKind => obs[d][h] = NoKind

\* The result the fold looks at is an observation.
LEMMA KindNoted ==
  ASSUME TypeOK, NEW h \in Hotkeys, Turn(h)
  PROVE  /\ Kind(h) # NoKind /\ day \in Days
         /\ \A d \in Days, k \in Hotkeys :
              mobs'[d][k] = IF d = day /\ k = h THEN Kind(h) ELSE mobs[d][k]
<1>1. Kind(h) \in ObservationKinds /\ day \in Days
  BY TurnTypes
<1>2. Kind(h) # NoKind
  BY <1>1 DEF ObservationKinds, NoKind
<1> QED  BY <1>1, <1>2 DEF Turn, Note, TypeOK

LEMMA StepWindow == TypeOK /\ WindowRead /\ [Next]_vars => WindowRead'
<1> SUFFICES ASSUME TypeOK, WindowRead, [Next]_vars PROVE WindowRead'
  OBVIOUS
<1>0. today \in Nat /\ WindowDays \in Nat /\ LookbackDays \in Nat /\ Days \subseteq Nat
  BY DaysAssumption, ParamsAssumption DEF TypeOK, Days
<1>1. CASE NextDay
  <2>1. today' = today + 1 /\ UNCHANGED <<pc, mobs, obs>>
    BY <1>1 DEF NextDay, durable, volatile
  <2>2. \A d \in Days : d >= Cutoff' => d >= Cutoff
    BY <1>0, <2>1 DEF Cutoff
  <2> QED  BY <2>1, <2>2 DEF WindowRead
<1>2. ASSUME NEW d \in Days, NEW h \in Hotkeys, NEW run \in Runs, RecordDay(d, h, run)
      PROVE  WindowRead'
  BY <1>2 DEF RecordDay, durable, volatile, WindowRead, Cutoff
<1>3. CASE LoadLedgers
  BY <1>3 DEF LoadLedgers, shadow, durable, WindowRead, Cutoff, LoadedObs
<1>4. CASE StartDay
  BY <1>4 DEF StartDay, shadow, durable, WindowRead, Cutoff
<1>5. ASSUME NEW h \in Hotkeys, ObserveModel(h) PROVE WindowRead'
  <2>1. Turn(h)
    BY <1>5 DEF ObserveModel, RetractEviction, Evict, WithholdEviction, Reinstate, JustNote
  <2>2. UNCHANGED <<today, pc, obs>>
    BY <2>1 DEF Turn, shadow, durable
  <2> QED  BY <2>1, <2>2, KindNoted DEF WindowRead, Cutoff
<1>6. CASE EndDay
  BY <1>6 DEF EndDay, shadow, durable, WindowRead, Cutoff
<1>7. CASE AppendStrikeEvents
  BY <1>7 DEF AppendStrikeEvents, WindowRead
<1>8. CASE SaveEvictionStates \/ Crash
  BY <1>8 DEF SaveEvictionStates, Crash, Forget, WindowRead
<1>9. CASE UNCHANGED vars
  BY <1>9 DEF vars, shadow, durable, volatile, WindowRead, Cutoff
<1> QED
  BY <1>1, <1>2, <1>3, <1>4, <1>5, <1>6, <1>7, <1>8, <1>9 DEF Next, Loop

\* What load_strike_events drops never matters to a decision about a day within
\* the lookback, crashes included.
THEOREM WindowSuffices == Spec => []PruningIsInvisible
<1>1. Init => WindowRead
  BY DEF Init, WindowRead
<1>2. TypeOK /\ WindowRead => PruningIsInvisible
  <2> SUFFICES ASSUME TypeOK, WindowRead, pc = "models", day >= today - LookbackDays,
                      NEW h \in queue
               PROVE  StrikeDays(mobs, h, day, mem[h].last_eviction_on)
                        = StrikeDays(Overlay(obs, mobs), h, day, mem[h].last_eviction_on)
    BY DEF PruningIsInvisible
  <2>1. /\ h \in Hotkeys /\ day \in Days /\ today \in Nat /\ Days \subseteq Nat
        /\ WindowDays \in Nat /\ LookbackDays \in Nat
    BY DaysAssumption, ParamsAssumption DEF TypeOK, Days
  <2>2. ASSUME NEW d \in Days, day - WindowDays < d
        PROVE  mobs[d][h] = "strike" <=> Overlay(obs, mobs)[d][h] = "strike"
    <3>1. d >= Cutoff
      BY <2>1, <2>2 DEF Cutoff
    <3>2. Overlay(obs, mobs)[d][h] = IF mobs[d][h] # NoKind THEN mobs[d][h] ELSE obs[d][h]
      BY <2>1 DEF Overlay
    <3>3. "strike" # NoKind
      BY DEF NoKind
    <3> QED  BY <2>1, <3>1, <3>2, <3>3 DEF WindowRead
  <2> QED  BY <2>1, <2>2 DEF StrikeDays
<1> QED  BY <1>1, <1>2, InitTypes, StepTypes, StepWindow, PTL DEF Spec

-----------------------------------------------------------------------------
(* The history of a model: its lines, its observations and its state. *)

\* The lines of a model that decide who is out, and the evictions that no
\* retraction has cancelled, of any log.
MovesIn(s) == {i \in 1 .. Len(s) : s[i].kind # "eviction_withheld"}
StandingIn(s) ==
  {i \in MovesIn(s) :
     /\ s[i].kind = "evicted"
     /\ \A j \in MovesIn(s) :
          (j > i /\ \A k \in MovesIn(s) : k > i => j <= k)
             => s[j].kind # "eviction_retracted"}
\* The day of the last of them.
DayOfLast(s, B) == IF B = {} THEN NoDay ELSE s[LastOf(B)].day
Before(s, i) == {j \in StandingIn(s) : j < i}
StrikesBetween(o, h, lo, hi) == {d \in Days : lo < d /\ d < hi /\ o[d][h] = "strike"}

\* Lines come in the order of their days, each on an observed day; what follows
\* an eviction that stands is of a later day.
Dated(s, o, h) ==
  /\ \A i \in 1 .. Len(s) : o[s[i].day][h] # NoKind /\ \A j \in 1 .. i : s[j].day <= s[i].day
  /\ \A i \in StandingIn(s) : \A j \in MovesIn(s) : j > i => s[i].day < s[j].day

\* A model is out by its state exactly when its last move is an eviction, and the
\* strike of that day stands.
Agrees(s, o, st, h) ==
  /\ st.evicted_on # NoDay =>
       /\ WindowDays > 0
       /\ \E m \in MovesIn(s) : /\ s[m].kind = "evicted" /\ s[m].day = st.evicted_on
                                /\ \A k \in MovesIn(s) : k <= m
                                /\ o[s[m].day][h] = "strike"
  /\ st.evicted_on = NoDay =>
       \A m \in MovesIn(s) : s[m].kind = "evicted" => \E k \in MovesIn(s) : k > m

EarnedIn(s, o, h) ==
  \A i \in StandingIn(s) :
    Cardinality(StrikeDays(o, h, s[i].day, DayOfLast(s, Before(s, i)))) >= StrikesToEvict

\* The state counts from the last eviction that stands; or, if it forgot that one,
\* all but one of the strikes of an eviction lie after it.
Counts(s, o, st, h) ==
  LET last == DayOfLast(s, StandingIn(s))
  IN  \/ st.last_eviction_on >= last
      \/ \E j \in 1 .. Len(s) :
           Cardinality(StrikesBetween(o, h, last, s[j].day)) >= StrikesToEvict - 1

Sound(s, o, st, h) ==
  Dated(s, o, h) /\ Agrees(s, o, st, h) /\ EarnedIn(s, o, h) /\ Counts(s, o, st, h)

\* What is left of it for a model whose state was lost: its lines are of observed days.
OnDays(s, o, h) == \A i \in 1 .. Len(s) : o[s[i].day][h] # NoKind

\* The days the step still has to fold, the one it folds included, are none
\* before a line, and from them on the log in memory misses nothing.
Ahead == todo \cup (IF pc = "models" THEN {day} ELSE {})
FoldsOn ==
  /\ \A d \in Ahead : \A h \in Hotkeys :
       /\ \A i \in 1 .. Len(mlife[h]) : mlife[h][i].day <= d
       /\ WindowDays > 0 =>
            \A e \in Days : e >= d /\ mobs[e][h] = NoKind => obs[e][h] = NoKind
  /\ pc = "models" => \A d \in todo : day < d

\* Of the stored history outside the second write, and of the one in memory while
\* the step is on its way: a death falls back on the first.
StoredInv ==
  \A h \in Hotkeys :
    /\ OnDays(life[h], obs, h)
    /\ h \notin torn => Sound(life[h], obs, states[h], h)
HeldInv ==
  \A h \in Hotkeys :
    /\ OnDays(mlife[h], Overlay(obs, mobs), h)
    /\ h \notin torn => Sound(mlife[h], Overlay(obs, mobs), mem[h], h)

HistoryInv ==
  /\ pc # "save" => StoredInv
  /\ pc # "idle" => HeldInv
  /\ pc \in {"fold", "models"} => FoldsOn
  /\ pc = "save" => life = mlife /\ Overlay(obs, mobs) = obs

-----------------------------------------------------------------------------
(* Sequences of lines. *)

\* A nonempty set of positions has a last one, which LastOf returns.
LEMMA LastIsLast ==
  ASSUME NEW n \in Nat, NEW S, S \subseteq 1 .. n, S # {}
  PROVE  LastOf(S) \in S /\ \A j \in S : j <= LastOf(S)
<1> DEFINE T == {n - i : i \in S}
<1>0. \A i \in S : i \in Nat /\ n - i \in Nat
  OBVIOUS
<1>1. T \subseteq Nat /\ T # {}
  BY <1>0
<1>2. PICK m \in T : \A k \in T : <<k, m>> \notin OpToRel(<, Nat)
  BY <1>1, WFMin, NatLessThanWellFounded, Zenon
<1>3. \A k \in T : <<k, m>> \in Nat \X Nat
  BY <1>1
<1>4. \A k \in T : ~(k < m)
  BY <1>2, <1>3, Zenon DEF OpToRel
<1>5. PICK i \in S : m = n - i
  OBVIOUS
<1>6. \A j \in S : j <= i
  <2> TAKE j \in S
  <2>1. n - j \in T
    OBVIOUS
  <2>2. ~(n - j < n - i)
    BY <1>4, <1>5, <2>1
  <2> QED  BY <1>0, <2>2
<1> QED  BY <1>6 DEF LastOf

\* What a line that is appended does to the moves and to the evictions that stand.
LEMMA Appending ==
  ASSUME NEW s \in Seq(Lines), NEW line \in Lines
  PROVE  /\ Len(s) \in Nat /\ Len(Append(s, line)) = Len(s) + 1 /\ Append(s, line)[Len(s) + 1] = line
         /\ \A i \in 1 .. Len(s) : Append(s, line)[i] = s[i]
         /\ MovesIn(Append(s, line)) = IF line.kind = "eviction_withheld" THEN MovesIn(s)
                                                           ELSE MovesIn(s) \cup {Len(s) + 1}
         /\ line.kind \in {"eviction_withheld", "reinstated"} => StandingIn(Append(s, line)) = StandingIn(s)
         /\ line.kind = "evicted" => StandingIn(Append(s, line)) = StandingIn(s) \cup {Len(s) + 1}
         /\ line.kind = "eviction_retracted" =>
              StandingIn(Append(s, line)) = {i \in StandingIn(s) : \E k \in MovesIn(s) : k > i}
<1> SUFFICES ASSUME NEW t, t = Append(s, line)
             PROVE  /\ Len(s) \in Nat /\ Len(t) = Len(s) + 1 /\ t[Len(s) + 1] = line
                    /\ \A i \in 1 .. Len(s) : t[i] = s[i]
                    /\ MovesIn(t) = IF line.kind = "eviction_withheld" THEN MovesIn(s)
                                                                      ELSE MovesIn(s) \cup {Len(s) + 1}
                    /\ line.kind \in {"eviction_withheld", "reinstated"} => StandingIn(t) = StandingIn(s)
                    /\ line.kind = "evicted" => StandingIn(t) = StandingIn(s) \cup {Len(s) + 1}
                    /\ line.kind = "eviction_retracted" =>
                         StandingIn(t) = {i \in StandingIn(s) : \E k \in MovesIn(s) : k > i}
  OBVIOUS
<1> DEFINE n == Len(s) + 1
           After(m, i) == {j \in m : j > i /\ \A k \in m : k > i => j <= k}
<1>1. Len(s) \in Nat /\ Len(t) = n /\ t[n] = line /\ \A i \in 1 .. Len(s) : t[i] = s[i]
  OBVIOUS
<1>2. MovesIn(t) = IF line.kind = "eviction_withheld" THEN MovesIn(s) ELSE MovesIn(s) \cup {n}
  BY <1>1 DEF MovesIn
<1>3. \A i \in MovesIn(s) : i \in 1 .. Len(s) /\ t[i] = s[i] /\ i < n
  BY <1>1 DEF MovesIn
<1>4. ASSUME line.kind = "eviction_withheld" PROVE StandingIn(t) = StandingIn(s)
  <2>1. MovesIn(t) = MovesIn(s)
    BY <1>2, <1>4
  <2> QED  BY <1>3, <2>1 DEF StandingIn
<1>5. ASSUME line.kind # "eviction_withheld"
      PROVE  StandingIn(t) =
               {i \in StandingIn(s) : line.kind = "eviction_retracted" => \E k \in MovesIn(s) : k > i}
                 \cup (IF line.kind = "evicted" THEN {n} ELSE {})
  <2>1. MovesIn(t) = MovesIn(s) \cup {n}
    BY <1>2, <1>5
  <2>2. \A i : i \in StandingIn(s) <=>
          /\ i \in MovesIn(s) /\ s[i].kind = "evicted"
          /\ \A j \in After(MovesIn(s), i) : s[j].kind # "eviction_retracted"
    BY DEF StandingIn
  <2>3. \A i : i \in StandingIn(t) <=>
          /\ i \in MovesIn(t) /\ t[i].kind = "evicted"
          /\ \A j \in After(MovesIn(t), i) : t[j].kind # "eviction_retracted"
    BY DEF StandingIn
  <2>4. After(MovesIn(t), n) = {}
    BY <1>1, <1>3, <2>1
  <2>5. ASSUME NEW i \in MovesIn(s), \E k \in MovesIn(s) : k > i
        PROVE  After(MovesIn(t), i) = After(MovesIn(s), i)
    BY <1>1, <1>3, <2>1, <2>5
  <2>6. ASSUME NEW i \in MovesIn(s), ~(\E k \in MovesIn(s) : k > i)
        PROVE  After(MovesIn(t), i) = {n} /\ After(MovesIn(s), i) = {}
    BY <1>1, <1>3, <2>1, <2>6
  <2>7. \A i \in MovesIn(s) : \A j \in After(MovesIn(s), i) : t[j] = s[j]
    BY <1>3
  <2> HIDE DEF After
  <2>8. ASSUME NEW i \in MovesIn(s)
        PROVE  i \in StandingIn(t) <=>
                 i \in StandingIn(s) /\ (line.kind = "eviction_retracted" => \E k \in MovesIn(s) : k > i)
    <3>1. i \in MovesIn(t) /\ t[i] = s[i]
      BY <1>3, <2>1
    <3>4. i \in StandingIn(s) <=>
            s[i].kind = "evicted" /\ \A j \in After(MovesIn(s), i) : s[j].kind # "eviction_retracted"
      BY <2>2
    <3>5. i \in StandingIn(t) <=>
            s[i].kind = "evicted" /\ \A j \in After(MovesIn(t), i) : t[j].kind # "eviction_retracted"
      BY <2>3, <3>1
    <3>2. CASE \E k \in MovesIn(s) : k > i
      <4>1. After(MovesIn(t), i) = After(MovesIn(s), i)
        BY <2>5, <3>2
      <4>2. \A j \in After(MovesIn(t), i) : t[j].kind = s[j].kind
        BY <2>7, <4>1
      <4> QED  BY <3>2, <3>4, <3>5, <4>1, <4>2
    <3>3. CASE ~(\E k \in MovesIn(s) : k > i)
      <4>1. After(MovesIn(t), i) = {n} /\ After(MovesIn(s), i) = {}
        BY <2>6, <3>3
      <4> QED  BY <1>1, <3>3, <3>4, <3>5, <4>1
    <3> QED  BY <3>2, <3>3
  <2>9. n \in StandingIn(t) <=> line.kind = "evicted"
    BY <1>1, <2>1, <2>3, <2>4
  <2>10. \A i : (i \in StandingIn(t) => i \in MovesIn(s) \cup {n}) /\ (i \in StandingIn(s) => i \in MovesIn(s))
    BY <2>1, <2>2, <2>3
  <2>11. n \notin MovesIn(s)
    BY <1>1, <1>3
  <2> QED  BY <2>8, <2>9, <2>10, <2>11
<1>6. line.kind = "reinstated" => StandingIn(t) = StandingIn(s)
  BY <1>5
<1>7. line.kind = "evicted" => StandingIn(t) = StandingIn(s) \cup {n}
  BY <1>5
<1>8. line.kind = "eviction_retracted" =>
        StandingIn(t) = {i \in StandingIn(s) : \E k \in MovesIn(s) : k > i}
  BY <1>5
<1> QED  BY <1>1, <1>2, <1>4, <1>6, <1>7, <1>8

\* Positions have lines, and days; sets of days are finite.
LEMMA LineTypes ==
  ASSUME NEW s \in Seq(Lines)
  PROVE  /\ Len(s) \in Nat
         /\ \A i \in 1 .. Len(s) : s[i] \in Lines /\ s[i].day \in Days /\ s[i].day \in Nat
         /\ MovesIn(s) \subseteq 1 .. Len(s) /\ StandingIn(s) \subseteq MovesIn(s)
<1>1. \A i \in 1 .. Len(s) : s[i] \in Lines
  OBVIOUS
<1>2. \A i \in 1 .. Len(s) : s[i].day \in Days
  BY <1>1 DEF Lines
<1>3. Days \subseteq Nat
  BY DEF Days
<1>4. Len(s) \in Nat
  OBVIOUS
<1>5. MovesIn(s) \subseteq 1 .. Len(s)
  BY DEF MovesIn
<1>6. StandingIn(s) \subseteq MovesIn(s)
  BY DEF StandingIn
<1> QED  BY <1>1, <1>2, <1>3, <1>4, <1>5, <1>6

LEMMA DaysFinite ==
  ASSUME NEW S \in SUBSET Days
  PROVE  IsFiniteSet(S) /\ Cardinality(S) \in Nat /\ \A T \in SUBSET S : Cardinality(T) <= Cardinality(S)
<1>1. IsFiniteSet(Days)
  BY DaysAssumption, FS_Interval DEF Days
<1>2. IsFiniteSet(S)
  BY <1>1, FS_Subset
<1> QED  BY <1>2, FS_Subset, FS_CardinalityType

\* The day of the last of some positions; a line appended does not change it.
LEMMA LastDays ==
  ASSUME NEW s \in Seq(Lines), NEW B, B \subseteq 1 .. Len(s)
  PROVE  /\ DayOfLast(s, B) \in Nat
         /\ B = {} => DayOfLast(s, B) = NoDay
         /\ B # {} => \E b \in B : DayOfLast(s, B) = s[b].day /\ \A j \in B : j <= b
         /\ \A line \in Lines : DayOfLast(Append(s, line), B) = DayOfLast(s, B)
<1>1. CASE B = {}
  BY <1>1 DEF DayOfLast, NoDay
<1>2. CASE B # {}
  <2>1. LastOf(B) \in B /\ \A j \in B : j <= LastOf(B)
    BY <1>2, LineTypes, LastIsLast
  <2>2. DayOfLast(s, B) = s[LastOf(B)].day
    BY <1>2 DEF DayOfLast
  <2>3. s[LastOf(B)].day \in Nat
    BY <2>1, LineTypes
  <2>4. \A line \in Lines : Append(s, line)[LastOf(B)] = s[LastOf(B)]
    <3> TAKE line \in Lines
    <3> DEFINE t == Append(s, line)
    <3>1. t = Append(s, line)
      OBVIOUS
    <3>2. LastOf(B) \in 1 .. Len(s)
      BY <2>1
    <3> HIDE DEF t
    <3>3. \A i \in 1 .. Len(s) : t[i] = s[i]
      BY <3>1
    <3>4. t[LastOf(B)] = s[LastOf(B)]
      BY <3>2, <3>3
    <3> QED  BY <3>1, <3>4
  <2>5. \A line \in Lines : DayOfLast(Append(s, line), B) = Append(s, line)[LastOf(B)].day
    BY <1>2 DEF DayOfLast
  <2> QED  BY <1>2, <2>1, <2>2, <2>3, <2>4, <2>5
<1> QED  BY <1>1, <1>2

\* The last eviction that stands is no earlier than any other, and the lines are
\* in order.
LEMMA StandingOrder ==
  ASSUME NEW s \in Seq(Lines), NEW o, NEW h, Dated(s, o, h)
  PROVE  /\ \A i \in StandingIn(s) : s[i].day <= DayOfLast(s, StandingIn(s))
         /\ StandingIn(s) # {} => \E b \in StandingIn(s) :
              DayOfLast(s, StandingIn(s)) = s[b].day /\ \A j \in StandingIn(s) : j <= b
<1>1. StandingIn(s) \subseteq 1 .. Len(s)
  BY LineTypes
<1>2. CASE StandingIn(s) = {}
  BY <1>2
<1>3. CASE StandingIn(s) # {}
  <2>1. PICK b \in StandingIn(s) :
          DayOfLast(s, StandingIn(s)) = s[b].day /\ \A j \in StandingIn(s) : j <= b
    BY <1>1, <1>3, LastDays
  <2>2. \A i \in StandingIn(s) : i \in 1 .. b /\ b \in 1 .. Len(s)
    BY <1>1, <2>1
  <2> QED  BY <2>1, <2>2 DEF Dated
<1> QED  BY <1>2, <1>3

\* Only the observations of the model itself matter to its history.
LEMMA SoundSame ==
  ASSUME NEW s \in Seq(Lines), NEW o, NEW o2, NEW st, NEW h, \A d \in Days : o2[d][h] = o[d][h],
         Sound(s, o, st, h)
  PROVE  Sound(s, o2, st, h)
<1>1. \A asOf, since : StrikeDays(o2, h, asOf, since) = StrikeDays(o, h, asOf, since)
  BY DEF StrikeDays
<1>2. \A lo, hi : StrikesBetween(o2, h, lo, hi) = StrikesBetween(o, h, lo, hi)
  BY DEF StrikesBetween
<1>3. \A i \in 1 .. Len(s) : o2[s[i].day][h] = o[s[i].day][h]
  BY LineTypes
<1>4. Dated(s, o2, h)
  BY <1>3 DEF Sound, Dated
<1>5. Agrees(s, o2, st, h)
  BY <1>3, LineTypes DEF Sound, Agrees
<1>6. EarnedIn(s, o2, h)
  BY <1>1 DEF Sound, EarnedIn
<1>7. Counts(s, o2, st, h)
  BY <1>2 DEF Sound, Counts
<1> QED  BY <1>4, <1>5, <1>6, <1>7 DEF Sound

-----------------------------------------------------------------------------
(* One model's turn.  Observations and lines, before the turn (s, o) and   *)
(* after it (t, o2): the day D is none before a line, and o2 has a new     *)
(* observation of h on D.                                                  *)

Renewed(s, o, o2, h, D) ==
  /\ \A i \in 1 .. Len(s) : s[i].day <= D
  /\ \A d \in Days : d # D => o2[d][h] = o[d][h]
  /\ o2[D][h] # NoKind

\* A turn that takes no evicting strike back leaves the history sound; a model
\* that is in has no eviction that stands on D.
LEMMA QuietTurn ==
  ASSUME NEW s \in Seq(Lines), NEW o, NEW o2, NEW st, NEW h, NEW D \in Days,
         Renewed(s, o, o2, h, D), Sound(s, o, st, h),
         st.evicted_on = D => o2[D][h] = "strike"
  PROVE  /\ Sound(s, o2, st, h)
         /\ st.evicted_on = NoDay => \A i \in StandingIn(s) : s[i].day < D
<1> USE DEF Sound, Renewed
<1>0. /\ D \in Nat /\ NoDay \notin Days /\ Days \subseteq Nat
      /\ \A i \in 1 .. Len(s) : s[i].day \in Days /\ s[i].day \in Nat
      /\ MovesIn(s) \subseteq 1 .. Len(s) /\ StandingIn(s) \subseteq MovesIn(s)
  BY LineTypes DEF Days, NoDay
<1>1. ASSUME NEW i \in StandingIn(s), ~(s[i].day < D)
      PROVE  st.evicted_on = D /\ o[D][h] = "strike"
  <2>1. s[i].day = D /\ s[i].kind = "evicted" /\ i \in MovesIn(s)
    BY <1>0, <1>1 DEF StandingIn
  <2>2. ~(\E k \in MovesIn(s) : k > i)
    <3> SUFFICES ASSUME NEW k \in MovesIn(s), k > i PROVE FALSE
      OBVIOUS
    <3>1. s[i].day < s[k].day
      BY DEF Dated
    <3>2. s[k].day <= D /\ s[k].day \in Nat
      BY <1>0
    <3> QED  BY <1>0, <2>1, <3>1, <3>2
  <2>3. st.evicted_on # NoDay
    BY <2>1, <2>2 DEF Agrees
  <2>4. PICK m \in MovesIn(s) : /\ s[m].day = st.evicted_on
                                /\ \A k \in MovesIn(s) : k <= m
                                /\ o[s[m].day][h] = "strike"
    BY <2>3 DEF Agrees
  <2>5. m = i
    BY <1>0, <2>1, <2>2, <2>4
  <2> QED  BY <2>1, <2>4, <2>5
<1>2. Dated(s, o2, h)
  BY <1>0 DEF Dated
<1>3. Agrees(s, o2, st, h)
  <2>1. CASE st.evicted_on = NoDay
    BY <1>0, <2>1 DEF Agrees
  <2>2. CASE st.evicted_on # NoDay
    <3>1. PICK m \in MovesIn(s) : /\ s[m].kind = "evicted" /\ s[m].day = st.evicted_on
                                  /\ \A k \in MovesIn(s) : k <= m
                                  /\ o[s[m].day][h] = "strike"
      BY <2>2 DEF Agrees
    <3>2. o2[s[m].day][h] = "strike"
      BY <1>0, <3>1
    <3> QED  BY <2>2, <3>1, <3>2 DEF Agrees
  <2> QED  BY <2>1, <2>2
<1>4. EarnedIn(s, o2, h)
  <2> SUFFICES ASSUME NEW i \in StandingIn(s)
               PROVE  \A since : StrikeDays(o2, h, s[i].day, since) = StrikeDays(o, h, s[i].day, since)
    BY DEF EarnedIn
  <2>1. CASE s[i].day < D
    <3>1. \A d \in Days : d <= s[i].day => d # D
      BY <1>0, <2>1
    <3> QED  BY <3>1 DEF StrikeDays
  <2>2. CASE ~(s[i].day < D)
    <3>1. \A d \in Days : o2[d][h] = o[d][h]
      BY <1>1, <2>2
    <3> QED  BY <3>1 DEF StrikeDays
  <2> QED  BY <2>1, <2>2
<1>5. Counts(s, o2, st, h)
  <2>1. ASSUME NEW j \in 1 .. Len(s), NEW lo
        PROVE  StrikesBetween(o2, h, lo, s[j].day) = StrikesBetween(o, h, lo, s[j].day)
    <3>1. \A d \in Days : d < s[j].day => d # D
      BY <1>0
    <3> QED  BY <3>1 DEF StrikesBetween
  <2> QED  BY <2>1 DEF Counts
<1> QED  BY <1>0, <1>1, <1>2, <1>3, <1>4, <1>5

\* What stands after a line is appended, of the positions before it.
LEMMA StandingBefore ==
  ASSUME NEW s \in Seq(Lines), NEW line \in Lines, NEW t, t = Append(s, line), NEW i \in 1 .. Len(s)
  PROVE  i \in StandingIn(t) <=>
           /\ i \in StandingIn(s)
           /\ line.kind = "eviction_retracted" => \E k \in MovesIn(s) : k > i
<1>1. line.kind \in {"eviction_withheld", "reinstated"} => StandingIn(t) = StandingIn(s)
  BY Appending
<1>2. line.kind = "evicted" => StandingIn(t) = StandingIn(s) \cup {Len(s) + 1}
  BY Appending
<1>3. line.kind = "eviction_retracted" =>
        StandingIn(t) = {k \in StandingIn(s) : \E m \in MovesIn(s) : m > k}
  BY Appending
<1>4. line.kind \in LifecycleKinds
  BY DEF Lines
<1>5. i # Len(s) + 1
  BY LineTypes
<1>6. CASE line.kind = "eviction_retracted"
  BY <1>3, <1>6
<1>7. CASE line.kind # "eviction_retracted"
  BY <1>1, <1>2, <1>4, <1>5, <1>7 DEF LifecycleKinds
<1> QED  BY <1>6, <1>7

\* The line of a turn: what it leaves of the evictions that stand was earned before.
LEMMA AppendEarned ==
  ASSUME NEW s \in Seq(Lines), NEW line \in Lines, NEW t, t = Append(s, line),
         NEW o, NEW h, EarnedIn(s, o, h)
  PROVE  \A i \in StandingIn(t) \cap 1 .. Len(s) :
           /\ i \in StandingIn(s) /\ t[i] = s[i] /\ Before(t, i) = Before(s, i)
           /\ Cardinality(StrikeDays(o, h, t[i].day, DayOfLast(t, Before(t, i)))) >= StrikesToEvict
<1>0. /\ Len(s) \in Nat /\ StandingIn(s) \subseteq MovesIn(s) /\ MovesIn(s) \subseteq 1 .. Len(s)
  BY LineTypes
<1>1. \A i \in 1 .. Len(s) : t[i] = s[i]
  BY Appending
<1> SUFFICES ASSUME NEW i \in StandingIn(t) \cap 1 .. Len(s)
             PROVE  /\ i \in StandingIn(s) /\ t[i] = s[i] /\ Before(t, i) = Before(s, i)
                    /\ Cardinality(StrikeDays(o, h, t[i].day, DayOfLast(t, Before(t, i))))
                         >= StrikesToEvict
  OBVIOUS
<1>3. i \in StandingIn(s) /\ i \in MovesIn(s) /\ t[i] = s[i]
  BY <1>0, <1>1, StandingBefore
<1>4. \A j \in StandingIn(t) : j < i => j \in 1 .. Len(s)
  <2>1. t \in Seq(Lines) /\ Len(t) = Len(s) + 1
    BY Appending
  <2>2. StandingIn(t) \subseteq 1 .. Len(t)
    BY <2>1, LineTypes
  <2> QED  BY <1>0, <2>1, <2>2
<1>5. Before(t, i) = Before(s, i)
  <2>1. ASSUME NEW j, j < i PROVE j \in StandingIn(t) <=> j \in StandingIn(s)
    <3>1. j \in StandingIn(s) => j \in 1 .. Len(s) /\ (\E k \in MovesIn(s) : k > j)
      BY <1>0, <1>3, <2>1
    <3>2. j \in StandingIn(t) => j \in 1 .. Len(s)
      BY <1>4, <2>1
    <3> QED  BY <3>1, <3>2, StandingBefore
  <2> QED  BY <2>1 DEF Before
<1>6. DayOfLast(t, Before(t, i)) = DayOfLast(s, Before(s, i))
  <2>1. Before(s, i) \subseteq 1 .. Len(s)
    BY <1>0 DEF Before
  <2> QED  BY <1>5, <2>1, LastDays
<1> QED  BY <1>3, <1>5, <1>6 DEF EarnedIn

\* The lines stay in order when what stands before the new one is of earlier days.
LEMMA AppendDated ==
  ASSUME NEW s \in Seq(Lines), NEW line \in Lines, NEW t, t = Append(s, line),
         NEW o, NEW h, Dated(s, o, h), o[line.day][h] # NoKind,
         \A i \in 1 .. Len(s) : s[i].day <= line.day,
         line.kind = "eviction_withheld" \/ \A i \in StandingIn(t) \cap 1 .. Len(s) : s[i].day < line.day
  PROVE  Dated(t, o, h)
<1>0. /\ Len(s) \in Nat /\ Len(t) = Len(s) + 1 /\ t[Len(s) + 1] = line
      /\ \A i \in 1 .. Len(s) : t[i] = s[i] /\ s[i].day \in Nat
      /\ line.day \in Nat /\ t \in Seq(Lines)
  <2>1. Len(s) \in Nat /\ \A i \in 1 .. Len(s) : s[i].day \in Nat
    BY LineTypes
  <2>2. Len(t) = Len(s) + 1 /\ t[Len(s) + 1] = line /\ \A i \in 1 .. Len(s) : t[i] = s[i]
    BY Appending
  <2>3. line.day \in Nat
    BY DEF Lines, Days
  <2>4. t \in Seq(Lines)
    OBVIOUS
  <2> QED  BY <2>1, <2>2, <2>3, <2>4
<1>1. \A i \in 1 .. Len(t) : o[t[i].day][h] # NoKind /\ \A j \in 1 .. i : t[j].day <= t[i].day
  <2> TAKE i \in 1 .. Len(t)
  <2>1. CASE i = Len(s) + 1
    BY <1>0, <2>1
  <2>2. CASE i # Len(s) + 1
    <3>1. i \in 1 .. Len(s) /\ \A j \in 1 .. i : j \in 1 .. Len(s)
      BY <1>0, <2>2
    <3> QED  BY <1>0, <3>1 DEF Dated
  <2> QED  BY <2>1, <2>2
<1>2. \A i \in StandingIn(t) : \A j \in MovesIn(t) : j > i => t[i].day < t[j].day
  <2> SUFFICES ASSUME NEW i \in StandingIn(t), NEW j \in MovesIn(t), j > i
               PROVE  t[i].day < t[j].day
    OBVIOUS
  <2>1. i \in 1 .. Len(s) /\ j \in 1 .. Len(t)
    <3>1. i \in 1 .. Len(t) /\ j \in 1 .. Len(t)
      BY <1>0, LineTypes
    <3> QED  BY <1>0, <3>1
  <2>2. i \in StandingIn(s)
    BY <2>1, StandingBefore
  <2>3. CASE j = Len(s) + 1
    <3>1. line.kind # "eviction_withheld"
      BY <1>0, <2>3 DEF MovesIn
    <3> QED  BY <1>0, <2>1, <2>3, <3>1
  <2>4. CASE j # Len(s) + 1
    <3>1. j \in 1 .. Len(s) /\ j \in MovesIn(s)
      BY <1>0, <2>1, <2>4 DEF MovesIn
    <3> QED  BY <1>0, <2>1, <2>2, <3>1 DEF Dated
  <2> QED  BY <2>3, <2>4
<1> QED  BY <1>1, <1>2 DEF Dated

\* An eviction withheld leaves the history sound.
LEMMA Withheld ==
  ASSUME NEW s \in Seq(Lines), NEW line \in Lines, NEW t, t = Append(s, line),
         NEW o, NEW st, NEW h, Sound(s, o, st, h), o[line.day][h] # NoKind,
         \A i \in 1 .. Len(s) : s[i].day <= line.day,
         line.kind = "eviction_withheld"
  PROVE  Sound(t, o, st, h)
<1>1. /\ MovesIn(t) = MovesIn(s) /\ StandingIn(t) = StandingIn(s)
      /\ MovesIn(s) \subseteq 1 .. Len(s) /\ StandingIn(s) \subseteq MovesIn(s)
      /\ Len(s) \in Nat /\ Len(t) = Len(s) + 1 /\ \A i \in 1 .. Len(s) : t[i] = s[i]
  BY Appending, LineTypes
<1>2. Dated(t, o, h)
  BY AppendDated DEF Sound
<1>3. Agrees(t, o, st, h)
  <2>1. \A m \in MovesIn(s) : t[m] = s[m]
    BY <1>1
  <2> QED  BY <1>1, <2>1 DEF Sound, Agrees
<1>4. EarnedIn(t, o, h)
  BY <1>1, AppendEarned DEF Sound, EarnedIn
<1>5. Counts(t, o, st, h)
  <2>1. DayOfLast(t, StandingIn(t)) = DayOfLast(s, StandingIn(s))
    BY <1>1, LastDays
  <2>2. \A j \in 1 .. Len(s) : j \in 1 .. Len(t) /\ t[j] = s[j]
    BY <1>1
  <2> QED  BY <2>1, <2>2 DEF Sound, Counts
<1> QED  BY <1>2, <1>3, <1>4, <1>5 DEF Sound

\* A model evicted on an earlier day comes back: every eviction that stands is
\* older than the line.
LEMMA Reinstated ==
  ASSUME NEW s \in Seq(Lines), NEW line \in Lines, NEW t, t = Append(s, line),
         NEW o, NEW st, NEW st2, NEW h, Sound(s, o, st, h), o[line.day][h] # NoKind,
         \A i \in 1 .. Len(s) : s[i].day <= line.day,
         line.kind = "reinstated", st.evicted_on # NoDay, st.evicted_on # line.day,
         st2.evicted_on = NoDay, st2.last_eviction_on = st.last_eviction_on
  PROVE  Sound(t, o, st2, h)
<1>1. /\ MovesIn(t) = MovesIn(s) \cup {Len(s) + 1} /\ StandingIn(t) = StandingIn(s)
      /\ MovesIn(s) \subseteq 1 .. Len(s) /\ StandingIn(s) \subseteq MovesIn(s)
      /\ Len(s) \in Nat /\ Len(t) = Len(s) + 1 /\ t[Len(s) + 1] = line
      /\ \A i \in 1 .. Len(s) : t[i] = s[i]
  BY Appending, LineTypes
<1>2. line.day \in Nat /\ \A i \in 1 .. Len(s) : s[i].day \in Nat
  <2>1. line.day \in Nat
    BY DEF Lines, Days
  <2>2. \A i \in 1 .. Len(s) : s[i].day \in Nat
    BY LineTypes
  <2> QED  BY <2>1, <2>2
<1>3. \A i \in StandingIn(s) : s[i].day < line.day
  <2> TAKE i \in StandingIn(s)
  <2>1. PICK m \in MovesIn(s) : s[m].day = st.evicted_on /\ \A k \in MovesIn(s) : k <= m
    BY DEF Sound, Agrees
  <2>2. s[m].day < line.day
    BY <1>1, <1>2, <2>1
  <2>3. i = m \/ s[i].day < s[m].day
    BY <1>1, <2>1 DEF Sound, Dated
  <2> QED  BY <1>1, <1>2, <2>2, <2>3
<1>4. Dated(t, o, h)
  BY <1>1, <1>3, AppendDated DEF Sound
<1>5. Agrees(t, o, st2, h)
  <2>1. \A m \in MovesIn(t) : t[m].kind = "evicted" => m \in MovesIn(s) /\ Len(s) + 1 > m
    BY <1>1
  <2> QED  BY <1>1, <2>1 DEF Agrees
<1>6. EarnedIn(t, o, h)
  BY <1>1, AppendEarned DEF Sound, EarnedIn
<1>7. Counts(t, o, st2, h)
  <2>1. DayOfLast(t, StandingIn(t)) = DayOfLast(s, StandingIn(s))
    BY <1>1, LastDays
  <2>2. \A j \in 1 .. Len(s) : j \in 1 .. Len(t) /\ t[j] = s[j]
    BY <1>1
  <2> QED  BY <2>1, <2>2 DEF Sound, Counts
<1> QED  BY <1>4, <1>5, <1>6, <1>7 DEF Sound

\* The strikes an eviction is decided on suffice for the one that goes on record,
\* though the state may count from an earlier eviction than the log does.
LEMMA EnoughOnRecord ==
  ASSUME NEW s \in Seq(Lines), NEW o, NEW o3, NEW st \in EvictionStates, NEW h, NEW D \in Days,
         Sound(s, o, st, h),
         \A i \in 1 .. Len(s) : s[i].day <= D,
         \A i \in StandingIn(s) : s[i].day < D,
         o[D][h] = "strike",
         \A d \in Days : o3[d][h] = "strike" => o[d][h] = "strike",
         LET n == Cardinality(StrikeDays(o3, h, D, st.last_eviction_on))
         IN  n >= 1 /\ n >= StrikesToEvict
  PROVE  /\ WindowDays > 0
         /\ Cardinality(StrikeDays(o, h, D, DayOfLast(s, StandingIn(s)))) >= StrikesToEvict
<1> DEFINE last == DayOfLast(s, StandingIn(s))
           counted == StrikeDays(o3, h, D, st.last_eviction_on)
           earned == StrikeDays(o, h, D, last)
<1>1. /\ last \in Nat /\ st.last_eviction_on \in Nat /\ D \in Nat /\ Days \subseteq Nat
      /\ StandingIn(s) \subseteq 1 .. Len(s) /\ StrikesToEvict \in Nat /\ WindowDays \in Nat
  <2>1. StandingIn(s) \subseteq 1 .. Len(s)
    BY LineTypes
  <2>2. last \in Nat
    BY <2>1, LastDays
  <2>3. Days \subseteq Nat
    BY DEF Days
  <2>4. st.last_eviction_on \in Nat
    <3>1. st.last_eviction_on \in Days \cup {NoDay}
      BY DEF EvictionStates
    <3>2. \A d \in Days \cup {NoDay} : d \in Nat
      BY <2>3 DEF NoDay
    <3> QED  BY <3>1, <3>2, Zenon
  <2> QED  BY <2>1, <2>2, <2>3, <2>4, ParamsAssumption
<1>2. last < D
  <2>1. CASE StandingIn(s) = {}
    BY <2>1 DEF DayOfLast, NoDay, Days
  <2>2. CASE StandingIn(s) # {}
    BY <1>1, <2>2, LastDays
  <2> QED  BY <2>1, <2>2
<1>3. /\ counted \in SUBSET Days /\ earned \in SUBSET Days
      /\ Cardinality(counted) \in Nat /\ Cardinality(earned) \in Nat
      /\ Cardinality(counted) >= 1 /\ Cardinality(counted) >= StrikesToEvict
  <2>1. counted \in SUBSET Days /\ earned \in SUBSET Days
    BY DEF StrikeDays
  <2> QED  BY <2>1, DaysFinite
<1>4. WindowDays > 0
  <2>1. counted # {}
    <3> SUFFICES ASSUME counted = {} PROVE FALSE
      OBVIOUS
    <3>1. Cardinality(counted) = 0
      BY FS_EmptySet
    <3> QED  BY <1>3, <3>1
  <2>2. PICK d \in Days : D - WindowDays < d /\ d <= D
    BY <2>1 DEF StrikeDays
  <2> QED  BY <1>1, <2>2
<1>5. ASSUME \A d \in counted : d > last PROVE Cardinality(earned) >= StrikesToEvict
  <2>1. counted \subseteq earned
    BY <1>5 DEF StrikeDays
  <2>2. Cardinality(counted) <= Cardinality(earned)
    BY <1>3, <2>1, DaysFinite
  <2> QED  BY <1>1, <1>3, <2>2
<1>6. ASSUME NEW c \in counted, ~(c > last) PROVE Cardinality(earned) >= StrikesToEvict
  <2>1. c \in Nat /\ D - WindowDays < c /\ c > st.last_eviction_on
    BY <1>1 DEF StrikeDays
  <2>2. ~(st.last_eviction_on >= last)
    BY <1>1, <1>6, <2>1
  <2>3. PICK j \in 1 .. Len(s) : Cardinality(StrikesBetween(o, h, last, s[j].day)) >= StrikesToEvict - 1
    BY <2>2 DEF Sound, Counts
  <2> DEFINE between == StrikesBetween(o, h, last, s[j].day)
  <2>4. between \subseteq earned /\ D \notin between /\ D \in earned
    <3>1. s[j].day <= D /\ s[j].day \in Nat
      BY LineTypes
    <3>2. \A d \in between : d \in Days /\ d \in Nat /\ last < d /\ d < s[j].day /\ o[d][h] = "strike"
      BY <1>1 DEF StrikesBetween
    <3>3. \A d \in between : D - WindowDays < d /\ d <= D /\ d # D
      BY <1>1, <1>6, <2>1, <3>1, <3>2
    <3> QED  BY <1>1, <1>2, <1>4, <3>2, <3>3 DEF StrikeDays
  <2>5. IsFiniteSet(between) /\ Cardinality(between) \in Nat
    <3>1. between \in SUBSET Days
      BY DEF StrikesBetween
    <3> QED  BY <3>1, DaysFinite
  <2>6. Cardinality(between \cup {D}) = Cardinality(between) + 1
    BY <2>4, <2>5, FS_AddElement
  <2>7. Cardinality(between \cup {D}) <= Cardinality(earned)
    <3>1. between \cup {D} \in SUBSET earned
      BY <2>4
    <3> QED  BY <1>3, <3>1, DaysFinite
  <2> QED  BY <1>1, <1>3, <2>3, <2>5, <2>6, <2>7
<1> QED  BY <1>4, <1>5, <1>6

\* A model goes out on the strikes of the log: the history stays sound.
LEMMA Evicted ==
  ASSUME NEW s \in Seq(Lines), NEW line \in Lines, NEW t, t = Append(s, line),
         NEW o, NEW o3, NEW st \in EvictionStates, NEW st2, NEW h, Sound(s, o, st, h),
         line.kind = "evicted",
         \A i \in 1 .. Len(s) : s[i].day <= line.day,
         \A i \in StandingIn(s) : s[i].day < line.day,
         o[line.day][h] = "strike",
         \A d \in Days : o3[d][h] = "strike" => o[d][h] = "strike",
         LET n == Cardinality(StrikeDays(o3, h, line.day, st.last_eviction_on))
         IN  n >= 1 /\ n >= StrikesToEvict,
         st2.evicted_on = line.day, st2.last_eviction_on = line.day
  PROVE  Sound(t, o, st2, h)
<1> DEFINE n == Len(s) + 1
<1>1. /\ MovesIn(t) = MovesIn(s) \cup {n} /\ StandingIn(t) = StandingIn(s) \cup {n}
      /\ MovesIn(s) \subseteq 1 .. Len(s) /\ StandingIn(s) \subseteq MovesIn(s)
      /\ Len(s) \in Nat /\ Len(t) = n /\ t[n] = line
      /\ \A i \in 1 .. Len(s) : t[i] = s[i]
  BY Appending, LineTypes
<1>2. line.day \in Days /\ line.day \in Nat /\ line.day # NoDay /\ t \in Seq(Lines)
  <2>1. line.day \in Days
    BY DEF Lines
  <2>2. t \in Seq(Lines)
    OBVIOUS
  <2> QED  BY <2>1, <2>2 DEF Days, NoDay
<1>3. /\ WindowDays > 0
      /\ Cardinality(StrikeDays(o, h, line.day, DayOfLast(s, StandingIn(s)))) >= StrikesToEvict
  BY <1>2, EnoughOnRecord
<1>4. Dated(t, o, h)
  <2>1. o[line.day][h] # NoKind
    BY DEF NoKind
  <2>2. \A i \in StandingIn(t) \cap 1 .. Len(s) : s[i].day < line.day
    BY <1>1
  <2> QED  BY <2>1, <2>2, AppendDated DEF Sound
<1>5. Agrees(t, o, st2, h)
  <2>1. n \in MovesIn(t) /\ \A k \in MovesIn(t) : k <= n
    BY <1>1
  <2> QED  BY <1>1, <1>2, <1>3, <2>1 DEF Agrees
<1>6. EarnedIn(t, o, h)
  <2> SUFFICES ASSUME NEW i \in StandingIn(t)
               PROVE  Cardinality(StrikeDays(o, h, t[i].day, DayOfLast(t, Before(t, i)))) >= StrikesToEvict
    BY DEF EarnedIn
  <2>1. CASE i = n
    <3>1. Before(t, i) = StandingIn(s)
      BY <1>1, <2>1 DEF Before
    <3>2. DayOfLast(t, StandingIn(s)) = DayOfLast(s, StandingIn(s))
      BY <1>1, LastDays
    <3> QED  BY <1>1, <1>3, <2>1, <3>1, <3>2
  <2>2. CASE i # n
    <3>1. i \in StandingIn(t) \cap 1 .. Len(s)
      BY <1>1, <2>2
    <3> QED  BY <3>1, AppendEarned DEF Sound
  <2> QED  BY <2>1, <2>2
<1>7. Counts(t, o, st2, h)
  <2>1. StandingIn(t) # {} /\ StandingIn(t) \subseteq 1 .. Len(t)
    BY <1>1
  <2>2. PICK b \in StandingIn(t) : DayOfLast(t, StandingIn(t)) = t[b].day
    BY <1>2, <2>1, LastDays
  <2>3. t[b].day <= line.day
    BY <1>1, <1>2, <2>1
  <2> QED  BY <2>2, <2>3 DEF Counts
<1> QED  BY <1>4, <1>5, <1>6, <1>7 DEF Sound

\* The strike that evicted is taken back: the eviction no longer stands, and the
\* strikes it was earned on, bar that one, lie after the last that does.
LEMMA Retracted ==
  ASSUME NEW s \in Seq(Lines), NEW line \in Lines, NEW t, t = Append(s, line),
         NEW o, NEW o2, NEW st, NEW st2, NEW h, Sound(s, o, st, h),
         Renewed(s, o, o2, h, line.day),
         line.kind = "eviction_retracted", st.evicted_on = line.day, st2.evicted_on = NoDay
  PROVE  Sound(t, o2, st2, h)
<1> DEFINE n == Len(s) + 1
           D == line.day
<1>1. /\ MovesIn(t) = MovesIn(s) \cup {n}
      /\ StandingIn(t) = {i \in StandingIn(s) : \E k \in MovesIn(s) : k > i}
      /\ MovesIn(s) \subseteq 1 .. Len(s) /\ StandingIn(s) \subseteq MovesIn(s)
      /\ Len(s) \in Nat /\ Len(t) = n /\ t[n] = line
      /\ \A i \in 1 .. Len(s) : t[i] = s[i]
  BY Appending, LineTypes
<1>2. /\ D \in Days /\ D \in Nat /\ D # NoDay /\ t \in Seq(Lines) /\ Days \subseteq Nat
      /\ \A i \in 1 .. Len(s) : s[i].day \in Nat /\ s[i].day \in Days
      /\ StrikesToEvict \in Nat
  <2>1. D \in Days
    BY DEF Lines
  <2>2. t \in Seq(Lines)
    OBVIOUS
  <2>3. \A i \in 1 .. Len(s) : s[i].day \in Nat /\ s[i].day \in Days
    BY LineTypes
  <2> QED  BY <2>1, <2>2, <2>3, ParamsAssumption DEF Days, NoDay
<1>3. PICK m \in MovesIn(s) : /\ s[m].kind = "evicted" /\ s[m].day = D
                              /\ \A k \in MovesIn(s) : k <= m
  BY <1>2 DEF Sound, Agrees
<1>4. m \in StandingIn(s) /\ StandingIn(t) = StandingIn(s) \ {m} /\ Before(s, m) = StandingIn(t)
  <2>1. m \in StandingIn(s)
    BY <1>1, <1>3 DEF StandingIn
  <2>2. \A i \in StandingIn(s) : (\E k \in MovesIn(s) : k > i) <=> i # m
    BY <1>1, <1>3
  <2>3. \A i \in StandingIn(s) : i < m <=> i # m
    BY <1>1, <1>3
  <2> QED  BY <1>1, <2>1, <2>2, <2>3 DEF Before
<1>5. \A i \in StandingIn(t) : i \in 1 .. Len(s) /\ t[i] = s[i] /\ s[i].day < D
  <2> TAKE i \in StandingIn(t)
  <2>1. i \in StandingIn(s) /\ m > i /\ i \in 1 .. Len(s)
    BY <1>1, <1>3, <1>4
  <2>2. s[i].day < s[m].day
    BY <2>1 DEF Sound, Dated
  <2> QED  BY <1>1, <1>3, <2>1, <2>2
<1>6. \A d \in Days : d < D => o2[d][h] = o[d][h]
  <2>1. \A d \in Days : d < D => d # D
    BY <1>2
  <2> QED  BY <2>1 DEF Renewed
<1>7. Dated(t, o2, h)
  <2>1. Dated(s, o2, h)
    BY <1>2 DEF Sound, Dated, Renewed
  <2>2. \A i \in StandingIn(t) \cap 1 .. Len(s) : s[i].day < D
    BY <1>5
  <2>3. o2[D][h] # NoKind /\ \A i \in 1 .. Len(s) : s[i].day <= D
    BY DEF Renewed
  <2> QED  BY <2>1, <2>2, <2>3, AppendDated
<1>8. Agrees(t, o2, st2, h)
  <2>1. n \in MovesIn(t) /\ \A k \in MovesIn(t) : k # n => n > k
    BY <1>1
  <2>2. t[n].kind # "evicted"
    BY <1>1
  <2> QED  BY <2>1, <2>2 DEF Agrees
<1>9. EarnedIn(t, o2, h)
  <2> SUFFICES ASSUME NEW i \in StandingIn(t)
               PROVE  Cardinality(StrikeDays(o2, h, t[i].day, DayOfLast(t, Before(t, i)))) >= StrikesToEvict
    BY DEF EarnedIn
  <2>1. Cardinality(StrikeDays(o, h, t[i].day, DayOfLast(t, Before(t, i)))) >= StrikesToEvict
    BY <1>5, AppendEarned DEF Sound
  <2>2. \A since : StrikeDays(o2, h, t[i].day, since) = StrikeDays(o, h, t[i].day, since)
    <3>1. \A d \in Days : d <= t[i].day => d < D
      BY <1>2, <1>5
    <3> QED  BY <1>6, <3>1 DEF StrikeDays
  <2> QED  BY <2>1, <2>2
<1>10. Counts(t, o2, st2, h)
  <2> DEFINE last == DayOfLast(t, StandingIn(t))
             earned == StrikeDays(o, h, D, last)
             between == StrikesBetween(o2, h, last, D)
  <2>1. last = DayOfLast(s, Before(s, m)) /\ last \in Nat
    <3> HIDE DEF last
    <3>1. Before(s, m) \subseteq 1 .. Len(s)
      BY <1>1 DEF Before
    <3>2. /\ DayOfLast(t, Before(s, m)) = DayOfLast(s, Before(s, m))
          /\ DayOfLast(s, Before(s, m)) \in Nat
      BY <3>1, LastDays
    <3>3. last = DayOfLast(t, Before(s, m))
      BY <1>4 DEF last
    <3> QED  BY <3>2, <3>3
  <2>2. Cardinality(earned) >= StrikesToEvict
    BY <1>3, <1>4, <2>1 DEF Sound, EarnedIn
  <2>3. earned \in SUBSET Days /\ between \in SUBSET Days
    BY DEF StrikeDays, StrikesBetween
  <2>4. earned \ {D} \subseteq between
    <3>1. \A d \in earned \ {D} : d \in Days /\ d < D /\ last < d /\ o[d][h] = "strike"
      BY <1>2, <2>1 DEF StrikeDays
    <3> QED  BY <1>6, <3>1 DEF StrikesBetween
  <2>5. IsFiniteSet(earned) /\ Cardinality(earned) \in Nat /\ Cardinality(between) \in Nat
    BY <2>3, DaysFinite
  <2>6. Cardinality(earned \ {D}) >= Cardinality(earned) - 1
    <3> HIDE DEF earned
    <3>1. Cardinality(earned \ {D}) =
            IF D \in earned THEN Cardinality(earned) - 1 ELSE Cardinality(earned)
      BY <2>5, FS_RemoveElement
    <3> QED  BY <2>5, <3>1
  <2>7. Cardinality(earned \ {D}) <= Cardinality(between) /\ Cardinality(earned \ {D}) \in Nat
    <3>1. earned \ {D} \in SUBSET between /\ earned \ {D} \in SUBSET Days
      BY <2>3, <2>4
    <3> QED  BY <2>3, <3>1, DaysFinite
  <2>8. Cardinality(between) >= StrikesToEvict - 1
    BY <1>2, <2>2, <2>5, <2>6, <2>7
  <2>9. n \in 1 .. Len(t) /\ t[n].day = D
    BY <1>1
  <2> QED  BY <2>8, <2>9 DEF Counts
<1> QED  BY <1>7, <1>8, <1>9, <1>10 DEF Sound

-----------------------------------------------------------------------------
(* The history is an invariant for every model no crash has torn.          *)

\* What the overlay reads.
LEMMA OverlayReads ==
  ASSUME NEW o, NEW m, NEW d \in Days, NEW h \in Hotkeys
  PROVE  Overlay(o, m)[d][h] = IF m[d][h] # NoKind THEN m[d][h] ELSE o[d][h]
BY DEF Overlay

\* A turn keeps every model's history sound.
LEMMA ObserveHistory ==
  ASSUME TypeOK, TypeOK', FoldsOn, HeldInv, NEW h \in Hotkeys, ObserveModel(h)
  PROVE  HeldInv' /\ FoldsOn'
<1> DEFINE o == Overlay(obs, mobs)
           o2 == Overlay(obs, mobs')
           s == mlife[h]
           t == mlife'[h]
<1>1. Turn(h)
  BY DEF ObserveModel, RetractEviction, Evict, WithholdEviction, Reinstate, JustNote
<1>2. /\ pc = "models" /\ pc' = "models" /\ day \in Days /\ day' = day
      /\ UNCHANGED <<obs, todo, torn>>
      /\ Kind(h) # NoKind
      /\ \A d \in Days, k \in Hotkeys :
           mobs'[d][k] = IF d = day /\ k = h THEN Kind(h) ELSE mobs[d][k]
  BY <1>1, KindNoted DEF Turn, durable, fate
<1>3. /\ day \in Nat /\ day # NoDay
      /\ \A k \in Hotkeys : mlife[k] \in Seq(Lines) /\ mem[k] \in EvictionStates
  BY <1>2 DEF TypeOK, Days, NoDay
<1>4. \A d \in Days, k \in Hotkeys : o2[d][k] = IF d = day /\ k = h THEN Kind(h) ELSE o[d][k]
  <2> TAKE d \in Days, k \in Hotkeys
  <2>1. /\ o[d][k] = IF mobs[d][k] # NoKind THEN mobs[d][k] ELSE obs[d][k]
        /\ o2[d][k] = IF mobs'[d][k] # NoKind THEN mobs'[d][k] ELSE obs[d][k]
    BY OverlayReads
  <2> QED  BY <1>2, <2>1
<1>5. /\ mlife' = mlife \/ \E kind \in LifecycleKinds :
                               mlife' = [mlife EXCEPT ![h] = Append(@, [kind |-> kind, day |-> day])]
      /\ mem' = mem \/ \E st : mem' = [mem EXCEPT ![h] = st]
  BY DEF ObserveModel, RetractEviction, Evict, WithholdEviction, Reinstate, JustNote, Emit,
         LifecycleKinds
<1>6. \A k \in Hotkeys : k # h => mlife'[k] = mlife[k] /\ mem'[k] = mem[k]
  BY <1>5 DEF TypeOK
<1>7. Renewed(s, o, o2, h, day)
  <2>1. \A i \in 1 .. Len(s) : s[i].day <= day
    BY <1>2 DEF FoldsOn, Ahead
  <2> QED  BY <1>2, <1>4, <2>1 DEF Renewed
<1>8. h \notin torn /\ mem[h].evicted_on = day => Prior(h) = "strike"
  <2> SUFFICES ASSUME h \notin torn, mem[h].evicted_on = day PROVE Prior(h) = "strike"
    OBVIOUS
  <2>1. WindowDays > 0 /\ o[day][h] = "strike"
    BY <1>3 DEF HeldInv, Sound, Agrees
  <2>2. mobs[day][h] = NoKind => obs[day][h] = NoKind
    <3>1. day \in Ahead /\ day \in Days /\ day >= day
      BY <1>2, <1>3 DEF Ahead
    <3> QED  BY <2>1, <3>1 DEF FoldsOn
  <2>3. o[day][h] = IF mobs[day][h] # NoKind THEN mobs[day][h] ELSE obs[day][h]
    BY <1>2, OverlayReads
  <2> QED  BY <2>1, <2>2, <2>3 DEF Prior, NoKind
<1>9. o2[day][h] = Kind(h)
  BY <1>2, <1>4
<1> DEFINE Line(kind) == [kind |-> kind, day |-> day]
<1>10. ASSUME NEW kind \in LifecycleKinds, Emit(h, kind)
       PROVE  /\ Line(kind) \in Lines /\ t = Append(s, Line(kind))
              /\ Line(kind).kind = kind /\ Line(kind).day = day
  BY <1>2, <1>10 DEF Emit, Lines, TypeOK
<1> HIDE DEF o, o2, s, t, Line
<1>11. /\ s \in Seq(Lines) /\ mem[h] \in EvictionStates /\ OnDays(s, o, h)
       /\ h \notin torn => Sound(s, o, mem[h], h)
  BY <1>3 DEF s, o, HeldInv
<1>12. h \notin torn /\ ~StrikeTakenBack(h) =>
         /\ Sound(s, o2, mem[h], h)
         /\ mem[h].evicted_on = NoDay => \A i \in StandingIn(s) : s[i].day < day
  <2> SUFFICES ASSUME h \notin torn, ~StrikeTakenBack(h)
               PROVE  mem[h].evicted_on = day => o2[day][h] = "strike"
    BY <1>2, <1>7, <1>11, QuietTurn
  <2> QED  BY <1>8, <1>9 DEF StrikeTakenBack
<1>13. /\ \A i \in 1 .. Len(s) : s[i].day <= day
       /\ o2[day][h] # NoKind
  BY <1>2, <1>7, <1>9 DEF Renewed
<1>14. h \notin torn => Sound(t, o2, mem'[h], h)
  <2> SUFFICES ASSUME h \notin torn PROVE Sound(t, o2, mem'[h], h)
    OBVIOUS
  <2>1. CASE RetractEviction(h)
    <3>1. Emit(h, "eviction_retracted") /\ mem[h].evicted_on = day /\ mem'[h].evicted_on = NoDay
      BY <2>1 DEF RetractEviction, StrikeTakenBack, TypeOK
    <3>2. /\ Line("eviction_retracted") \in Lines /\ t = Append(s, Line("eviction_retracted"))
          /\ Line("eviction_retracted").kind = "eviction_retracted"
          /\ Line("eviction_retracted").day = day
      BY <1>10, <3>1 DEF LifecycleKinds
    <3>3. /\ Renewed(s, o, o2, h, Line("eviction_retracted").day)
          /\ mem[h].evicted_on = Line("eviction_retracted").day
      BY <1>7, <3>1, <3>2
    <3>4. \A st2 : st2.evicted_on = NoDay => Sound(t, o2, st2, h)
      BY <1>11, <3>2, <3>3, Retracted
    <3> QED  BY <3>1, <3>4
  <2>2. CASE Evict(h)
    <3>1. Emit(h, "evicted") /\ EarnsEviction(h)
      BY <2>2 DEF Evict
    <3>2. /\ Line("evicted") \in Lines /\ t = Append(s, Line("evicted"))
          /\ Line("evicted").kind = "evicted" /\ Line("evicted").day = day
      BY <1>10, <3>1 DEF LifecycleKinds
    <3>3. mem'[h].evicted_on = day /\ mem'[h].last_eviction_on = day
      BY <2>2 DEF Evict, TypeOK
    <3>4. mem[h].evicted_on = NoDay /\ Kind(h) = "strike" /\ ~StrikeTakenBack(h)
      BY <1>3, <3>1 DEF EarnsEviction, StrikeTakenBack
    <3>5. mobs' = [mobs EXCEPT ![day][h] = Kind(h)]
      BY <1>1 DEF Turn, Note
    <3>6. LET n == Cardinality(StrikeDays(mobs', h, day, mem[h].last_eviction_on))
          IN  n >= 1 /\ n >= StrikesToEvict
      BY <3>1, <3>5 DEF EarnsEviction, EnoughStrikes
    <3>7. \A d \in Days : mobs'[d][h] = "strike" => o2[d][h] = "strike"
      BY OverlayReads DEF o2, NoKind
    <3> QED  BY <1>9, <1>11, <1>12, <1>13, <3>2, <3>3, <3>4, <3>6, <3>7, Evicted
  <2>3. CASE WithholdEviction(h)
    <3>1. Emit(h, "eviction_withheld") /\ mem' = mem /\ mem[h].evicted_on = NoDay
      BY <2>3 DEF WithholdEviction, EarnsEviction
    <3>2. /\ Line("eviction_withheld") \in Lines /\ t = Append(s, Line("eviction_withheld"))
          /\ Line("eviction_withheld").kind = "eviction_withheld"
          /\ Line("eviction_withheld").day = day
      BY <1>10, <3>1 DEF LifecycleKinds
    <3>3. ~StrikeTakenBack(h)
      BY <1>3, <3>1 DEF StrikeTakenBack
    <3> QED  BY <1>11, <1>12, <1>13, <3>1, <3>2, <3>3, Withheld
  <2>4. CASE Reinstate(h)
    <3>1. Emit(h, "reinstated") /\ MayReturn(h)
      BY <2>4 DEF Reinstate
    <3>2. /\ Line("reinstated") \in Lines /\ t = Append(s, Line("reinstated"))
          /\ Line("reinstated").kind = "reinstated" /\ Line("reinstated").day = day
      BY <1>10, <3>1 DEF LifecycleKinds
    <3>3. mem'[h].evicted_on = NoDay /\ mem'[h].last_eviction_on = mem[h].last_eviction_on
      BY <2>4 DEF Reinstate, TypeOK, EvictionStates
    <3>4. ~StrikeTakenBack(h) /\ mem[h].evicted_on # NoDay /\ Kind(h) = "clean"
      BY <3>1 DEF MayReturn
    <3>5. mem[h].evicted_on # day
      BY <1>8, <3>4 DEF StrikeTakenBack
    <3> QED  BY <1>11, <1>12, <1>13, <3>2, <3>3, <3>4, <3>5, Reinstated
  <2>5. CASE JustNote(h)
    <3>1. mlife' = mlife /\ mem' = mem /\ ~StrikeTakenBack(h)
      BY <2>5 DEF JustNote
    <3> QED  BY <1>12, <3>1 DEF s, t
  <2> QED  BY <2>1, <2>2, <2>3, <2>4, <2>5 DEF ObserveModel
<1>15. OnDays(t, o2, h)
  <2>1. \A i \in 1 .. Len(s) : s[i].day \in Days
    BY <1>11, LineTypes
  <2>2. OnDays(s, o2, h)
    BY <1>2, <1>4, <1>11, <2>1 DEF OnDays
  <2>3. CASE t = s
    BY <2>2, <2>3
  <2>4. CASE t # s
    <3>1. PICK kind \in LifecycleKinds : Emit(h, kind)
      BY <1>5, <2>4 DEF s, t, Emit
    <3>2. Line(kind) \in Lines /\ t = Append(s, Line(kind)) /\ Line(kind).day = day
      BY <1>10, <3>1
    <3>3. /\ Len(s) \in Nat /\ Len(t) = Len(s) + 1 /\ t[Len(s) + 1] = Line(kind)
          /\ \A i \in 1 .. Len(s) : t[i] = s[i]
      BY <1>11, <3>2, Appending
    <3>4. \A i \in 1 .. Len(t) : i = Len(s) + 1 \/ i \in 1 .. Len(s)
      BY <3>3
    <3> QED  BY <1>13, <2>2, <3>2, <3>3, <3>4 DEF OnDays
  <2> QED  BY <2>3, <2>4
<1>17. HeldInv'
  <2> SUFFICES ASSUME NEW k \in Hotkeys
               PROVE  /\ OnDays(mlife'[k], o2, k)
                      /\ k \notin torn => Sound(mlife'[k], o2, mem'[k], k)
    BY <1>2 DEF HeldInv, o2
  <2>1. CASE k = h
    BY <1>14, <1>15, <2>1 DEF t
  <2>2. CASE k # h
    <3>1. \A d \in Days : o2[d][k] = o[d][k]
      BY <1>4, <2>2
    <3>2. OnDays(mlife[k], o, k) /\ (k \notin torn => Sound(mlife[k], o, mem[k], k))
      BY DEF HeldInv, o
    <3>3. \A i \in 1 .. Len(mlife[k]) : mlife[k][i].day \in Days
      BY <1>3, LineTypes
    <3>4. mlife[k] \in Seq(Lines) /\ mlife'[k] = mlife[k] /\ mem'[k] = mem[k]
      BY <1>3, <1>6, <2>2
    <3>5. OnDays(mlife'[k], o2, k)
      BY <3>1, <3>2, <3>3, <3>4 DEF OnDays
    <3>6. k \notin torn => Sound(mlife'[k], o2, mem'[k], k)
      BY <3>1, <3>2, <3>4, SoundSame
    <3> QED  BY <3>5, <3>6
  <2> QED  BY <2>1, <2>2
<1>16. FoldsOn'
  <2>1. Ahead' = Ahead
    BY <1>2 DEF Ahead
  <2>2. \A d \in Ahead : day <= d /\ d \in Nat
    BY <1>2, <1>3 DEF FoldsOn, Ahead, TypeOK, Days
  <2>3. \A d \in Ahead, k \in Hotkeys : \A i \in 1 .. Len(mlife'[k]) : mlife'[k][i].day <= d
    <3> TAKE d \in Ahead, k \in Hotkeys
    <3>1. CASE mlife'[k] = mlife[k]
      BY <3>1 DEF FoldsOn
    <3>2. CASE mlife'[k] # mlife[k]
      <4>1. PICK kind \in LifecycleKinds : Emit(h, kind)
        BY <1>5, <3>2 DEF Emit
      <4>2. k = h /\ t = Append(s, Line(kind)) /\ Line(kind).day = day
        BY <1>6, <1>10, <3>2, <4>1
      <4>3. \A i \in 1 .. Len(t) : t[i].day = day \/ (i \in 1 .. Len(s) /\ t[i] = s[i])
        <5>1. /\ Len(s) \in Nat /\ Len(t) = Len(s) + 1 /\ t[Len(s) + 1] = Line(kind)
              /\ \A i \in 1 .. Len(s) : t[i] = s[i]
          BY <1>10, <1>11, <4>1, <4>2, Appending
        <5> QED  BY <4>2, <5>1
      <4>4. \A i \in 1 .. Len(s) : s[i].day <= d
        BY <4>2 DEF s, FoldsOn
      <4> QED  BY <2>2, <4>2, <4>3, <4>4 DEF t
    <3> QED  BY <3>1, <3>2
  <2>4. \A d \in Ahead, k \in Hotkeys : WindowDays > 0 =>
          \A e \in Days : e >= d /\ mobs'[e][k] = NoKind => obs'[e][k] = NoKind
    BY <1>2 DEF FoldsOn
  <2> QED  BY <1>2, <2>1, <2>3, <2>4 DEF FoldsOn
<1> QED  BY <1>16, <1>17

\* The step starts on the last observed day or later, with all the window covers.
LEMMA LoadFolds ==
  ASSUME TypeOK, LoadLedgers, \A k \in Hotkeys : OnDays(life[k], obs, k)
  PROVE  FoldsOn'
<1>0. /\ today \in Nat /\ WindowDays \in Nat /\ LookbackDays \in Nat /\ Days \subseteq Nat
      /\ \A k \in Hotkeys : life[k] \in Seq(Lines)
  BY DaysAssumption, ParamsAssumption DEF TypeOK, Days
<1>1. /\ pc' = "fold" /\ todo' = DaysToObserve /\ mobs' = LoadedObs /\ mlife' = life
      /\ obs' = obs /\ Ahead' = DaysToObserve
  BY DEF LoadLedgers, LoadedLife, durable, Ahead
<1>2. \A d \in Days, k \in Hotkeys : LoadedObs[d][k] = IF d >= Cutoff THEN obs[d][k] ELSE NoKind
  BY DEF LoadedObs, NoObs
<1>3. Cutoff \in Int /\ \A e \in Observed : e \in Days /\ e \in Nat /\ e >= Cutoff
  <2>1. Cutoff \in Int
    BY <1>0 DEF Cutoff
  <2>2. ASSUME NEW e \in Observed PROVE e \in Days /\ e >= Cutoff
    BY <1>2 DEF Observed
  <2> QED  BY <1>0, <2>1, <2>2
<1>4. ASSUME NEW d \in DaysToObserve
      PROVE  /\ d \in Days /\ d \in Nat
             /\ Observed = {} => d >= today - LookbackDays
             /\ \A e \in Observed : d >= e
  BY <1>0 DEF DaysToObserve
<1>5. ASSUME NEW d \in DaysToObserve, NEW k \in Hotkeys, NEW i \in 1 .. Len(life[k])
      PROVE  life[k][i].day <= d
  <2> DEFINE e == life[k][i].day
  <2>1. e \in Days /\ e \in Nat /\ obs[e][k] # NoKind
    BY <1>0, LineTypes DEF OnDays
  <2>2. CASE e >= Cutoff
    <3>1. e \in Observed
      BY <1>2, <2>1, <2>2 DEF Observed
    <3> QED  BY <1>4, <2>1, <3>1
  <2>3. CASE ~(e >= Cutoff)
    <3>1. e <= today - WindowDays - LookbackDays
      BY <1>0, <2>1, <2>3 DEF Cutoff
    <3>2. CASE Observed = {}
      BY <1>0, <1>4, <2>1, <3>1, <3>2
    <3>3. CASE Observed # {}
      <4>1. PICK f \in Observed : f >= Cutoff /\ d >= f /\ f \in Nat
        BY <1>3, <1>4, <3>3
      <4> QED  BY <1>3, <1>4, <2>1, <2>3, <4>1
    <3> QED  BY <3>2, <3>3
  <2> QED  BY <2>2, <2>3
<1>6. ASSUME NEW d \in DaysToObserve, NEW k \in Hotkeys, WindowDays > 0,
             NEW e \in Days, e >= d, LoadedObs[e][k] = NoKind
      PROVE  obs[e][k] = NoKind
  <2>1. d >= Cutoff
    <3>1. CASE Observed = {}
      BY <1>0, <1>4, <1>6, <3>1 DEF Cutoff
    <3>2. CASE Observed # {}
      <4>1. PICK f \in Observed : f >= Cutoff /\ d >= f /\ f \in Nat
        BY <1>3, <1>4, <3>2
      <4> QED  BY <1>3, <1>4, <4>1
    <3> QED  BY <3>1, <3>2
  <2>2. e >= Cutoff
    BY <1>0, <1>3, <1>4, <1>6, <2>1
  <2> QED  BY <1>2, <1>6, <2>2
<1> QED  BY <1>1, <1>5, <1>6 DEF FoldsOn

\* A model with no line and no eviction.
LEMMA FreshSound ==
  ASSUME NEW o, NEW h
  PROVE  Sound(<< >>, o, FreshState, h) /\ EarnedIn(<< >>, o, h)
<1>1. MovesIn(<< >>) = {} /\ StandingIn(<< >>) = {} /\ Len(<< >>) = 0
  BY DEF MovesIn, StandingIn
<1>2. DayOfLast(<< >>, StandingIn(<< >>)) = NoDay
  BY <1>1 DEF DayOfLast
<1>3. FreshState.evicted_on = NoDay /\ FreshState.last_eviction_on >= NoDay
  BY DEF FreshState, NoDay
<1>4. Dated(<< >>, o, h) /\ EarnedIn(<< >>, o, h)
  BY <1>1 DEF Dated, EarnedIn
<1>5. Agrees(<< >>, o, FreshState, h)
  BY <1>1, <1>3 DEF Agrees
<1>6. Counts(<< >>, o, FreshState, h)
  BY <1>2, <1>3 DEF Counts
<1> QED  BY <1>4, <1>5, <1>6 DEF Sound

LEMMA InitHistory == Init => HistoryInv
<1> SUFFICES ASSUME Init PROVE HistoryInv
  OBVIOUS
<1>1. pc = "idle" /\ \A h \in Hotkeys : life[h] = << >> /\ states[h] = FreshState
  BY DEF Init, NoLife, NoStates
<1>2. \A h : OnDays(<< >>, obs, h)
  BY DEF OnDays
<1> QED  BY <1>1, <1>2, FreshSound DEF HistoryInv, StoredInv


LEMMA StepHistory == TypeOK /\ TypeOK' /\ HistoryInv /\ [Next]_vars => HistoryInv'
<1> SUFFICES ASSUME TypeOK, TypeOK', HistoryInv, [Next]_vars PROVE HistoryInv'
  OBVIOUS
<1>1. /\ pc # "save" => StoredInv
      /\ pc # "idle" => HeldInv
      /\ pc \in {"fold", "models"} => FoldsOn
      /\ pc = "save" => life = mlife /\ Overlay(obs, mobs) = obs
  BY DEF HistoryInv
<1>2. StoredInv /\ UNCHANGED <<obs, life, states, torn>> => StoredInv'
  BY DEF StoredInv
<1>3. HeldInv /\ UNCHANGED <<obs, mobs, mlife, mem, torn>> => HeldInv'
  BY DEF HeldInv
<1>4. CASE NextDay \/ UNCHANGED vars
         \/ \E d \in Days, h \in Hotkeys, run \in Runs : RecordDay(d, h, run)
  <2>1. UNCHANGED <<obs, life, states, torn, pc, mobs, mlife, mem, todo, day>>
    BY <1>4 DEF NextDay, RecordDay, vars, durable, volatile, fate
  <2>2. FoldsOn => FoldsOn'
    BY <2>1 DEF FoldsOn, Ahead
  <2> QED  BY <1>1, <1>2, <1>3, <2>1, <2>2 DEF HistoryInv
<1>5. CASE LoadLedgers
  <2>1. /\ pc = "idle" /\ pc' = "fold" /\ mobs' = LoadedObs /\ mlife' = life /\ mem' = states
        /\ UNCHANGED <<obs, life, states, torn>>
    BY <1>5 DEF LoadLedgers, LoadedLife, durable, fate
  <2>2. \A d \in Days, k \in Hotkeys : Overlay(obs', mobs')[d][k] = obs[d][k]
    <3> TAKE d \in Days, k \in Hotkeys
    <3>1. LoadedObs[d][k] = IF d >= Cutoff THEN obs[d][k] ELSE NoKind
      BY DEF LoadedObs, NoObs
    <3>2. Overlay(obs, LoadedObs)[d][k] =
            IF LoadedObs[d][k] # NoKind THEN LoadedObs[d][k] ELSE obs[d][k]
      BY OverlayReads
    <3> QED  BY <2>1, <3>1, <3>2
  <2>3. HeldInv'
    <3> SUFFICES ASSUME NEW h \in Hotkeys
                 PROVE  /\ OnDays(life[h], Overlay(obs', mobs'), h)
                        /\ h \notin torn => Sound(life[h], Overlay(obs', mobs'), states[h], h)
      BY <2>1 DEF HeldInv
    <3>1. /\ OnDays(life[h], obs, h) /\ (h \notin torn => Sound(life[h], obs, states[h], h))
          /\ life[h] \in Seq(Lines)
      BY <1>1, <2>1 DEF StoredInv, TypeOK
    <3>2. \A i \in 1 .. Len(life[h]) : life[h][i].day \in Days
      BY <3>1, LineTypes
    <3>3. OnDays(life[h], Overlay(obs', mobs'), h)
      BY <2>2, <3>1, <3>2 DEF OnDays
    <3>4. h \notin torn => Sound(life[h], Overlay(obs', mobs'), states[h], h)
      BY <2>2, <3>1, SoundSame
    <3> QED  BY <3>3, <3>4
  <2>4. FoldsOn'
    <3>1. \A h \in Hotkeys : OnDays(life[h], obs, h)
      BY <1>1, <2>1 DEF StoredInv
    <3> QED  BY <1>5, <3>1, LoadFolds
  <2> QED  BY <1>1, <1>2, <2>1, <2>3, <2>4 DEF HistoryInv
<1>6. CASE StartDay
  <2>1. PICK d \in todo : /\ \A e \in todo : d <= e
                          /\ todo' = todo \ {d} /\ day' = d
    BY <1>6 DEF StartDay
  <2>2. /\ pc = "fold" /\ pc' = "models"
        /\ UNCHANGED <<obs, life, states, torn, mobs, mlife, mem>>
    BY <1>6 DEF StartDay, durable, fate
  <2>3. Ahead = todo /\ Ahead' = todo
    BY <2>1, <2>2 DEF Ahead
  <2>4. \A e \in todo' : d < e
    BY <2>1 DEF TypeOK, Days
  <2>5. FoldsOn'
    BY <1>1, <2>1, <2>2, <2>3, <2>4 DEF FoldsOn
  <2> QED  BY <1>1, <1>2, <1>3, <2>2, <2>5 DEF HistoryInv
<1>7. ASSUME NEW h \in Hotkeys, ObserveModel(h) PROVE HistoryInv'
  <2>1. Turn(h)
    BY <1>7 DEF ObserveModel, RetractEviction, Evict, WithholdEviction, Reinstate, JustNote
  <2>2. pc = "models" /\ pc' = "models" /\ UNCHANGED <<obs, life, states, torn>>
    BY <2>1 DEF Turn, durable, fate
  <2>3. HeldInv' /\ FoldsOn'
    BY <1>1, <1>7, <2>2, ObserveHistory
  <2> QED  BY <1>1, <1>2, <2>2, <2>3 DEF HistoryInv
<1>8. CASE EndDay
  <2>1. /\ pc = "models" /\ pc' = "fold"
        /\ UNCHANGED <<obs, life, states, torn, todo, mobs, mlife, mem>>
    BY <1>8 DEF EndDay, durable, fate
  <2>2. Ahead' \subseteq Ahead
    BY <2>1 DEF Ahead
  <2>3. FoldsOn'
    BY <1>1, <2>1, <2>2 DEF FoldsOn
  <2> QED  BY <1>1, <1>2, <1>3, <2>1, <2>3 DEF HistoryInv
<1>9. CASE AppendStrikeEvents
  <2>1. /\ pc = "fold" /\ pc' = "save" /\ obs' = Overlay(obs, mobs) /\ life' = mlife
        /\ UNCHANGED <<states, torn, mobs, mlife, mem>>
    BY <1>9 DEF AppendStrikeEvents, volatile, fate
  <2>2. Overlay(Overlay(obs, mobs), mobs) = Overlay(obs, mobs)
    BY DEF Overlay
  <2>3. HeldInv'
    BY <1>1, <2>1, <2>2 DEF HeldInv
  <2> QED  BY <2>1, <2>2, <2>3 DEF HistoryInv
<1>10. CASE SaveEvictionStates
  <2>1. pc = "save" /\ pc' = "idle" /\ states' = mem /\ UNCHANGED <<obs, life, torn>>
    BY <1>10 DEF SaveEvictionStates, Forget, fate
  <2>2. StoredInv'
    BY <1>1, <2>1 DEF StoredInv, HeldInv
  <2> QED  BY <2>1, <2>2 DEF HistoryInv
<1>11. CASE Crash
  <2>1. /\ pc # "idle" /\ pc' = "idle" /\ UNCHANGED <<obs, life, states>>
        /\ torn' = IF pc = "save" THEN torn \cup Unsaved ELSE torn
    BY <1>11 DEF Crash, Forget, durable
  <2>2. CASE pc # "save"
    BY <1>1, <1>2, <2>1, <2>2 DEF HistoryInv
  <2>3. CASE pc = "save"
    <3>1. \A h \in Hotkeys : h \notin torn' => h \notin torn /\ mem[h] = states[h]
      BY <2>1, <2>3 DEF Unsaved
    <3>2. StoredInv'
      BY <1>1, <2>1, <2>3, <3>1 DEF StoredInv, HeldInv
    <3> QED  BY <2>1, <3>2 DEF HistoryInv
  <2> QED  BY <2>2, <2>3
<1> QED
  BY <1>4, <1>5, <1>6, <1>7, <1>8, <1>9, <1>10, <1>11 DEF Next, Loop

\* Wherever the process dies, a liveness step leaves states that say what the log
\* says: a model is out exactly when the last line that moved it is an eviction.
\* Only the models whose new state a death between the two writes threw away are
\* left out.
THEOREM StatesFollowTheLog == Spec => []EvictedIffLogged
<1>1. TypeOK /\ HistoryInv => EvictedIffLogged
  <2> SUFFICES ASSUME TypeOK, HistoryInv, pc # "save", NEW h \in Hotkeys, h \notin torn
               PROVE  states[h].evicted_on # NoDay
                        <=> (Moves(h) # {} /\ life[h][LastOf(Moves(h))].kind = "evicted")
    BY DEF EvictedIffLogged
  <2>1. Agrees(life[h], obs, states[h], h) /\ life[h] \in Seq(Lines)
    BY DEF HistoryInv, StoredInv, Sound, TypeOK
  <2>2. Moves(h) = MovesIn(life[h]) /\ Moves(h) \subseteq 1 .. Len(life[h])
    BY DEF Moves, MovesIn
  <2>3. Len(life[h]) \in Nat
    BY <2>1
  <2>4. CASE states[h].evicted_on # NoDay
    <3>1. PICK m \in Moves(h) : life[h][m].kind = "evicted" /\ \A k \in Moves(h) : k <= m
      BY <2>1, <2>2, <2>4 DEF Agrees
    <3>2. LastOf(Moves(h)) \in Moves(h) /\ \A k \in Moves(h) : k <= LastOf(Moves(h))
      BY <2>2, <2>3, <3>1, LastIsLast
    <3>3. LastOf(Moves(h)) = m
      BY <2>2, <2>3, <3>1, <3>2
    <3> QED  BY <2>4, <3>1, <3>3
  <2>5. CASE states[h].evicted_on = NoDay
    <3> SUFFICES ASSUME Moves(h) # {}, life[h][LastOf(Moves(h))].kind = "evicted" PROVE FALSE
      BY <2>5
    <3>1. LastOf(Moves(h)) \in Moves(h) /\ \A k \in Moves(h) : k <= LastOf(Moves(h))
      BY <2>2, <2>3, LastIsLast
    <3>2. PICK k \in Moves(h) : k > LastOf(Moves(h))
      BY <2>1, <2>2, <2>5, <3>1 DEF Agrees
    <3> QED  BY <2>2, <2>3, <3>1, <3>2
  <2> QED  BY <2>4, <2>5
<1> QED  BY <1>1, InitTypes, StepTypes, InitHistory, StepHistory, PTL DEF Spec

\* Wherever the process dies, every eviction that stands on the log was earned on
\* strikes of its own, however the ledger was rewritten since, with the same
\* models left out.
THEOREM EvictionsEarned == Spec => []EvictionEarned
<1>1. TypeOK /\ HistoryInv => EvictionEarned
  <2> SUFFICES ASSUME TypeOK, HistoryInv, NEW h \in Hotkeys, h \notin torn, NEW i \in Standing(h)
               PROVE  LET before == {j \in Standing(h) : j < i}
                          since == IF before = {} THEN NoDay ELSE life[h][LastOf(before)].day
                      IN  Cardinality(StrikeDays(obs, h, life[h][i].day, since)) >= StrikesToEvict
    BY DEF EvictionEarned
  <2>1. Standing(h) = StandingIn(life[h])
    BY DEF Standing, StandingIn, Moves, MovesIn
  <2>2. Before(life[h], i) = {j \in Standing(h) : j < i}
    BY <2>1 DEF Before
  <2>3. EarnedIn(life[h], obs, h)
    <3>1. CASE pc # "save"
      BY <3>1 DEF HistoryInv, StoredInv, Sound
    <3>2. CASE pc = "save"
      BY <3>2 DEF HistoryInv, HeldInv, Sound
    <3> QED  BY <3>1, <3>2
  <2> QED  BY <2>1, <2>2, <2>3 DEF EarnedIn, DayOfLast
<1> QED  BY <1>1, InitTypes, StepTypes, InitHistory, StepHistory, PTL DEF Spec
=============================================================================
