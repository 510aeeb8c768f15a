---------------------------- MODULE ChronicFailure ----------------------------
(***************************************************************************)
(* The liveness policy of the daily loop: every admitted model runs once a *)
(* shadow day, a run that fails by the miner's own fault is a strike, and  *)
(* StrikesToEvict strikes inside a rolling window evict the model from the *)
(* earning set until it runs clean again.                                  *)
(*                                                                         *)
(* Three durable stores take part: the shadow ledger the executor appends  *)
(* run records to, the append-only strike log, and the eviction states.    *)
(* The liveness step of the daily loop reads all three, folds the shadow   *)
(* days it has to look at one model at a time in memory, and then writes   *)
(* the log and the states with two separate writes.  The process may die   *)
(* at any of these points and is started again by its timer.               *)
(*                                                                         *)
(* A model (its hotkey) is a positive natural: the fold visits the models  *)
(* in sorted order.  A day is a natural counted from 1; 0 stands for None. *)
(***************************************************************************)
EXTENDS Integers, FiniteSets, Sequences

CONSTANTS
  Hotkeys,           \* the models the shadow runs know
  MaxDay,            \* bound: the last calendar day
  StrikesToEvict,    \* params.strikes_to_evict
  WindowDays,        \* params.window_days
  ReviewDays,        \* params.repeat_review_days
  RepeatLookback,    \* params.repeat_lookback_days, Forever for None
  Forever,
  LookbackDays,      \* liveness_lookback_days
  Runs,              \* the (ok, error) pairs a shadow run may end with
  MaxLate,           \* bound: days a run record may come after its day
  MaxLines,          \* bound: lifecycle lines of a model the loop starts on
  MaxReruns,         \* bound: records that supersede an earlier one
  MaxCrashes         \* bound: times the loop's process dies

NoDay == 0
NoHotkey == 0
Days == 1 .. MaxDay

Errors == {"", "docker", "pull_timeout", "pull_exit", "timeout", "exit", "other"}

ASSUME HotkeysAssumption == IsFiniteSet(Hotkeys) /\ Hotkeys \subseteq Nat \ {NoHotkey}
ASSUME DaysAssumption == MaxDay \in Nat \ {0}
ASSUME ParamsAssumption ==
  /\ StrikesToEvict \in Nat
  /\ WindowDays \in Nat
  /\ ReviewDays \in Nat
  /\ LookbackDays \in Nat
  /\ Forever \notin Int
  /\ RepeatLookback \in Nat \cup {Forever}
ASSUME RunsAssumption == Runs \subseteq [ok : BOOLEAN, error : Errors]
ASSUME BoundsAssumption ==
  MaxLate \in Nat /\ MaxLines \in Nat /\ MaxReruns \in Nat /\ MaxCrashes \in Nat

-----------------------------------------------------------------------------
(* Classification of one run and the numbers the runtime uses. *)

\* Who owns a failed run: the miner, the subnet, or nobody knowable.
ClassifyFailure(run) ==
  CASE run.ok -> "none"
    [] ~run.ok /\ run.error = "docker" -> "subnet"
    [] ~run.ok /\ run.error \in {"timeout", "exit"} -> "miner"
    [] ~run.ok /\ run.error \notin {"docker", "timeout", "exit"} -> "unknown"

ObservationKinds == {"strike", "clean", "excluded"}
NoKind == "unobserved"

\* The observation one run turns into.
KindOf(run) ==
  CASE run.ok -> "clean"
    [] ~run.ok /\ ClassifyFailure(run) = "miner" -> "strike"
    [] ~run.ok /\ ClassifyFailure(run) # "miner" -> "excluded"

LifecycleKinds == {"evicted", "reinstated", "eviction_retracted", "eviction_withheld"}
Lines == [kind : LifecycleKinds, day : Days]

\* params_from_env reads the four policy numbers and leaves these two at
\* their defaults, whatever SN21_HOUSE_HOTKEY and SN21_MIN_SURVIVORS say.
HouseHotkey == NoHotkey
MinSurvivors == 1

EvictionStates ==
  [evicted_on : Days \cup {NoDay}, evictions_total : Nat,
   last_eviction_on : Days \cup {NoDay}, not_before : Nat]

FreshState ==
  [evicted_on |-> NoDay, evictions_total |-> 0,
   last_eviction_on |-> NoDay, not_before |-> NoDay]

NoRun == [ok |-> FALSE, error |-> "norun"]

-----------------------------------------------------------------------------
VARIABLES
  today,     \* the calendar day
  ledger,    \* day -> model -> operative run record of the shadow ledger
  reruns,    \* records that superseded another so far
  obs,       \* _strikes.jsonl: day -> model -> operative observation
  life,      \* _strikes.jsonl: model -> its lifecycle lines, in order
  states,    \* _eviction_state.json: model -> eviction state
  known,     \* _eviction_state.json: the models it lists
  pc,        \* where the liveness step is
  todo,      \* shadow days still to fold
  day,       \* the shadow day being folded
  runs,      \* day_run_status of that day
  queue,     \* its models still to visit
  mobs,      \* the log in memory, observations read through the window
  mlife,     \* the log in memory, lifecycle lines
  mem,       \* the eviction states in memory
  field,     \* known_hotkeys of the fold
  crashes,   \* how often the process died
  torn       \* models whose logged turn a death kept from the states

shadow == <<today, ledger, reruns>>
durable == <<obs, life, states, known>>
volatile == <<todo, day, runs, queue, mobs, mlife, mem, field>>
fate == <<crashes, torn>>
vars == <<shadow, durable, pc, volatile, fate>>

NoRuns == [h \in Hotkeys |-> NoRun]
NoObs == [d \in Days |-> [h \in Hotkeys |-> NoKind]]
NoLife == [h \in Hotkeys |-> << >>]
NoStates == [h \in Hotkeys |-> FreshState]

TypeOK ==
  /\ today \in Days
  /\ ledger \in [Days -> [Hotkeys -> Runs \cup {NoRun}]]
  /\ reruns \in Nat
  /\ obs \in [Days -> [Hotkeys -> ObservationKinds \cup {NoKind}]]
  /\ life \in [Hotkeys -> Seq(Lines)]
  /\ states \in [Hotkeys -> EvictionStates]
  /\ known \in SUBSET Hotkeys
  /\ pc \in {"idle", "fold", "models", "save"}
  /\ todo \in SUBSET Days
  /\ day \in Days \cup {NoDay}
  /\ pc = "models" => day \in Days
  /\ runs \in [Hotkeys -> Runs \cup {NoRun}]
  /\ queue \in SUBSET {h \in Hotkeys : runs[h] # NoRun}
  /\ mobs \in [Days -> [Hotkeys -> ObservationKinds \cup {NoKind}]]
  /\ mlife \in [Hotkeys -> Seq(Lines)]
  /\ mem \in [Hotkeys -> EvictionStates]
  /\ field \in SUBSET Hotkeys
  /\ crashes \in Nat /\ torn \in SUBSET Hotkeys

Init ==
  /\ today = 1
  /\ ledger = [d \in Days |-> NoRuns]
  /\ reruns = 0
  /\ obs = NoObs /\ life = NoLife
  /\ states = NoStates /\ known = {}
  /\ pc = "idle"
  /\ todo = {} /\ day = NoDay /\ runs = NoRuns /\ queue = {}
  /\ mobs = NoObs /\ mlife = NoLife /\ mem = NoStates /\ field = {}
  /\ crashes = 0 /\ torn = {}

\* What the process held in memory is gone.
Forget ==
  /\ pc' = "idle"
  /\ todo' = {} /\ day' = NoDay /\ runs' = NoRuns /\ queue' = {}
  /\ mobs' = NoObs /\ mlife' = NoLife /\ mem' = NoStates /\ field' = {}

-----------------------------------------------------------------------------
(* The world around the loop. *)

NextDay ==
  /\ today < MaxDay
  /\ today' = today + 1
  /\ UNCHANGED <<ledger, reruns, durable, pc, volatile, fate>>

\* A model's run on a shadow day is appended; the last record with a status
\* is the operative one, so a rerun supersedes.
RecordDay(d, h, run) ==
  /\ d <= today /\ today - d <= MaxLate
  /\ ledger[d][h] # run
  /\ \/ ledger[d][h] = NoRun /\ UNCHANGED reruns
     \/ ledger[d][h] # NoRun /\ reruns < MaxReruns /\ reruns' = reruns + 1
  /\ ledger' = [ledger EXCEPT ![d][h] = run]
  /\ UNCHANGED <<today, durable, pc, volatile, fate>>

-----------------------------------------------------------------------------
(* The liveness step of the daily loop. *)

\* load_strike_events drops observations older than the read window; the
\* lifecycle lines it always keeps.
Cutoff_Window == today - WindowDays + 1
Cutoff == today - (WindowDays + LookbackDays) + 1
LoadedObs == [d \in Days |-> IF d >= Cutoff THEN obs[d] ELSE NoObs[d]]

LoadedLife == life

Observed == {d \in Days : \E h \in Hotkeys : LoadedObs[d][h] # NoKind}
RanOn(d) == {h \in Hotkeys : ledger[d][h] # NoRun}
SubnetRan(d) == RanOn(d) # {}

\* Fold from the last observed day on, that day included, so that a rerun
\* of it can still retract a strike.
DaysToObserve_After ==
  {d \in Days : /\ SubnetRan(d) /\ d <= today
                /\ IF Observed = {} THEN d >= today - LookbackDays
                                    ELSE \A o \in Observed : d > o}
DaysToObserve ==
  {d \in Days : /\ SubnetRan(d) /\ d <= today
                /\ IF Observed = {} THEN d >= today - LookbackDays
                                    ELSE \A o \in Observed : d >= o}

LoadLedgers ==
  /\ pc = "idle"
  /\ DaysToObserve # {}
  /\ \A h \in Hotkeys : Len(life[h]) < MaxLines
  /\ pc' = "fold"
  /\ todo' = DaysToObserve
  /\ mobs' = LoadedObs /\ mlife' = LoadedLife /\ mem' = states /\ field' = known
  /\ UNCHANGED <<shadow, durable, day, runs, queue, fate>>

\* The models day_run_status lists.
DayRuns(d) == RanOn(d)

\* day_run_status of the earliest day left; known_hotkeys is every model
\* with a state or a run that day.
StartDay ==
  /\ pc = "fold"
  /\ \E d \in todo :
       /\ \A e \in todo : d <= e
       /\ todo' = todo \ {d}
       /\ day' = d
       /\ runs' = ledger[d]
       /\ queue' = DayRuns(d)
       /\ field' = field \cup DayRuns(d)
  /\ pc' = "models"
  /\ UNCHANGED <<shadow, durable, mobs, mlife, mem, fate>>

EndDay ==
  /\ pc = "models"
  /\ queue = {}
  /\ pc' = "fold"
  /\ day' = NoDay /\ runs' = NoRuns
  /\ UNCHANGED <<shadow, durable, todo, queue, mobs, mlife, mem, field, fate>>

StrikeDays(o, h, asOf, since) ==
  {d \in Days : /\ asOf - WindowDays < d /\ d <= asOf
                /\ d > since
                /\ o[d][h] = "strike"}

Kind(h) == KindOf(runs[h])
Prior(h) == mobs[day][h]

\* The day's observation joins the log unless the log says the same already.
Note(h) == mobs' = [mobs EXCEPT ![day][h] = Kind(h)]

\* The model the sorted fold visits next.
Turn(h) ==
  /\ pc = "models"
  /\ h \in queue /\ \A k \in queue : h <= k
  /\ Note(h)
  /\ queue' = queue \ {h}
  /\ UNCHANGED <<shadow, durable, pc, todo, day, runs, field, fate>>

Emit(h, kind) ==
  mlife' = [mlife EXCEPT ![h] = Append(@, [kind |-> kind, day |-> day])]

\* The day's strike is gone and it was the one that evicted.
StrikeTakenBack_Ignored(h) == FALSE
StrikeTakenBack(h) ==
  /\ Prior(h) = "strike" /\ Kind(h) # "strike"
  /\ mem[h].evicted_on = day

\* Positions of the EVICTED lines of h that count as history: those of
\* other days, a day with a retraction line left out.
OtherEvictions(h) ==
  {i \in 1 .. Len(mlife[h]) :
     /\ mlife[h][i].kind = "evicted"
     /\ mlife[h][i].day # day
     /\ \A j \in 1 .. Len(mlife[h]) :
          mlife[h][j].kind = "eviction_retracted" => mlife[h][j].day # mlife[h][i].day}

\* The day of the last of them: a set of one element.
PreviousEvictionDay(h) ==
  IF OtherEvictions(h) = {} THEN {NoDay}
  ELSE {mlife[h][i].day : i \in {k \in OtherEvictions(h) :
                                   \A j \in OtherEvictions(h) : j <= k}}

RetractEviction(h) ==
  /\ Turn(h)
  /\ StrikeTakenBack(h)
  /\ Emit(h, "eviction_retracted")
  /\ \E prev \in PreviousEvictionDay(h) :
       mem' = [mem EXCEPT ![h] =
                 [evicted_on |-> NoDay,
                  evictions_total |-> Cardinality(OtherEvictions(h)),
                  last_eviction_on |-> prev,
                  not_before |-> NoDay]]

EnoughStrikes(h) ==
  LET n == Cardinality(StrikeDays([mobs EXCEPT ![day][h] = Kind(h)], h, day,
                                  mem[h].last_eviction_on))
  IN  n >= 1 /\ n >= StrikesToEvict

\* A model not evicted takes a strike that makes it chronic.
EarnsEviction(h) ==
  /\ mem[h].evicted_on = NoDay
  /\ Kind(h) = "strike"
  /\ EnoughStrikes(h)

\* Models other than h the field would be left with.
SurvivorsWithout(h) == {k \in field \ {h} : mem[k].evicted_on = NoDay}

EvictionBlocked_CountsItself(h) == Cardinality(SurvivorsWithout(h)) + 1 < MinSurvivors
EvictionBlocked(h) ==
  \/ HouseHotkey # NoHotkey /\ h = HouseHotkey
  \/ Cardinality(SurvivorsWithout(h)) < MinSurvivors

IsRepeat(st) ==
  /\ st.evictions_total > 0
  /\ st.last_eviction_on # NoDay
  /\ RepeatLookback # Forever => day - st.last_eviction_on <= RepeatLookback

Evict(h) ==
  /\ Turn(h)
  /\ EarnsEviction(h)
  /\ ~EvictionBlocked(h)
  /\ Emit(h, "evicted")
  /\ mem' = [mem EXCEPT ![h] =
               [evicted_on |-> day,
                evictions_total |-> mem[h].evictions_total + 1,
                last_eviction_on |-> day,
                not_before |-> IF IsRepeat(mem[h]) THEN day + ReviewDays ELSE day]]

WithholdEviction(h) ==
  /\ Turn(h)
  /\ EarnsEviction(h)
  /\ EvictionBlocked(h)
  /\ Emit(h, "eviction_withheld")
  /\ UNCHANGED mem

\* An evicted model ran clean and has served its wait.
MayReturn(h) ==
  /\ mem[h].evicted_on # NoDay
  /\ ~StrikeTakenBack(h)
  /\ Kind(h) = "clean"
  /\ day >= mem[h].not_before

Reinstate_StaysOut(h) ==
  /\ Turn(h) /\ MayReturn(h) /\ Emit(h, "reinstated")
  /\ mem' = [mem EXCEPT ![h].not_before = NoDay]
Reinstate(h) ==
  /\ Turn(h)
  /\ MayReturn(h)
  /\ Emit(h, "reinstated")
  /\ mem' = [mem EXCEPT ![h].evicted_on = NoDay, ![h].not_before = NoDay]

\* The observation alone is noted.
JustNote(h) ==
  /\ Turn(h)
  /\ ~StrikeTakenBack(h) /\ ~EarnsEviction(h) /\ ~MayReturn(h)
  /\ UNCHANGED <<mlife, mem>>

ObserveModel(h) ==
  \/ RetractEviction(h)
  \/ Evict(h)
  \/ WithholdEviction(h)
  \/ Reinstate(h)
  \/ JustNote(h)

\* The log with what the fold added: its observations over the older ones.
Overlay(o, m) ==
  [d \in Days |-> [h \in Hotkeys |-> IF m[d][h] # NoKind THEN m[d][h] ELSE o[d][h]]]

\* First write: the events emitted by the fold are appended.
AppendStrikeEvents_StatesFirst ==
  /\ pc = "fold" /\ todo = {}
  /\ states' = mem /\ known' = field
  /\ pc' = "save"
  /\ UNCHANGED <<shadow, obs, life, volatile, fate>>
AppendStrikeEvents ==
  /\ pc = "fold" /\ todo = {}
  /\ obs' = Overlay(obs, mobs)
  /\ life' = mlife
  /\ pc' = "save"
  /\ UNCHANGED <<shadow, states, known, volatile, fate>>

\* Second write: the states are replaced.
SaveEvictionStates ==
  /\ pc = "save"
  /\ states' = mem /\ known' = field
  /\ Forget
  /\ UNCHANGED <<shadow, obs, life, fate>>

Unsaved == {h \in Hotkeys : mem[h] # states[h]}

Crash ==
  /\ pc # "idle"
  /\ crashes < MaxCrashes
  /\ crashes' = crashes + 1
  /\ torn' = IF pc = "save" THEN torn \cup Unsaved ELSE torn
  /\ Forget
  /\ UNCHANGED <<shadow, durable>>

Loop ==
  \/ LoadLedgers
  \/ StartDay
  \/ \E h \in Hotkeys : ObserveModel(h)
  \/ EndDay
  \/ AppendStrikeEvents
  \/ SaveEvictionStates

Next ==
  \/ NextDay
  \/ \E d \in Days, h \in Hotkeys, run \in Runs : RecordDay(d, h, run)
  \/ Loop
  \/ Crash

Spec == Init /\ [][Next]_vars

\* The timer starts the loop again and again, so it is never put off forever.
FairSpec == Spec /\ WF_vars(Loop)

-----------------------------------------------------------------------------
(* Properties.  Written against both stores and, where a step is what      *)
(* matters, against the copy in memory.                                    *)

\* The field is never emptied: whoever is evicted in the stored states
\* (observe_day's floor, counted while the fold goes on), at least
\* min_survivors stored models are not.  Across crashes between the writes.
FieldNeverEmpties ==
  (\E h \in known : states[h].evicted_on # NoDay)
    => Cardinality({h \in known : states[h].evicted_on = NoDay}) >= MinSurvivors

\* No stored eviction without its line in the log (the order of the two
\* writes of the liveness step), whenever the process dies.
EvictionHasLine ==
  \A h \in Hotkeys : states[h].evicted_on # NoDay =>
    \E i \in 1 .. Len(life[h]) :
      life[h][i] = [kind |-> "evicted", day |-> states[h].evicted_on]

\* The audit trail is append-only: no loop run, however interrupted,
\* rewrites or removes a line a miner could already read.
LogOnlyGrows ==
  [][\A h \in Hotkeys :
       /\ Len(life[h]) <= Len(life'[h])
       /\ \A i \in 1 .. Len(life[h]) : life'[h][i] = life[h][i]]_vars

\* Positions of the lines that decide who is out; a withheld eviction does not.
Moves(h) == {i \in 1 .. Len(life[h]) : life[h][i].kind # "eviction_withheld"}

\* Evictions on record that no retraction has cancelled.
Standing(h) ==
  {i \in Moves(h) :
     /\ life[h][i].kind = "evicted"
     /\ \A j \in Moves(h) :
          (j > i /\ \A k \in Moves(h) : k > i => j <= k)
             => life[h][j].kind # "eviction_retracted"}

LastOf(S) == CHOOSE i \in S : \A j \in S : j <= i

\* The states are a cache of the log: a model is out exactly when the last
\* line that moved it is an eviction.  Read at every moment but between the
\* two writes, across deaths, for every model but those whose new state a
\* death between the two writes has thrown away.
EvictedIffLogged ==
  pc # "save" => \A h \in Hotkeys \ torn :
    states[h].evicted_on # NoDay
      <=> (Moves(h) # {} /\ life[h][LastOf(Moves(h))].kind = "evicted")

\* Every eviction that stands was earned on strikes of its own: enough
\* strike days in its window after the previous eviction that stands, none
\* of them since taken back.  Across deaths, for the same models.
EvictionEarned ==
  \A h \in Hotkeys \ torn : \A i \in Standing(h) :
    LET before == {j \in Standing(h) : j < i}
        since == IF before = {} THEN NoDay ELSE life[h][LastOf(before)].day
    IN  Cardinality(StrikeDays(obs, h, life[h][i].day, since)) >= StrikesToEvict

\* What the windowed read drops never matters to a decision about a day
\* within the lookback: the model the fold visits has the same strikes in
\* memory as in the whole log.
PruningIsInvisible ==
  pc = "models" /\ day >= today - LookbackDays => \A h \in queue :
    StrikeDays(mobs, h, day, mem[h].last_eviction_on)
      = StrikeDays(Overlay(obs, mobs), h, day, mem[h].last_eviction_on)

\* The log agrees with the shadow ledger on the days from the last
\* observed one on; on a cold log, on the days within reach.
Seen == {d \in Days : \E h \in Hotkeys : obs[d][h] # NoKind}
CaughtUp ==
  \A d \in 1 .. today :
    (IF Seen = {} THEN d >= today - LookbackDays ELSE \A o \in Seen : d >= o)
      => \A h \in Hotkeys : ledger[d][h] # NoRun => obs[d][h] = KindOf(ledger[d][h])

\* A result that arrives on the last observed day or after it reaches the
\* strike log, reruns included, for all that the process may die on the way
\* (unless the model's bound on lifecycle lines has stopped the loop).
EventuallyCaughtUp == []<>(CaughtUp \/ \E h \in Hotkeys : Len(life[h]) >= MaxLines)
=============================================================================
