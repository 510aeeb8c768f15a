----------------------------- MODULE DailyPipeline -----------------------------
(***************************************************************************)
(* The executor's day: the daemon that starts one pipeline per calendar    *)
(* day and catches up on missed ones, and the stages of a pipeline that    *)
(* carry the day's vector out: settle writes the intended weights, one     *)
(* stage posts them to the operator API that validators read, one posts    *)
(* the day's report to the CMS.                                            *)
(*                                                                         *)
(* Stages are fail-soft: one that fails is noted in the run record and the *)
(* next runs on what the disk holds.  A run that cannot resolve its basket *)
(* leaves no record, and neither does one that dies.  What settle computes *)
(* is a choice of whether the day pays; intake, shadow, release and mirror *)
(* have modules of their own.                                              *)
(***************************************************************************)
EXTENDS Integers, FiniteSets, Sequences, FiniteSetsExt

CONSTANTS
  MaxDay,           \* bound: calendar days 1 .. MaxDay
  CatchupDays,      \* SN21_CATCHUP_DAYS
  CatchupFrom,      \* SN21_CATCHUP_FROM
  RerunDay,         \* SN21_RERUN_DAY
  MaxCorrections,   \* MAX_CORRECTIONS
  MaxTrouble        \* bound: failed calls and stages, deaths, days without a pass

Days == 1 .. MaxDay
NoDay == 0

ASSUME BoundsAssumption ==
  /\ MaxDay \in Nat \ {0} /\ CatchupDays \in Nat /\ CatchupFrom \in Nat
  /\ RerunDay \in Nat /\ MaxCorrections \in Nat /\ MaxTrouble \in Nat

VARIABLES
  today, noon,      \* the clock: day, and whether the trigger hour has passed
  listed,           \* day on which the operator listed the basket of a day's run
  empty,            \* days whose basket holds no episodes
  pc, missed,       \* the daemon: where it is, days its pass has still to catch up
  rerun, ticked,    \* rerun override pending; an afternoon pass of today has ended
  day, stage,       \* the pipeline that runs: its day, its stage
  record,           \* pipeline_runs: days with a run record
  intent,           \* intended_weights_<day>.json
  posted,           \* operator API: the edition of each day's vector, 0 when none
  reports,          \* CMS: the report of each day and its corrections
  told,             \* history: what the last call to the CMS said
  excused,          \* history: days that had a turn and got no record
  trouble

clock == <<today, noon>>
operator == <<listed, empty>>
daemon == <<pc, missed, rerun, ticked>>
run == <<day, stage>>
outlets == <<posted, reports, told>>
vars == <<clock, operator, daemon, run, record, intent, outlets, excused, trouble>>

Editions == Nat
\* The vector a report speaks of, by its day and edition.
Says == [day : Days \cup {NoDay}, edition : Editions]
Nobody == [day |-> NoDay, edition |-> 0]
NoIntent == [pays |-> FALSE, edition |-> 0]

TypeOK ==
  /\ today \in Days /\ noon \in BOOLEAN
  /\ listed \in [Days -> Days \cup {NoDay}] /\ empty \subseteq Days
  /\ pc \in {"sleep", "catch up", "today", "run"} /\ missed \subseteq Days
  /\ rerun \in BOOLEAN /\ ticked \in BOOLEAN
  /\ day \in Days \cup {NoDay}
  /\ stage \in {"none", "resolve", "settle", "weights", "report", "record"}
  /\ record \subseteq Days /\ excused \subseteq Days
  /\ intent \in [Days -> [pays : BOOLEAN, edition : Editions]]
  /\ posted \in [Days -> Editions]
  /\ reports \in [Days -> Seq([says : Says, frozen : BOOLEAN])]
  /\ told \in [Days -> Says]
  /\ trouble \in 0 .. MaxTrouble

Init ==
  /\ today = 1 /\ noon = FALSE
  /\ listed = [d \in Days |-> NoDay] /\ empty = {}
  /\ pc = "sleep" /\ missed = {} /\ rerun = TRUE /\ ticked = FALSE
  /\ day = NoDay /\ stage = "none"
  /\ record = {} /\ intent = [d \in Days |-> NoIntent]
  /\ posted = [d \in Days |-> 0] /\ reports = [d \in Days |-> <<>>]
  /\ told = [d \in Days |-> Nobody]
  /\ excused = {} /\ trouble = 0

Suffer == trouble < MaxTrouble /\ trouble' = trouble + 1

-----------------------------------------------------------------------------
(* The clock and the operator *)

\* A day without an afternoon pass that ended, or a pass that lasts past
\* midnight, counts as trouble.  A pass overtaken by midnight looks at the new
\* day next: the day it began on has had its turn.
NewDay ==
  /\ today < MaxDay
  /\ today' = today + 1 /\ noon' = FALSE /\ ticked' = FALSE
  /\ IF pc = "sleep" /\ ticked THEN UNCHANGED trouble ELSE Suffer
  /\ excused' = IF pc \in {"catch up", "run"} THEN excused \cup {today} ELSE excused
  /\ UNCHANGED <<operator, pc, missed, rerun, run, record, intent, outlets>>

Noon ==
  /\ ~noon /\ noon' = TRUE
  /\ UNCHANGED <<today, operator, daemon, run, record, intent, outlets, excused, trouble>>

\* The basket of yesterday is listed on the day, or a day late.
ListBasket(d) ==
  /\ listed[d] = NoDay /\ d \in {today, today - 1}
  /\ listed' = [listed EXCEPT ![d] = today]
  /\ \E e \in BOOLEAN : empty' = IF e THEN empty \cup {d} ELSE empty
  /\ UNCHANGED <<clock, daemon, run, record, intent, outlets, excused, trouble>>

\* A report or correction on the CMS is frozen.
Freeze(d) ==
  /\ reports[d] # <<>> /\ ~reports[d][Len(reports[d])].frozen
  /\ reports' = [reports EXCEPT ![d][Len(reports[d])].frozen = TRUE]
  /\ UNCHANGED <<clock, operator, daemon, run, record, intent, posted, told, excused, trouble>>

-----------------------------------------------------------------------------
(* The daemon *)

MissedDays_Yesterday ==
  {d \in Days : d < today /\ today - d < CatchupDays /\ d >= CatchupFrom /\ d \notin record}
MissedDays ==
  {d \in Days : d < today /\ today - d <= CatchupDays /\ d >= CatchupFrom /\ d \notin record}

\* A pass begins with the days it has to catch up.
Wake ==
  /\ pc = "sleep"
  /\ pc' = "catch up" /\ missed' = MissedDays
  /\ UNCHANGED <<clock, operator, rerun, ticked, run, record, intent, outlets, excused, trouble>>

Start(d) == day' = d /\ stage' = "resolve"

NextMissed == Min(missed)

CatchUp ==
  /\ pc = "catch up" /\ missed # {}
  /\ Start(NextMissed) /\ missed' = missed \ {NextMissed}
  /\ pc' = "run"
  /\ UNCHANGED <<clock, operator, rerun, ticked, record, intent, outlets, excused, trouble>>

CaughtUp_NotAsked == TRUE
\* The day itself comes after the days before it.
CaughtUp == missed = {}
DueToday == noon /\ (today \notin record \/ (rerun /\ today = RerunDay))

RunToday ==
  /\ pc = "catch up" /\ CaughtUp /\ DueToday
  /\ Start(today)
  /\ pc' = "today"
  /\ UNCHANGED <<clock, operator, missed, rerun, ticked, record, intent, outlets, excused, trouble>>

Idle ==
  /\ pc = "catch up" /\ CaughtUp /\ ~DueToday
  /\ pc' = "sleep" /\ ticked' = noon
  /\ UNCHANGED <<clock, operator, missed, rerun, run, record, intent, outlets, excused, trouble>>

\* The pipeline has exited; without a record it exited with an error.  The run
\* of the day ends the pass, and a clean one the rerun.
Exit(clean) ==
  /\ day' = NoDay /\ stage' = "none"
  /\ IF pc = "today"
     THEN /\ pc' = "sleep" /\ ticked' = (today = day)
          /\ rerun' = (rerun /\ ~(clean /\ day = RerunDay))
     ELSE pc' = "catch up" /\ UNCHANGED <<ticked, rerun>>
  /\ UNCHANGED missed

\* A restart of the service: the run and the rest of the pass are gone, and the
\* override stands again.
Die ==
  /\ pc # "sleep" /\ Suffer
  /\ excused' = excused \cup missed \cup (IF day = NoDay THEN {} ELSE {day})
  /\ pc' = "sleep" /\ missed' = {} /\ rerun' = TRUE
  /\ day' = NoDay /\ stage' = "none"
  /\ UNCHANGED <<clock, operator, ticked, record, intent, outlets>>

-----------------------------------------------------------------------------
(* The pipeline *)

Resolve ==
  /\ stage = "resolve" /\ listed[day] # NoDay /\ day \notin empty
  /\ stage' = "settle"
  /\ UNCHANGED <<clock, operator, daemon, day, record, intent, outlets, excused, trouble>>

\* The basket is not listed yet, or a call fails: the day stays without a record.
ResolveFails ==
  /\ stage = "resolve"
  /\ IF listed[day] = NoDay THEN UNCHANGED trouble ELSE Suffer
  /\ Exit(FALSE)
  /\ excused' = excused \cup ({day} \ record)
  /\ UNCHANGED <<clock, operator, record, intent, outlets>>

EmptyBasket ==
  /\ stage = "resolve" /\ listed[day] # NoDay /\ day \in empty
  /\ record' = record \cup {day}
  /\ Exit(TRUE)
  /\ UNCHANGED <<clock, operator, intent, outlets, excused, trouble>>

\* The daily loop writes the day's intended weights; a day that is held pays
\* nobody.
Settle ==
  /\ stage = "settle"
  /\ \E pays \in BOOLEAN :
       intent' = [intent EXCEPT ![day] = [pays |-> pays, edition |-> @.edition + 1]]
  /\ stage' = "weights"
  /\ UNCHANGED <<clock, operator, daemon, day, record, outlets, excused, trouble>>

SettleFails ==
  /\ stage = "settle" /\ Suffer
  /\ stage' = "weights"
  /\ UNCHANGED <<clock, operator, daemon, day, record, intent, outlets, excused>>

\* The vector on the disk is posted if it pays anybody.
PublishWeights ==
  /\ stage = "weights"
  /\ posted' = IF intent[day].pays THEN [posted EXCEPT ![day] = intent[day].edition] ELSE posted
  /\ stage' = "report"
  /\ UNCHANGED <<clock, operator, daemon, day, record, intent, reports, told, excused, trouble>>

PublishWeightsFails ==
  /\ stage = "weights" /\ intent[day].pays /\ Suffer
  /\ stage' = "report"
  /\ UNCHANGED <<clock, operator, daemon, day, record, intent, outlets, excused>>

LiveAllocation_DayBefore(d) ==
  IF intent[d].pays THEN [day |-> d, edition |-> intent[d].edition]
  ELSE IF d > 1 /\ intent[d - 1].pays THEN [day |-> d - 1, edition |-> intent[d - 1].edition]
  ELSE Nobody
\* The vector a report describes: the day's own if it pays anybody, else the
\* newest earlier one that does.
LiveAllocation(d) ==
  LET paying == {e \in Days : e <= d /\ intent[e].pays}
  IN IF paying = {} THEN Nobody
     ELSE [day |-> Max(paying), edition |-> intent[Max(paying)].edition]

Slots_ReportOnly(d) == {i \in {1} : i > Len(reports[d]) \/ ~reports[d][i].frozen}
\* Editions of a day's report that can be posted: the report itself or one of
\* its corrections, not frozen.
Slots(d) ==
  {i \in 1 .. (MaxCorrections + 1) : i > Len(reports[d]) \/ ~reports[d][i].frozen}

Report(d, says) ==
  LET edition == [says |-> says, frozen |-> FALSE]
      i == Min(Slots(d))
  IN reports' = [reports EXCEPT ![d] =
                   IF i <= Len(@) THEN [@ EXCEPT ![i] = edition] ELSE Append(@, edition)]

\* The report goes out under the day's own number, or under the first
\* correction that is not frozen; when all are, nowhere.
PublishReport ==
  /\ stage = "report" /\ intent[day] # NoIntent
  /\ IF Slots(day) = {} THEN UNCHANGED reports ELSE Report(day, LiveAllocation(day))
  /\ told' = [told EXCEPT ![day] = LiveAllocation(day)]
  /\ stage' = "record"
  /\ UNCHANGED <<clock, operator, daemon, day, record, intent, posted, excused, trouble>>

\* A held day without standings has no report, and neither has a call that fails.
NoReport ==
  /\ stage = "report"
  /\ IF intent[day].pays THEN Suffer ELSE UNCHANGED trouble
  /\ stage' = "record"
  /\ UNCHANGED <<clock, operator, daemon, day, record, intent, outlets, excused>>

WriteRunRecord ==
  /\ stage = "record"
  /\ record' = record \cup {day}
  /\ Exit(TRUE)
  /\ UNCHANGED <<clock, operator, intent, outlets, excused, trouble>>

Stage ==
  \/ Resolve \/ ResolveFails \/ EmptyBasket \/ Settle \/ SettleFails
  \/ PublishWeights \/ PublishWeightsFails \/ PublishReport \/ NoReport \/ WriteRunRecord

Daemon == Wake \/ CatchUp \/ RunToday \/ Idle

Next ==
  \/ NewDay \/ Noon \/ \E d \in Days : ListBasket(d) \/ Freeze(d)
  \/ Daemon \/ Die \/ Stage

Spec == Init /\ [][Next]_vars

\* Hours pass, the daemon goes on and a pipeline ends.
FairSpec == Spec /\ WF_vars(NewDay) /\ WF_vars(Noon) /\ WF_vars(Daemon) /\ WF_vars(Stage)

-----------------------------------------------------------------------------
(* Properties *)

\* A day's vector is posted after that of a later day only if the day had its
\* turn before and came away without a record: its basket was not listed, a call
\* failed, the service died, or midnight overtook the pass.  ("Oldest first keeps
\* settle, receipts and published weights in day order", executor_daemon.py)
InDayOrder ==
  [][\A d \in Days : posted'[d] # posted[d] /\ (\E e \in Days : e > d /\ posted[e] # 0)
       => d \in excused]_vars

\* A day whose basket is listed on time gets its run, through one death, failed
\* call or lost day and across midnights.  (missed_days, catch_up)
EventuallyRun ==
  \A d \in Days : (listed[d] = d /\ d >= CatchupFrom) ~> d \in record

\* What the CMS shows as a day's report, its last correction, is what the last
\* run of the day told it, however often editions froze in between; until all
\* corrections are frozen.  (post_with_correction)
CanonicalIsLatest ==
  \A d \in Days : LET r == reports[d] IN
    r # <<>> /\ ~(Len(r) = MaxCorrections + 1 /\ r[Len(r)].frozen)
      => r[Len(r)].says = told[d]

\* A report speaks of the vector validators read: the newest one posted for a day
\* up to its own.  Until a failed call or a death keeps a vector from being
\* posted; and a vector that was posted is not withdrawn when its day runs again
\* and is held.  (live_allocation, stage_publish_weights)
ReportTellsWhatIsServed ==
  [][\A d \in Days :
       LET served == {e \in 1 .. d : posted[e] # 0}
       IN /\ stage = "report" /\ stage' = "record" /\ reports'[d] # reports[d] /\ trouble' = 0
          /\ \A e \in served : intent[e].pays
          => reports'[d][Len(reports'[d])].says
               = IF served = {} THEN Nobody
                 ELSE [day |-> Max(served), edition |-> posted[Max(served)]]]_vars
=============================================================================
