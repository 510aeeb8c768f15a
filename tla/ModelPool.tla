------------------------------- MODULE ModelPool -------------------------------
(***************************************************************************)
(* Which model a hotkey runs: intake, the model kept while a new one       *)
(* waits, and the removal of models that never change.                     *)
(*                                                                         *)
(* A pipeline first sweeps the commitments on chain: every digest without  *)
(* a final verdict is pulled and gated, each verdict is a file of its own, *)
(* and the file of admitted digests is rebuilt from the verdicts.  It then *)
(* resolves the models of the day, withholds those the unchanged rule      *)
(* removes, runs the others against the basket of the day before, and      *)
(* charges the whole basket to the hotkeys it has no record of.            *)
(*                                                                         *)
(* The stages write one file after the other and may stop between any two; *)
(* a failure of one step is swallowed and the run goes on.  The hotkey's   *)
(* chain slot changes at any moment.                                       *)
(***************************************************************************)
EXTENDS Integers, FiniteSets

CONSTANTS
  Hotkeys, Digests,
  NoDigest,       \* an empty slot, no model, no entry
  MaxDays,        \* MAX_DAYS: how long a digest may run unchanged
  KeepFrom,       \* SN21_KEEP_LAST_ADMITTED_FROM
  RemovalFrom,    \* SN21_UNCHANGED_REMOVAL_FROM
  ByDayKept,      \* days of by_day that are kept
  AbsenceDays,    \* CATCHUP_DAYS of the absence rule
  LastDay,        \* bound: the last calendar day
  MaxCommits,     \* bound: commitments
  MaxReruns,      \* bound: pipelines for a day that has its run record
  MaxCuts,        \* bound: pipelines that die
  MaxFaults       \* bound: steps that fail and are swallowed

Calendar == 1 .. LastDay
Never == 0
Final == {"admitted", "rejected"}
Entries == [digest : Digests \cup {NoDigest}, since : Calendar \cup {Never}]
NoEntry == [digest |-> NoDigest, since |-> Never]
NoRecord == [digest |-> NoDigest, delivered |-> FALSE]

ASSUME DigestsAssumption == NoDigest \notin Digests
ASSUME PoolDaysAssumption ==
  /\ LastDay \in Nat \ {0} /\ MaxDays \in Nat \ {0}
  /\ KeepFrom \in Nat /\ RemovalFrom \in Nat
  /\ ByDayKept \in Nat \ {0} /\ AbsenceDays \in Nat \ {0}
ASSUME PoolBoundsAssumption ==
  MaxCommits \in Nat /\ MaxReruns \in Nat /\ MaxCuts \in Nat /\ MaxFaults \in Nat

VARIABLES
  date,
  slot,       \* the model commitment each hotkey has on chain
  verdict,    \* admission_verdicts/<digest>.json: its status
  admitted,   \* admission_verdicts/_admitted_digests.json
  last,       \* registry/_last_admitted.json
  through, entry, removed, byDay,   \* registry/_digest_since.json
  plan, records, marked,            \* shadow/<basket>/
  charged,    \* standing/_absence_penalties.jsonl: whole baskets charged
  cancelled,  \* standing/_absence_cancellations.jsonl
  recorded,   \* days with a run record of the pipeline
  step, runDay, todo, pool,         \* the pipeline: step, day, hotkeys, models
  withheld,   \* history: <<basket, hotkey>> whose model the rule did not run
  unseen,     \* history: hotkeys that delivered on a day already folded
  commits, reruns, cuts, faults

verdicts == <<verdict, admitted>>
unchanged == <<through, entry, removed, byDay>>
shadow == <<plan, records, marked>>
penalties == <<charged, cancelled>>
history == <<withheld, unseen>>
bounds == <<commits, reruns, cuts, faults>>
poolVars == <<date, slot, verdicts, last, unchanged, shadow, penalties, recorded,
              step, runDay, todo, pool, history, bounds>>

NoPool == [h \in Hotkeys |-> NoDigest]

PoolTypeOK ==
  /\ date \in Calendar
  /\ slot \in [Hotkeys -> Digests \cup {NoDigest}]
  /\ verdict \in [Digests -> Final \cup {"none", "retry"}]
  /\ admitted \subseteq Digests
  /\ last \in [Hotkeys -> Digests \cup {NoDigest}]
  /\ through \in Calendar \cup {Never}
  /\ entry \in [Hotkeys -> Entries]
  /\ removed \in [Digests -> Calendar \cup {Never}]
  /\ byDay \in [Calendar -> SUBSET Hotkeys]
  /\ plan \in [Calendar -> SUBSET Hotkeys]
  /\ records \in [Calendar -> [Hotkeys -> [digest : Digests \cup {NoDigest}, delivered : BOOLEAN]]]
  /\ marked \subseteq Calendar /\ recorded \subseteq Calendar
  /\ charged \subseteq Calendar \X Hotkeys /\ cancelled \subseteq charged
  /\ withheld \subseteq Calendar \X Hotkeys
  /\ unseen \subseteq Hotkeys
  /\ step \in {"idle", "gate", "resolve", "run", "charge"}
  /\ runDay \in Calendar /\ todo \subseteq Hotkeys
  /\ pool \in [Hotkeys -> Digests \cup {NoDigest}]

PoolInit ==
  /\ date = 1
  /\ slot = NoPool
  /\ verdict = [d \in Digests |-> "none"] /\ admitted = {}
  /\ last = NoPool
  /\ through = Never /\ entry = [h \in Hotkeys |-> NoEntry]
  /\ removed = [d \in Digests |-> Never] /\ byDay = [d \in Calendar |-> {}]
  /\ plan = [d \in Calendar |-> {}] /\ marked = {}
  /\ records = [d \in Calendar |-> [h \in Hotkeys |-> NoRecord]]
  /\ charged = {} /\ cancelled = {} /\ recorded = {}
  /\ step = "idle" /\ runDay = 1 /\ todo = {} /\ pool = NoPool
  /\ withheld = {} /\ unseen = {}
  /\ commits = 0 /\ reruns = 0 /\ cuts = 0 /\ faults = 0

-----------------------------------------------------------------------------
(* The shadow ledger *)

DayModels(b) == {h \in Hotkeys : records[b][h] # NoRecord}
SubnetRan(b) == b \in marked \/ DayModels(b) # {}
Delivered(b, h) == records[b][h].delivered
Latest(S) == CHOOSE b \in S : \A c \in S : c <= b
Earliest(S) == CHOOSE b \in S : \A c \in S : b <= c

-----------------------------------------------------------------------------
(* Intake *)

NextDay ==
  /\ step = "idle" /\ date < LastDay
  /\ date' = date + 1
  /\ UNCHANGED <<slot, verdicts, last, unchanged, shadow, penalties, recorded,
                 step, runDay, todo, pool, history, bounds>>

\* The slot holds one commitment, the last one written.
Commit ==
  /\ step \in {"idle", "resolve"} /\ commits < MaxCommits
  /\ commits' = commits + 1
  /\ \E h \in Hotkeys, d \in Digests : slot[h] # d /\ slot' = [slot EXCEPT ![h] = d]
  /\ UNCHANGED <<date, verdicts, last, unchanged, shadow, penalties, recorded,
                 step, runDay, todo, pool, history, reruns, cuts, faults>>

\* Only a rejection settles a digest.
IsFinalVerdict_RejectedOnly(status) == status = "rejected"
IsFinalVerdict(status) == status \in Final

\* The pipeline of a day starts and reads the commitments to be gated.
StartIntake ==
  /\ step = "idle"
  /\ \E p \in 2 .. date :
       /\ IF p \in recorded THEN reruns < MaxReruns /\ reruns' = reruns + 1
          ELSE date - p < 2 /\ reruns' = reruns
       /\ runDay' = p
  /\ todo' = {h \in Hotkeys : slot[h] # NoDigest /\ ~IsFinalVerdict(verdict[slot[h]])}
  /\ step' = "gate"
  /\ UNCHANGED <<date, slot, verdicts, last, unchanged, shadow, penalties, recorded,
                 pool, history, commits, cuts, faults>>

\* Validated, pulled, verified and run against the corpus: judged either way,
\* or not judged because the image or the host failed.
GateNext ==
  /\ step = "gate" /\ todo # {}
  /\ \E h \in todo, status \in Final \cup {"retry"} :
       /\ verdict' = [verdict EXCEPT ![slot[h]] = status]
       /\ todo' = todo \ {h}
  /\ UNCHANGED <<date, slot, admitted, last, unchanged, shadow, penalties, recorded,
                 step, runDay, pool, history, bounds>>

RewriteAdmitted ==
  /\ step = "gate" /\ todo = {}
  /\ admitted' = {d \in Digests : verdict[d] = "admitted"}
  /\ step' = "resolve"
  /\ UNCHANGED <<date, slot, verdict, last, unchanged, shadow, penalties, recorded,
                 runDay, todo, pool, history, bounds>>

\* An exception ends the stage; the pipeline goes on with the file as it is.
IntakeRaises ==
  /\ step = "gate" /\ faults < MaxFaults
  /\ faults' = faults + 1
  /\ todo' = {} /\ step' = "resolve"
  /\ UNCHANGED <<date, slot, verdicts, last, unchanged, shadow, penalties, recorded,
                 runDay, pool, history, commits, reruns, cuts>>

-----------------------------------------------------------------------------
(* The models of the day *)

\* The commitments whose digest is admitted; none when the chain read fails.
Active(read) == [h \in Hotkeys |-> IF read /\ slot[h] \in admitted THEN slot[h] ELSE NoDigest]

\* The record holds only the models active today.
Remember_TodayOnly(active) == active
Remember(active) == [h \in Hotkeys |-> IF active[h] # NoDigest THEN active[h] ELSE last[h]]

\* For a hotkey whose commitment waits or was rejected: its last admitted model.
Fallbacks(read, record) ==
  [h \in Hotkeys |->
     IF /\ read /\ date >= KeepFrom
        /\ slot[h] # NoDigest /\ slot[h] \notin admitted
        /\ record[h] \in admitted
     THEN record[h] ELSE NoDigest]

FoldedDays == {b \in Calendar : b > through /\ SubnetRan(b)}

\* The count starts on the last day folded in, not where the digest began.
FoldedEntry_LastDay(h, folded) ==
  LET on == {b \in folded : Delivered(b, h)}
      digest == records[Latest(on)][h].digest
  IN IF on = {} \/ entry[h].digest = digest THEN entry[h]
     ELSE [digest |-> digest, since |-> Latest(on)]

\* The entry of h once the days of folded are in: a digest other than the last
\* one restarts the count, a day h did not deliver does not.
FoldedEntry(h, folded) ==
  LET on == {b \in folded : Delivered(b, h)}
      digest == records[Latest(on)][h].digest
      others == {b \in on : records[b][h].digest # digest}
  IN CASE on = {} -> entry[h]
       [] on # {} /\ others = {} /\ entry[h].digest = digest -> entry[h]
       [] OTHER -> [digest |-> digest,
                    since |-> Earliest({b \in on : \A c \in others : b > c})]

\* A hotkey's own digest has had its days, or the image was removed before,
\* whoever ran it.
ToRemove(models, entries) ==
  {h \in Hotkeys : /\ models[h] # NoDigest
                   /\ \/ removed[models[h]] # Never
                      \/ /\ entries[h].digest = models[h]
                         /\ date >= entries[h].since + MaxDays}

\* unchanged_models.apply: the record brought up to date and saved; what it
\* withholds.
Apply(models, out) ==
  LET folded == FoldedDays
      entries == [h \in Hotkeys |-> FoldedEntry(h, folded)]
  IN /\ out = IF date >= RemovalFrom THEN ToRemove(models, entries) ELSE {}
     /\ entry' = entries
     /\ through' = IF folded = {} THEN through ELSE Latest(folded)
     /\ removed' = [d \in Digests |->
          IF removed[d] = Never /\ \E h \in out : models[h] = d THEN date ELSE removed[d]]
     /\ byDay' = [d \in Calendar |-> CASE d = date -> IF out # {} THEN out ELSE byDay[d]
                                   [] d # date /\ d <= date - ByDayKept -> {}
                                   [] OTHER -> byDay[d]]

\* The stage resolves the models, even for a basket that has run; a basket cut
\* off is resumed without the models that have a record, and the charges of the
\* models it never reached are cancelled.
AdmittedModels ==
  /\ step = "resolve"
  /\ \E failing \in SUBSET {"read", "remember", "apply"}, out \in SUBSET Hotkeys :
       LET read == "read" \notin failing
           remembers == "remember" \notin failing
           applies == "apply" \notin failing
           active == Active(read)
           record == IF remembers THEN Remember(active) ELSE last
           kept == IF remembers THEN Fallbacks(read, record) ELSE NoPool
           models == [h \in Hotkeys |-> IF active[h] # NoDigest THEN active[h] ELSE kept[h]]
           basket == runDay - 1
           runs == {h \in Hotkeys \ out : models[h] # NoDigest}
       IN /\ faults + Cardinality(failing) <= MaxFaults
          /\ faults' = faults + Cardinality(failing)
          /\ last' = record
          /\ IF applies THEN Apply(models, out) ELSE out = {} /\ UNCHANGED unchanged
          /\ pool' = [h \in Hotkeys |-> IF h \in runs THEN models[h] ELSE NoDigest]
          /\ todo' = IF basket \in marked THEN {} ELSE runs \ DayModels(basket)
          /\ plan' = IF basket \in marked THEN plan
                     ELSE [plan EXCEPT ![basket] = @ \cup todo']
          /\ cancelled' = IF basket \in marked \/ ~SubnetRan(basket) THEN cancelled
                          ELSE cancelled \cup
                            {c \in charged : /\ c[1] = basket /\ c[2] \in plan[basket]
                                             /\ c[2] \notin DayModels(basket)}
          /\ withheld' = IF basket \in marked THEN withheld
                         ELSE withheld \cup ({basket} \X (out \ DayModels(basket)))
          /\ step' = IF basket \in marked THEN "charge" ELSE "run"
  /\ UNCHANGED <<date, slot, verdicts, records, marked, charged, recorded, runDay, unseen,
                 commits, reruns, cuts>>

RunModel ==
  /\ step = "run" /\ todo # {}
  /\ \E h \in todo, delivers \in BOOLEAN :
       /\ records' = [records EXCEPT ![runDay - 1][h] = [digest |-> pool[h], delivered |-> delivers]]
       /\ unseen' = IF delivers /\ runDay - 1 <= through THEN unseen \cup {h} ELSE unseen
       /\ todo' = todo \ {h}
  /\ UNCHANGED <<date, slot, verdicts, last, unchanged, plan, marked, penalties, recorded,
                 step, runDay, pool, withheld, bounds>>

MarkRun ==
  /\ step = "run" /\ todo = {}
  /\ marked' = marked \cup {runDay - 1}
  /\ step' = "charge"
  /\ UNCHANGED <<date, slot, verdicts, last, unchanged, plan, records, penalties, recorded,
                 runDay, todo, pool, history, bounds>>

-----------------------------------------------------------------------------
(* The absence rule, for hotkeys with no record of the basket *)

RemovedHotkeys(b) ==
  {h \in Hotkeys : \/ /\ entry[h].digest # NoDigest
                      /\ removed[entry[h].digest] \in 1 .. b
                   \/ h \in byDay[b]}

\* Who has delivered is on the board or was lately active.
Chargeable(b) == {h \in Hotkeys : \E c \in 1 .. b : Delivered(c, h)}

WholeBaskets(b) ==
  IF DayModels(b) = {} THEN {}
  ELSE {h \in Chargeable(b) \ (DayModels(b) \cup RemovedHotkeys(b)) :
          b \in marked \/ h \notin plan[b]}

ApplyPenalties ==
  /\ step = "charge"
  /\ charged' = charged \cup {c \in Calendar \X Hotkeys :
                                /\ c[1] \in (runDay - AbsenceDays + 1) .. runDay
                                /\ c[2] \in WholeBaskets(c[1])}
  /\ recorded' = recorded \cup {runDay}
  /\ step' = "idle" /\ todo' = {} /\ pool' = NoPool
  /\ UNCHANGED <<date, slot, verdicts, last, unchanged, shadow, cancelled, runDay, history, bounds>>

PipelineDies ==
  /\ step # "idle" /\ cuts < MaxCuts
  /\ cuts' = cuts + 1
  /\ step' = "idle" /\ todo' = {} /\ pool' = NoPool
  /\ UNCHANGED <<date, slot, verdicts, last, unchanged, shadow, penalties, recorded,
                 runDay, history, commits, reruns, faults>>

PoolNext ==
  \/ NextDay \/ Commit
  \/ StartIntake \/ GateNext \/ RewriteAdmitted \/ IntakeRaises
  \/ AdmittedModels \/ RunModel \/ MarkRun
  \/ ApplyPenalties \/ PipelineDies

PoolSpec == PoolInit /\ [][PoolNext]_poolVars

-----------------------------------------------------------------------------
(* Properties *)

\* An image that was admitted is never un-admitted by a later sweep, whatever
\* fails in it: it would stop running for every hotkey that committed it
\* (intake_runner.is_final_verdict, run_model_intake._rewrite_admitted).
AdmittedStays == [][admitted \subseteq admitted']_poolVars

\* The count of a hotkey's days agrees with the shadow ledger: the digest
\* delivered on the first day counted, no other digest up to the last day
\* folded in, and not the same one just before; unless the hotkey delivered on
\* a basket that had been folded in, half run, before (unchanged_models.refresh).
CountIsTrue ==
  \A h \in Hotkeys \ unseen :
    LET e == entry[h]
        on(S) == {b \in S : Delivered(b, h)}
    IN e # NoEntry =>
         /\ e.since \in on(Calendar)
         /\ \A b \in on(e.since .. through) : records[b][h].digest = e.digest
         /\ LET before == on(1 .. (e.since - 1))
            IN before # {} => records[Latest(before)][h].digest # e.digest

\* Once its model was admitted and delivered, a hotkey has a model to run on
\* every day, whatever it commits next and whatever becomes of it, unless the
\* unchanged rule withholds it or a step failed (last_admitted).
ServedWhileWaiting ==
  step = "run" /\ faults = 0 /\ date >= KeepFrom =>
    \A h \in Hotkeys :
      slot[h] # NoDigest
      /\ (\E b \in Calendar : Delivered(b, h) /\ records[b][h].digest \in admitted) =>
        pool[h] # NoDigest \/ <<runDay - 1, h>> \in withheld \/ h \in DayModels(runDay - 1)

\* "is not run from day 41: no score, no pay, no absence charge": a hotkey whose
\* model the rule did not run is not charged for that basket
\* (unchanged_models.py:4-5, absence_penalty.py:262-263).  Does not hold on the
\* day of the removal, which is dated a day after the basket (README, section 3).
RemovalIsNotCharged == (charged \ cancelled) \cap withheld = {}
=============================================================================
