---------------------------- MODULE ModelRelease ----------------------------
(***************************************************************************)
(* The model release rule and the daily step that applies it.              *)
(*                                                                         *)
(* A run day leaves a weights record, and a shadow record per hotkey for   *)
(* the day before.  The step replays the rule over all records up to its   *)
(* day, rewrites the release ledger, copies each released image that has   *)
(* no copy yet to the public repository, and publishes the list.  A copy   *)
(* or the list may fail and is tried again by the next run; the run may    *)
(* stop anywhere.  An operator can run an earlier day again, and shadow    *)
(* rows can arrive after the run that reads them.                          *)
(*                                                                         *)
(* Digests are numbers, ordered as the code orders strings.                *)
(***************************************************************************)
EXTENDS Integers, FiniteSets

CONSTANTS
  Hotkeys, Digests,
  Bare,            \* digests recorded without the repository they came from
  Records,         \* what a weights record may say
  Runs,            \* which digest each hotkey may have run on a basket day
  ReleaseAfterDaysOut, MaxEmbargoDays,
  Lookback,        \* DIGEST_LOOKBACK_DAYS
  LastRunDay, MaxRewrites, MaxMishaps   \* bounds

NoOne == "no one"
NoDigest == 0
NoDay == 0
NoReason == ""
RunDays == 1 .. LastRunDay
NoRedo == LastRunDay + 1
NotRecorded == [earning |-> {}, withheld |-> {}, champion |-> NoOne, written |-> FALSE]
Reasons == {"left_earning_set", "dethroned", "max_embargo"}

ASSUME ParamsAssumption ==
  /\ Digests \subseteq Nat \ {NoDigest}
  /\ Bare \subseteq Digests
  /\ NoOne \notin Hotkeys
  /\ ReleaseAfterDaysOut \in Nat \ {0}
  /\ MaxEmbargoDays \in Nat \ {0}
  /\ Lookback \in Nat \ {0}
ASSUME InputsAssumption ==
  /\ Records \subseteq [earning : SUBSET Hotkeys, withheld : SUBSET Hotkeys,
                        champion : Hotkeys \cup {NoOne}, written : {TRUE}]
  /\ Runs \subseteq [Hotkeys -> Digests \cup {NoDigest}]
ASSUME ReleaseBoundsAssumption ==
  LastRunDay \in Nat \ {0} /\ MaxRewrites \in Nat /\ MaxMishaps \in Nat

VARIABLES
  today,
  rec,         \* intended_weights_<day>.json
  ran,         \* shadow/<day>/<hotkey>.jsonl: the digest of its last row
  releaseLedger,  \* privacy/release_ledger.json
  mirrored,    \* privacy/mirrored.json: digests with a public copy
  list,        \* the public list: the releases it shows
  phase, runDay, todo,  \* the step: where it is, its day, copies still to try
  rewrites, mishaps,
  redone,      \* history: the first day the rule reads anew, its records or baskets
               \* written again since the ledger was; NoRedo if there is none
  recalled     \* history: digests whose release fell on such a day or later

releaseVars ==
  <<today, rec, ran, releaseLedger, mirrored, list, phase, runDay, todo, rewrites, mishaps,
    redone, recalled>>
records == <<today, rec, ran, rewrites>>
history == <<redone, recalled>>

-----------------------------------------------------------------------------
(* The rule *)

Fresh(hks, d) == [hotkeys |-> hks, since |-> d, out |-> 0, released |-> NoDay, reason |-> NoReason]
EmptyRelease == [digests |-> [g \in {} |-> 0], champion |-> NoOne, held |-> NoDigest]
Put(f, g, v) == [x \in DOMAIN f \cup {g} |-> IF x = g THEN v ELSE f[x]]

\* The digest a hotkey last ran on a basket day before d, within the lookback.
RefBefore(h, d) ==
  LET on == {n \in RunDays : n < d /\ n >= d - Lookback /\ ran[n][h] # NoDigest}
  IN IF on = {} THEN NoDigest ELSE ran[CHOOSE n \in on : \A k \in on : k <= n][h]

\* The hotkeys the day pays, each with its digest.  Those withheld by the
\* anti-copy rule are looked up under a key the record does not have, so the
\* code finds none.
DayEarning_Same(d) == {<<h, ran[d][h]>> : h \in {x \in rec[d].earning : ran[d][x] # NoDigest}}
DayEarning(d) ==
  {<<h, RefBefore(h, d)>> : h \in {x \in rec[d].earning : RefBefore(x, d) # NoDigest}}
DayWithheld(d) == {}

\* Every digest the day pays, closed or kept closed, unless it was released.
Close_Again(digests, by, d) ==
  [g \in DOMAIN digests \cup DOMAIN by |->
     IF g \in DOMAIN by THEN Fresh(by[g], d) ELSE digests[g]]
Close(digests, by, d) ==
  [g \in DOMAIN digests \cup DOMAIN by |->
     IF g \notin DOMAIN digests THEN Fresh(by[g], d)
     ELSE IF g \in DOMAIN by /\ digests[g].released = NoDay
     THEN [digests[g] EXCEPT !.hotkeys = @ \cup by[g], !.out = 0]
     ELSE digests[g]]

\* A closed digest that the day does not pay is a day further out.
CountOut(digests, by, withheld) ==
  [g \in DOMAIN digests |->
     IF digests[g].released # NoDay \/ g \in DOMAIN by \/ digests[g].hotkeys \cap withheld # {}
     THEN digests[g] ELSE [digests[g] EXCEPT !.out = @ + 1]]

\* The digest of the seat that a new champion took over today; after a day with
\* an empty seat it is still the last holder's.
Dethroned(s, champion) ==
  IF champion # NoOne /\ s.champion # NoOne /\ champion # s.champion
  THEN {s.held} \ {NoDigest} ELSE {}

\* Reasons in the published order: out of the set, dethroned, embargo.
DueReason_EarnersKept(g, digests, by, dethroned, d) ==
  IF g \in DOMAIN by THEN NoReason
  ELSE IF digests[g].out >= ReleaseAfterDaysOut THEN "left_earning_set"
  ELSE IF g \in dethroned THEN "dethroned"
  ELSE IF d >= digests[g].since + MaxEmbargoDays THEN "max_embargo"
  ELSE NoReason
DueReason(g, digests, by, dethroned, d) ==
  IF g \notin DOMAIN by /\ digests[g].out >= ReleaseAfterDaysOut THEN "left_earning_set"
  ELSE IF g \in dethroned THEN "dethroned"
  ELSE IF d >= digests[g].since + MaxEmbargoDays THEN "max_embargo"
  ELSE NoReason

ObserveDay(s, d) ==
  LET earning   == DayEarning(d)
      paid      == {e[2] : e \in earning}
      by        == [g \in paid |-> {e[1] : e \in {x \in earning : x[2] = g}}]
      champion  == rec[d].champion
      seated    == {e[2] : e \in {x \in earning : x[1] = champion}}
      seatDigest == IF seated = {} THEN NoDigest ELSE CHOOSE g \in seated : TRUE
      counted   == CountOut(Close(s.digests, by, d), by, DayWithheld(d))
      dethroned == Dethroned(s, champion)
      Due(g)    == IF counted[g].released # NoDay THEN NoReason
                   ELSE DueReason(g, counted, by, dethroned, d)
  IN [digests  |-> [g \in DOMAIN counted |->
                      IF Due(g) = NoReason THEN counted[g]
                      ELSE [counted[g] EXCEPT !.released = d, !.reason = Due(g)]],
      champion |-> IF champion = NoOne THEN s.champion ELSE champion,
      held     |-> IF champion = NoOne \/ (champion = s.champion /\ seatDigest = NoDigest)
                   THEN s.held ELSE seatDigest]

\* The rule over the records of the days up to the end; a day without a record
\* is not observed.
Replay(end) ==
  LET after[d \in 0 .. end] ==
        IF d = 0 THEN EmptyRelease
        ELSE IF rec[d].written THEN ObserveDay(after[d - 1], d) ELSE after[d - 1]
  IN after[end]

BuildLedger(end) ==
  LET digests == Replay(end).digests
      out     == {g \in DOMAIN digests : digests[g].released # NoDay}
  IN [asOf     |-> end,
      releases |-> {[digest |-> g, on |-> digests[g].released, reason |-> digests[g].reason,
                     since |-> digests[g].since] : g \in out},
      closed   |-> DOMAIN digests \ out]

-----------------------------------------------------------------------------
(* The daily step *)

NoLedger == [asOf |-> NoDay, releases |-> {}, closed |-> {}]
DigestsOf(releases) == {r.digest : r \in releases}

ReleaseInit ==
  /\ today = 1
  /\ rec = [d \in RunDays |-> NotRecorded]
  /\ ran = [d \in RunDays |-> [h \in Hotkeys |-> NoDigest]]
  /\ releaseLedger = NoLedger /\ mirrored = {} /\ list = {}
  /\ phase = "idle" /\ runDay = NoDay /\ todo = {}
  /\ rewrites = 0 /\ mishaps = 0
  /\ redone = NoRedo /\ recalled = {}

NextDay ==
  /\ phase = "idle" /\ today < LastRunDay
  /\ today' = today + 1
  /\ UNCHANGED <<rec, ran, releaseLedger, mirrored, list, phase, runDay, todo, rewrites, mishaps,
                 history>>

\* The stages before the release step: yesterday's basket is run, today's
\* weights are recorded.
RunToday ==
  /\ phase = "idle" /\ ~rec[today].written
  /\ \E r \in Records : rec' = [rec EXCEPT ![today] = r]
  /\ IF today = 1 THEN ran' = ran
     ELSE \E x \in Runs : ran' = [ran EXCEPT ![today - 1] = x]
  /\ phase' = "ledger" /\ runDay' = today
  /\ UNCHANGED <<today, releaseLedger, mirrored, list, todo, rewrites, mishaps, history>>

\* An operator runs a recorded day, or an earlier missed one, again.
RerunDay ==
  /\ phase = "idle" /\ rewrites < MaxRewrites
  /\ \E d \in 1 .. today, r \in Records :
       /\ d < today \/ rec[d].written
       /\ rec' = [rec EXCEPT ![d] = r]
       /\ phase' = "ledger" /\ runDay' = d
       /\ redone' = IF d < redone THEN d ELSE redone
  /\ rewrites' = rewrites + 1
  /\ UNCHANGED <<today, ran, releaseLedger, mirrored, list, todo, mishaps, recalled>>

\* A catch-up of an earlier basket appends rows after the runs that read it, those
\* of the days behind it.
LateShadow ==
  /\ phase = "idle" /\ rewrites < MaxRewrites
  /\ \E d \in 1 .. (today - 1), x \in Runs :
       /\ ran' = [ran EXCEPT ![d] = x]
       /\ redone' = IF d + 1 < redone THEN d + 1 ELSE redone
  /\ rewrites' = rewrites + 1
  /\ UNCHANGED <<today, rec, releaseLedger, mirrored, list, phase, runDay, todo, mishaps, recalled>>

WriteLedger ==
  /\ phase = "ledger"
  /\ releaseLedger' = BuildLedger(runDay)
  /\ todo' = DigestsOf(releaseLedger'.releases) \ mirrored
  /\ phase' = "mirror"
  /\ redone' = NoRedo
  /\ recalled' = recalled \cup DigestsOf({r \in releaseLedger.releases : r.on >= redone})
  /\ UNCHANGED <<records, mirrored, list, runDay, mishaps>>

\* Copies are tried in the order of the ledger.
NextCopy ==
  CHOOSE g \in todo : \A k \in todo :
    LET Row(x) == CHOOSE r \in releaseLedger.releases : r.digest = x
    IN Row(g).on < Row(k).on \/ (Row(g).on = Row(k).on /\ g <= k)

\* The step copies what it has not copied, closed images too.
CopyImage_Closed ==
  /\ phase = "mirror"
  /\ mirrored' = (mirrored \cup DigestsOf(releaseLedger.releases) \cup releaseLedger.closed) \ Bare
  /\ todo' = {}
  /\ UNCHANGED <<records, releaseLedger, list, phase, runDay, mishaps, history>>

\* A digest without a repository on record is passed over.
CopyImage ==
  /\ phase = "mirror" /\ todo # {}
  /\ mirrored' = IF NextCopy \in Bare THEN mirrored ELSE mirrored \cup {NextCopy}
  /\ todo' = todo \ {NextCopy}
  /\ UNCHANGED <<records, releaseLedger, list, phase, runDay, mishaps, history>>

CopyFails ==
  /\ phase = "mirror" /\ todo # {} /\ NextCopy \notin Bare
  /\ mishaps < MaxMishaps /\ mishaps' = mishaps + 1
  /\ todo' = todo \ {NextCopy}
  /\ UNCHANGED <<records, releaseLedger, mirrored, list, phase, runDay, history>>

EndStep == phase' = "idle" /\ runDay' = NoDay /\ todo' = {}

PublishReleaseList ==
  /\ phase = "mirror" /\ todo = {}
  /\ list' = {[digest |-> r.digest, on |-> r.on, copy |-> r.digest \in mirrored] :
                r \in releaseLedger.releases}
  /\ EndStep
  /\ UNCHANGED <<records, releaseLedger, mirrored, mishaps, history>>

\* The run dies, or the list cannot be written.
Stop ==
  /\ phase # "idle"
  /\ mishaps < MaxMishaps /\ mishaps' = mishaps + 1
  /\ EndStep
  /\ UNCHANGED <<records, releaseLedger, mirrored, list, history>>

ReleaseNext ==
  \/ NextDay
  \/ RunToday
  \/ RerunDay
  \/ LateShadow
  \/ WriteLedger
  \/ CopyImage
  \/ CopyFails
  \/ PublishReleaseList
  \/ Stop

ReleaseSpec == ReleaseInit /\ [][ReleaseNext]_releaseVars

-----------------------------------------------------------------------------
(* Properties *)

Releases == [digest : Digests, on : RunDays, reason : Reasons, since : RunDays]
ReleaseTypeOK ==
  /\ today \in RunDays /\ runDay \in RunDays \cup {NoDay}
  /\ rec \in [RunDays -> Records \cup {NotRecorded}]
  /\ ran \in [RunDays -> [Hotkeys -> Digests \cup {NoDigest}]]
  /\ releaseLedger.asOf \in RunDays \cup {NoDay}
  /\ releaseLedger.releases \subseteq Releases /\ releaseLedger.closed \subseteq Digests
  /\ mirrored \subseteq Digests \ Bare
  /\ list \subseteq [digest : Digests, on : RunDays, copy : BOOLEAN]
  /\ todo \subseteq DigestsOf(releaseLedger.releases)
  /\ phase \in {"idle", "ledger", "mirror"}
  /\ rewrites \in Nat /\ mishaps \in Nat
  /\ redone \in RunDays \cup {NoRedo} /\ recalled \subseteq Digests

\* Days a digest earned on, and the recorded days, as the records stand.
Recorded == {d \in RunDays : rec[d].written}
EarnedOn(g) == {d \in Recorded : \E e \in DayEarning(d) : e[2] = g}
RecordedUpTo(d) == {n \in Recorded : n <= d}

\* "A released digest never closes again": recomputed day after day, and from
\* records some of which were written again, the ledger keeps every release with
\* its day and reason, bar those of the days the rule had to read anew: a rerun or
\* a late basket reaches back no further than its own day.
\* (release_ledger.py, observe_day)
ReleaseIsFinal ==
  [][\A r \in releaseLedger.releases :
       r.on < redone => r \in releaseLedger'.releases]_releaseVars

\* No image the ledger calls closed has a public copy, whatever failed and was
\* tried again, unless its release was of such a day.  (release_step.py,
\* run_release_step)
ClosedStaysPrivate == mirrored \cap releaseLedger.closed \subseteq recalled

\* A digest released for leaving the earning set had earned, and then did not
\* earn on the last five recorded days up to its release; one released by the
\* embargo was closed that long, and one released with the seat had earned
\* under another champion.  Our missed days release nothing.
\* (release_ledger.py, module docstring)
NeverReleasedEarly ==
  phase = "mirror" =>
    \A r \in releaseLedger.releases :
      LET before == {d \in EarnedOn(r.digest) : d <= r.on}
          out    == {d \in RecordedUpTo(r.on) : \A e \in before : d > e}
      IN /\ before # {} /\ \A d \in before : r.since <= d
         /\ r.reason = "left_earning_set" => Cardinality(out) = ReleaseAfterDaysOut
         /\ r.reason = "max_embargo" => r.on - r.since >= MaxEmbargoDays
         /\ r.reason = "dethroned" => \E d \in before : rec[d].champion \notin
                                        {NoOne, rec[r.on].champion}

\* Once a different hotkey holds the seat, the digest the outgoing champion last
\* earned with in the seat is released, even across days with an empty seat.
\* (release_ledger.py, observe_day, rule 2)
DethronedReleased ==
  phase = "mirror" =>
    \A old, new \in RecordedUpTo(releaseLedger.asOf) :
      (/\ old < new
       /\ rec[old].champion \notin {NoOne, rec[new].champion}
       /\ rec[new].champion # NoOne
       /\ \A d \in RecordedUpTo(new - 1) : d > old => rec[d].champion = NoOne)
      => \A e \in DayEarning(old) :
           e[1] = rec[old].champion =>
             \E r \in releaseLedger.releases : r.digest = e[2] /\ r.on <= new

\* "A day withheld under the anti-copy rule does not count" (release_ledger.py):
\* whoever was released for leaving the set was out on five days that were not
\* withheld from it.  Does not hold: day_inputs reads a key no record has, so nobody
\* is ever withheld (README, section 3).
WithheldDaysDoNotCount ==
  phase = "mirror" =>
    \A r \in releaseLedger.releases : r.reason = "left_earning_set" =>
      LET before == {d \in EarnedOn(r.digest) : d <= r.on}
          earners == {h \in Hotkeys : \E d \in before : <<h, r.digest>> \in DayEarning(d)}
      IN Cardinality({d \in RecordedUpTo(r.on) : /\ \A e \in before : d > e
                                                 /\ rec[d].withheld \cap earners = {}})
           >= ReleaseAfterDaysOut
=============================================================================
