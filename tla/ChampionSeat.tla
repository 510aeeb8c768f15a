---------------------------- MODULE ChampionSeat ----------------------------
(***************************************************************************)
(* The champion's seat: the promotion rule and the daily allocation that   *)
(* feeds and persists it.                                                  *)
(*                                                                         *)
(* A run for a day loads the promotion state, empties the seat when its    *)
(* holder is shut out (evicted, or removed for an unchanged model),        *)
(* observes the day's placements, saves the state, appends the event to    *)
(* the promotion log and writes the day's intended weights.  These are     *)
(* four writes; the run may die between any two, and an exception in the   *)
(* computation ends the step after the vacate event was logged.  The run   *)
(* of a day may be repeated and the operator runs past days by hand.       *)
(*                                                                         *)
(* Hotkeys are positive numbers, ordered as the code orders strings.       *)
(***************************************************************************)
EXTENDS Integers, FiniteSets

CONSTANTS
  Hotkeys,
  MaxStanding,     \* standings are 0 .. MaxStanding
  MarginAbs,       \* PromotionParams.margin_abs, or NoMargin
  MarginPercent,   \* PromotionParams.margin, in percent
  HoldDays,        \* PromotionParams.hold_days
  ShutOuts,        \* sets of hotkeys that may be shut out on a day
  RipeSets,        \* sets of hotkeys that may have the scored days of history
  MaxDay,          \* bound: the last calendar day
  MaxReruns,       \* bound: runs of a day that has run, or of a past one
  MaxStops         \* bound: deaths of a run and exceptions in it

NoOne == 0
NoDay == 0
NoMargin == -1
EmptyBoard == -1      \* in led: on some run of the day nobody was placed
Days == 1 .. MaxDay

ASSUME HotkeysAssumption == Hotkeys \subseteq Nat \ {NoOne}
ASSUME RuleAssumption ==
  /\ MaxStanding \in Nat
  /\ MarginAbs \in Nat \cup {NoMargin}
  /\ MarginPercent \in Nat
  /\ HoldDays \in Nat \ {0}
ASSUME BoundsAssumption ==
  /\ MaxDay \in Nat \ {0}
  /\ MaxReruns \in Nat
  /\ MaxStops \in Nat
ASSUME InputsAssumption ==
  /\ ShutOuts \subseteq SUBSET Hotkeys
  /\ RipeSets \subseteq SUBSET Hotkeys

VARIABLES
  today,
  seat,      \* standing/_promotion.json
  logged,    \* whom the last line of _promotion_log.jsonl leaves in the seat
  intended,  \* the last intended_weights_<day>.json: day, champion, shut out
  led,       \* history: who led each day when it was last observed
  phase, runDay, out, mem,  \* the run: its next write, day, exclusions, state
  reruns, stops

vars == <<today, seat, logged, intended, led, phase, runDay, out, mem,
          reruns, stops>>
budget == <<reruns, stops>>

-----------------------------------------------------------------------------
(* The promotion rule *)

Seats == [champion : Hotkeys \cup {NoOne}, challenger : Hotkeys \cup {NoOne},
          since : Days \cup {NoDay}, last : Days \cup {NoDay}, vacated : BOOLEAN]

\* A seat taken on day d: no streak, no trace of a vacancy.
SeatOf(m, d) == [champion |-> m, challenger |-> NoOne, since |-> NoDay,
                 last |-> d, vacated |-> FALSE]

EmptySeat == SeatOf(NoOne, NoDay)

\* Standing descending, hotkey ascending.
Best(board, among) ==
  CHOOSE m \in among : \A n \in among :
    board[m] > board[n] \/ (board[m] = board[n] /\ m <= n)

VacateSeat(s) ==
  IF s.champion = NoOne THEN s
  ELSE [SeatOf(NoOne, s.last) EXCEPT !.vacated = TRUE]

ClearsMargin(standing, champion) ==
  IF MarginAbs # NoMargin THEN standing >= champion + MarginAbs
  ELSE 100 * standing >= champion * (100 + MarginPercent)

\* The challenger of the day: best of those past the margin, or of everybody
\* when the champion holds no standing.
Leader(champion, board) ==
  LET placed == DOMAIN board
      qualified == {m \in placed \ {champion} :
                      champion \in placed => ClearsMargin(board[m], board[champion])}
  IN IF qualified = {} THEN NoOne ELSE Best(board, qualified)

\* A streak that survives a missed day.
LeadSince_Gaps(s, d, leader) == IF s.challenger = leader THEN s.since ELSE d
LeadSince(s, d, leader) ==
  IF s.challenger = leader /\ s.last # NoDay /\ d \in {s.last, s.last + 1}
  THEN s.since ELSE d

\* ripe: the hotkeys with min_scored_days of scored history.
ObserveDay(s, d, board, ripe) ==
  LET kept   == [s EXCEPT !.last = d]
      leader == Leader(s.champion, board)
      since  == LeadSince(s, d, leader)
      seatable == DOMAIN board \cap ripe
  IN CASE DOMAIN board = {} -> kept
       [] DOMAIN board # {} /\ s.champion = NoOne ->
            IF seatable = {} THEN kept ELSE SeatOf(Best(board, seatable), d)
       [] DOMAIN board # {} /\ s.champion # NoOne /\ leader = NoOne ->
            [kept EXCEPT !.challenger = NoOne, !.since = NoDay]
       [] OTHER ->
            IF d - since + 1 >= HoldDays /\ leader \in ripe
            THEN SeatOf(leader, d)
            ELSE [kept EXCEPT !.challenger = leader, !.since = since]

-----------------------------------------------------------------------------
(* The allocation step of the daily loop *)

NoRecord == [day |-> NoDay, champion |-> NoOne, out |-> {}]

Init ==
  /\ today = 1
  /\ seat = EmptySeat
  /\ logged = NoOne
  /\ intended = NoRecord
  /\ led = [d \in Days |-> NoOne]
  /\ phase = "idle" /\ runDay = NoDay /\ out = {} /\ mem = EmptySeat
  /\ reruns = 0 /\ stops = 0

NextDay ==
  /\ phase = "idle" /\ today < MaxDay
  /\ today' = today + 1
  /\ UNCHANGED <<seat, logged, intended, led, phase, runDay, out, mem, budget>>

\* A holder who is shut out keeps the seat.
Vacated_Never(s, shut) == s
Vacated(s, shut) == IF s.champion \in shut THEN VacateSeat(s) ELSE s

\* The state is loaded and the seat emptied if its holder is shut out; that
\* event is logged at once.  Eviction states and removed models are read here,
\* as they are on disk whatever the day of the run.
StartAllocation ==
  /\ phase = "idle"
  /\ \E d \in 1 .. today, shut \in ShutOuts :
       /\ IF d > intended.day /\ d = today THEN reruns' = reruns
          ELSE reruns < MaxReruns /\ reruns' = reruns + 1
       /\ runDay' = d /\ out' = shut
       /\ mem' = Vacated(seat, shut)
       /\ logged' = IF mem' # seat THEN NoOne ELSE logged
  /\ phase' = "save"
  /\ UNCHANGED <<today, seat, intended, led, stops>>

\* The day's placements: any board without those shut out, whatever the gates
\* before promotion left of it.
Boards == UNION {[placed -> 0 .. MaxStanding] : placed \in SUBSET (Hotkeys \ out)}

SavePromotionState ==
  /\ phase = "save"
  /\ \E board \in Boards, ripe \in RipeSets :
       /\ mem' = ObserveDay(mem, runDay, board, ripe)
       /\ led' = [led EXCEPT ![runDay] =
                    IF DOMAIN board = {} \/ @ = EmptyBoard THEN EmptyBoard
                    ELSE Leader(mem.champion, board)]
  /\ seat' = mem'
  /\ phase' = IF mem'.champion # mem.champion THEN "event" ELSE "intended"
  /\ UNCHANGED <<today, logged, intended, runDay, out, budget>>

AppendPromotionEvent ==
  /\ phase = "event"
  /\ logged' = mem.champion
  /\ phase' = "intended"
  /\ UNCHANGED <<today, seat, intended, led, runDay, out, mem, budget>>

EndRun ==
  /\ phase' = "idle" /\ runDay' = NoDay /\ out' = {} /\ mem' = EmptySeat

WriteIntendedWeights ==
  /\ phase = "intended"
  /\ intended' = [day |-> runDay, champion |-> mem.champion, out |-> out]
  /\ EndRun
  /\ UNCHANGED <<today, seat, logged, led, budget>>

\* The run dies, or the computation of the allocation raises: the loop goes on
\* without the step.
Stop ==
  /\ phase # "idle" /\ stops < MaxStops
  /\ stops' = stops + 1
  /\ EndRun
  /\ UNCHANGED <<today, seat, logged, intended, led, reruns>>

Next ==
  \/ NextDay
  \/ StartAllocation
  \/ SavePromotionState
  \/ AppendPromotionEvent
  \/ WriteIntendedWeights
  \/ Stop

Spec == Init /\ [][Next]_vars

-----------------------------------------------------------------------------
(* Properties *)

\* The state's shape, and that a streak is one of consecutive days: it began
\* no later than the last observation and names a challenger who is not the
\* champion.  (champion_promotion.py, PromotionState)
StreakOK(s) ==
  /\ s \in Seats
  /\ s.challenger = NoOne <=> s.since = NoDay
  /\ s.challenger # NoOne => s.champion \notin {NoOne, s.challenger}
TypeOK ==
  /\ StreakOK(seat) /\ StreakOK(mem)
  /\ today \in Days /\ runDay \in Days \cup {NoDay}
  /\ logged \in Hotkeys \cup {NoOne}
  /\ out \in SUBSET Hotkeys
  /\ intended \in [day : Days \cup {NoDay}, champion : Hotkeys \cup {NoOne},
                   out : SUBSET Hotkeys]
  /\ led \in [Days -> Hotkeys \cup {NoOne, EmptyBoard}]
  /\ phase \in {"idle", "save", "event", "intended"}
  /\ phase = "idle" <=> runDay = NoDay
  /\ reruns \in Nat /\ stops \in Nat

Hold(d) == {n \in Days : n > d - HoldDays /\ n <= d}
LedThrough(m, d, by) == d >= HoldDays /\ \A n \in Hold(d) : by[n] = m
Unseated == /\ seat.champion # NoOne
            /\ seat.champion \notin out
            /\ seat'.champion # seat.champion

\* The published rule: a champion who is not shut out loses the seat only to a
\* challenger who led on every day of the hold, whatever days were missed,
\* repeated or run late in between, as long as no day of the hold was observed
\* with an empty board.  (champion_promotion.py, observe_day)
SeatNeedsTheHold ==
  [][ Unseated /\ (\A n \in Hold(runDay) : led'[n] # EmptyBoard)
      => LedThrough(seat'.champion, runDay, led') ]_vars

\* Nobody the day's run shut out is the champion of the day's record, which the
\* release of models and the reports read.  (daily_stream_weights.py, vacate)
ShutOutNeverReigns ==
  intended.champion \notin intended.out

\* Without a stop between two writes the promotion log tells who holds the
\* seat.  (standing_ledger.py, append_promotion_event)
LogTellsTheSeat ==
  phase = "idle" /\ stops = 0 => seat.champion = logged
=============================================================================
