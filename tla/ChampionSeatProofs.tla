-------------------------- MODULE ChampionSeatProofs --------------------------
(***************************************************************************)
(* The champion's seat for any hotkeys, margins, hold, reruns and stops.   *)
(* Everything rests on one property of a streak: on each of its days the   *)
(* challenger led, or some later day of it was observed with an empty      *)
(* board (`Streak').  A rerun, a missed day or a day run late either ends  *)
(* the streak or keeps this.                                               *)
(***************************************************************************)
EXTENDS ChampionSeat, WellFoundedInduction, TLAPS

-----------------------------------------------------------------------------
(* The best of a set *)

\* A nonempty set of naturals has a smallest element.
LEMMA LeastExists ==
  ASSUME NEW S, S \subseteq Nat, S # {}
  PROVE  \E m \in S : \A n \in S : m <= n
<1>1. PICK m \in S : \A n \in S : <<n, m>> \notin OpToRel(<, Nat)
  BY WFMin, NatLessThanWellFounded, Zenon
<1>2. \A n \in S : <<n, m>> \in Nat \X Nat
  OBVIOUS
<1>3. \A n \in S : ~ (n < m)
  BY <1>1, <1>2, Zenon DEF OpToRel
<1> QED
  BY <1>3

\* A bounded nonempty set of naturals has a largest element.
LEMMA GreatestExists ==
  ASSUME NEW S, S \subseteq Nat, S # {}, NEW b \in Nat, \A n \in S : n <= b
  PROVE  \E m \in S : \A n \in S : n <= m
<1> DEFINE T == {b - n : n \in S}
<1>0. \A n \in S : n \in Nat /\ b - n \in Nat
  OBVIOUS
<1>1. T \subseteq Nat /\ T # {}
  BY <1>0
<1>2. PICK t \in T : \A u \in T : t <= u
  BY <1>1, LeastExists, Zenon
<1>3. PICK m \in S : t = b - m
  OBVIOUS
<1>4. \A n \in S : b - m <= b - n
  BY <1>2, <1>3
<1> QED
  BY <1>0, <1>4

\* The choice of a challenger, or of who takes an empty seat, is one of those
\* it is made among.
LEMMA BestIsOne ==
  ASSUME NEW placed \in SUBSET Hotkeys, NEW board \in [placed -> 0 .. MaxStanding],
         NEW among \in SUBSET placed, among # {}
  PROVE  Best(board, among) \in among
<1> DEFINE S == {board[m] : m \in among}
<1>1. S \subseteq Nat /\ S # {} /\ (\A s \in S : s <= MaxStanding) /\ MaxStanding \in Nat
  BY RuleAssumption
<1>2. PICK s \in S : \A t \in S : t <= s
  BY <1>1, GreatestExists, Zenon
<1> DEFINE U == {m \in among : board[m] = s}
<1>3. U \subseteq Nat /\ U # {}
  BY HotkeysAssumption
<1>4. PICK u \in U : \A m \in U : u <= m
  BY <1>3, LeastExists, Zenon
<1>5. u \in among /\ \A n \in among : board[u] > board[n] \/ (board[u] = board[n] /\ u <= n)
  <2> SUFFICES ASSUME NEW n \in among
               PROVE  board[u] > board[n] \/ (board[u] = board[n] /\ u <= n)
    OBVIOUS
  <2>1. board[n] <= board[u] /\ board[n] \in Nat /\ board[u] \in Nat
    BY <1>1, <1>2
  <2>2. CASE board[n] = board[u]
    BY <1>4, <2>2
  <2> QED
    BY <2>1, <2>2
<1>6. \E x \in among : \A n \in among : board[x] > board[n] \/ (board[x] = board[n] /\ x <= n)
  BY <1>5
<1> QED
  BY <1>6, Zenon DEF Best

LEMMA LeaderIsPlaced ==
  ASSUME NEW placed \in SUBSET Hotkeys, NEW board \in [placed -> 0 .. MaxStanding],
         NEW champion
  PROVE  Leader(champion, board) \in (placed \ {champion}) \cup {NoOne}
<1> DEFINE qualified == {m \in placed \ {champion} :
                           champion \in placed => ClearsMargin(board[m], board[champion])}
<1>1. DOMAIN board = placed
  OBVIOUS
<1>2. Leader(champion, board) = IF qualified = {} THEN NoOne ELSE Best(board, qualified)
  BY <1>1, Zenon DEF Leader
<1>3. qualified # {} => Best(board, qualified) \in qualified
  <2>1. qualified \in SUBSET placed
    OBVIOUS
  <2> QED
    BY <2>1, BestIsOne, Zenon
<1> QED
  BY <1>2, <1>3

-----------------------------------------------------------------------------
(* One observation of a day *)

LEMMA Shapes ==
  /\ NoOne \notin Hotkeys
  /\ NoDay \notin Days
  /\ Days \subseteq Nat \ {0}
  /\ Hotkeys \subseteq Nat
BY HotkeysAssumption, BoundsAssumption DEF NoOne, NoDay, Days

LEMMA FreshSeatOK ==
  ASSUME NEW m \in Hotkeys \cup {NoOne}, NEW d \in Days \cup {NoDay}
  PROVE  StreakOK(SeatOf(m, d)) /\ SeatOf(m, d).challenger = NoOne
                                /\ SeatOf(m, d).champion = m
BY DEF StreakOK, Seats, SeatOf

LEMMA VacatedOK ==
  ASSUME NEW s, StreakOK(s), NEW shut \in SUBSET Hotkeys
  PROVE  /\ StreakOK(Vacated(s, shut))
         /\ Vacated(s, shut).champion \notin shut
         /\ Vacated(s, shut) = s \/ (s.champion \in shut /\ Vacated(s, shut).champion = NoOne
                                      /\ Vacated(s, shut).challenger = NoOne)
         /\ Vacated(s, shut).champion # NoOne => Vacated(s, shut) = s
<1>1. CASE s.champion \in shut
  <2>1. s.champion # NoOne /\ s.last \in Days \cup {NoDay}
    BY <1>1, Shapes DEF StreakOK, Seats
  <2>2. Vacated(s, shut) = [champion |-> NoOne, challenger |-> NoOne, since |-> NoDay,
                            last |-> s.last, vacated |-> TRUE]
    BY <1>1, <2>1 DEF Vacated, VacateSeat, SeatOf
  <2>3. StreakOK(Vacated(s, shut))
    BY <2>1, <2>2 DEF StreakOK, Seats
  <2>4. Vacated(s, shut).champion = NoOne /\ Vacated(s, shut).challenger = NoOne
    BY <2>2
  <2>5. NoOne \notin shut
    BY Shapes
  <2> QED
    BY <1>1, <2>3, <2>4, <2>5
<1>2. CASE s.champion \notin shut
  BY <1>2 DEF Vacated
<1> QED
  BY <1>1, <1>2

\* A streak is backed by the days as they were observed.
BackedBy(challenger, since, last, by) ==
  \A n \in since .. last :
    by[n] = challenger \/ \E k \in n .. last : by[k] = EmptyBoard
Streak(s, by) == s.challenger # NoOne => BackedBy(s.challenger, s.since, s.last, by)

Boarded == [Days -> Hotkeys \cup {NoOne, EmptyBoard}]

\* How a day's observation is entered in the history.
Entered(by, d, champion, board) ==
  [by EXCEPT ![d] = IF DOMAIN board = {} \/ @ = EmptyBoard THEN EmptyBoard
                    ELSE Leader(champion, board)]

LEMMA EnteredType ==
  ASSUME NEW by \in Boarded, NEW d \in Days, NEW placed \in SUBSET Hotkeys,
         NEW board \in [placed -> 0 .. MaxStanding], NEW champion
  PROVE  /\ Entered(by, d, champion, board) \in Boarded
         /\ \A n \in Days \ {d} : Entered(by, d, champion, board)[n] = by[n]
         /\ by[d] = EmptyBoard \/ placed = {}
              => Entered(by, d, champion, board)[d] = EmptyBoard
         /\ Entered(by, d, champion, board)[d] = EmptyBoard
              \/ Entered(by, d, champion, board)[d] = Leader(champion, board)
<1>1. Leader(champion, board) \in Hotkeys \cup {NoOne} /\ DOMAIN board = placed
  BY LeaderIsPlaced
<1> QED
  BY <1>1 DEF Entered, Boarded

\* The days behind the day's leader, whether the streak goes on or starts.
LEMMA LeadIsBacked ==
  ASSUME NEW s, StreakOK(s), NEW by \in Boarded, Streak(s, by), NEW d \in Days,
         NEW placed \in SUBSET Hotkeys, NEW board \in [placed -> 0 .. MaxStanding],
         Leader(s.champion, board) # NoOne
  PROVE  /\ LeadSince(s, d, Leader(s.champion, board)) \in Days
         /\ BackedBy(Leader(s.champion, board), LeadSince(s, d, Leader(s.champion, board)), d,
                     Entered(by, d, s.champion, board))
<1> DEFINE leader == Leader(s.champion, board)
           since == LeadSince(s, d, leader)
           by2 == Entered(by, d, s.champion, board)
<1>1. /\ by2 \in Boarded
      /\ \A n \in Days \ {d} : by2[n] = by[n]
      /\ by[d] = EmptyBoard => by2[d] = EmptyBoard
      /\ by2[d] = EmptyBoard \/ by2[d] = leader
  BY EnteredType
<1> HIDE DEF by2, leader
<1>2. CASE s.challenger = leader /\ s.last # NoDay /\ d \in {s.last, s.last + 1}
  <2>1. since = s.since /\ s.since \in Days /\ s.last \in Days
    BY <1>2, Shapes DEF LeadSince, StreakOK, Seats, leader
  <2>2. BackedBy(leader, s.since, s.last, by)
    BY <1>2 DEF Streak, leader
  <2>3. ASSUME NEW n \in s.since .. d
        PROVE  by2[n] = leader \/ \E k \in n .. d : by2[k] = EmptyBoard
    <3>1. CASE n = d
      BY <1>1, <3>1, Shapes
    <3>2. CASE n # d
      <4>1. n \in s.since .. s.last /\ n \in Days
        BY <1>2, <2>1, <3>2, BoundsAssumption DEF Days
      <4>2. CASE by[n] = leader
        BY <1>1, <3>2, <4>1, <4>2
      <4>3. CASE \E k \in n .. s.last : by[k] = EmptyBoard
        <5>1. PICK k \in n .. s.last : by[k] = EmptyBoard
          BY <4>3
        <5>2. k \in n .. d /\ k \in Days
          BY <1>2, <2>1, <4>1, BoundsAssumption DEF Days
        <5>3. by2[k] = EmptyBoard
          BY <1>1, <5>1, <5>2
        <5> QED
          BY <5>2, <5>3
      <4> QED
        BY <2>2, <4>1, <4>2, <4>3 DEF BackedBy
    <3> QED
      BY <3>1, <3>2
  <2>4. BackedBy(leader, since, d, by2)
    BY <2>1, <2>3 DEF BackedBy
  <2> QED
    BY <2>1, <2>4 DEF leader, by2
<1>3. CASE ~ (s.challenger = leader /\ s.last # NoDay /\ d \in {s.last, s.last + 1})
  <2>1. since = d
    BY <1>3 DEF LeadSince
  <2>2. \A n \in d .. d : n = d
    BY Shapes
  <2>3. d \in d .. d
    BY Shapes
  <2>4. BackedBy(leader, d, d, by2)
    BY <1>1, <2>2, <2>3 DEF BackedBy
  <2> QED
    BY <2>1, <2>4 DEF leader, by2
<1> QED
  BY <1>2, <1>3

\* What one observation makes of a state: its shape, the backing of the streak,
\* and who may hold the seat afterwards.
LEMMA ObserveDayStep ==
  ASSUME NEW s, StreakOK(s), NEW by \in Boarded, Streak(s, by), NEW d \in Days,
         NEW placed \in SUBSET Hotkeys, NEW board \in [placed -> 0 .. MaxStanding],
         NEW ripe \in SUBSET Hotkeys
  PROVE  LET t == ObserveDay(s, d, board, ripe)
             by2 == Entered(by, d, s.champion, board)
         IN /\ StreakOK(t)
            /\ Streak(t, by2)
            /\ t.champion \in placed \cup {s.champion}
            /\ t.champion # s.champion /\ s.champion # NoOne
                 => \E since \in Days : /\ d - since + 1 >= HoldDays
                                        /\ BackedBy(t.champion, since, d, by2)
<1> DEFINE t == ObserveDay(s, d, board, ripe)
           by2 == Entered(by, d, s.champion, board)
           leader == Leader(s.champion, board)
           since == LeadSince(s, d, leader)
           kept == [s EXCEPT !.last = d]
           seatable == placed \cap ripe
<1>0. DOMAIN board = placed
  OBVIOUS
<1>1. /\ kept.champion = s.champion /\ kept.challenger = s.challenger
      /\ kept.since = s.since /\ kept.last = d /\ StreakOK(kept)
  BY DEF StreakOK, Seats
<1>2. CASE placed = {}
  <2>1. t = kept
    BY <1>0, <1>2 DEF ObserveDay
  <2>2. by2[d] = EmptyBoard
    BY <1>0, <1>2 DEF Entered, Boarded
  <2>3. s.challenger # NoOne => s.since \in Days
    BY DEF StreakOK, Seats
  <2>4. Streak(kept, by2)
    <3> SUFFICES ASSUME s.challenger # NoOne, NEW n \in s.since .. d
                 PROVE  \E k \in n .. d : by2[k] = EmptyBoard
      BY <1>1 DEF Streak, BackedBy
    <3>1. d \in n .. d
      BY <2>3, Shapes
    <3> QED
      BY <2>2, <3>1
  <2> QED
    BY <1>1, <2>1, <2>4
<1>3. CASE placed # {} /\ s.champion = NoOne
  <2>1. t = IF seatable = {} THEN kept ELSE SeatOf(Best(board, seatable), d)
    BY <1>0, <1>3 DEF ObserveDay
  <2>2. CASE seatable = {}
    <3>1. t = kept /\ t.challenger = NoOne
      BY <1>1, <1>3, <2>1, <2>2 DEF StreakOK
    <3> QED
      BY <1>1, <3>1 DEF Streak
  <2>3. CASE seatable # {}
    <3>1. Best(board, seatable) \in seatable
      BY <2>3, BestIsOne
    <3>2. t = SeatOf(Best(board, seatable), d)
      BY <2>1, <2>3
    <3>3. Best(board, seatable) \in Hotkeys \cup {NoOne}
      BY <3>1
    <3>4. StreakOK(t) /\ t.challenger = NoOne /\ t.champion = Best(board, seatable)
      BY <3>2, <3>3, FreshSeatOK
    <3> QED
      BY <1>3, <3>1, <3>4 DEF Streak
  <2> QED
    BY <2>2, <2>3
<1>4. CASE placed # {} /\ s.champion # NoOne /\ leader = NoOne
  <2>1. t = [kept EXCEPT !.challenger = NoOne, !.since = NoDay]
    BY <1>0, <1>4 DEF ObserveDay
  <2>2. t.champion = s.champion /\ t.challenger = NoOne /\ StreakOK(t)
    BY <1>1, <2>1 DEF StreakOK, Seats
  <2> QED
    BY <2>2 DEF Streak
<1>5. CASE placed # {} /\ s.champion # NoOne /\ leader # NoOne
  <2>1. since \in Days /\ BackedBy(leader, since, d, by2)
    BY <1>5, LeadIsBacked
  <2>2. leader \in placed \ {s.champion} /\ leader \in Hotkeys
    BY <1>5, LeaderIsPlaced
  <2>3. t = IF d - since + 1 >= HoldDays /\ leader \in ripe THEN SeatOf(leader, d)
            ELSE [kept EXCEPT !.challenger = leader, !.since = since]
    BY <1>0, <1>5 DEF ObserveDay
  <2> HIDE DEF leader, since, by2
  <2>4. CASE d - since + 1 >= HoldDays /\ leader \in ripe
    <3>1. t = SeatOf(leader, d)
      BY <2>3, <2>4
    <3>2. StreakOK(t) /\ t.challenger = NoOne /\ t.champion = leader
      BY <2>2, <3>1, FreshSeatOK
    <3> QED
      BY <2>1, <2>2, <2>4, <3>2 DEF Streak, by2
  <2>5. CASE ~ (d - since + 1 >= HoldDays /\ leader \in ripe)
    <3>1. t = [kept EXCEPT !.challenger = leader, !.since = since]
      BY <2>3, <2>5
    <3>2. /\ t.champion = s.champion /\ t.challenger = leader
          /\ t.since = since /\ t.last = d
      BY <1>1, <3>1 DEF StreakOK, Seats
    <3>3. StreakOK(t)
      BY <1>1, <1>5, <2>1, <2>2, <3>1, <3>2, Shapes DEF StreakOK, Seats
    <3>4. Streak(t, by2)
      BY <2>1, <3>2 DEF Streak
    <3> QED
      BY <3>2, <3>3, <3>4 DEF by2
  <2> QED
    BY <2>4, <2>5
<1> QED
  BY <1>2, <1>3, <1>4, <1>5

-----------------------------------------------------------------------------
(* The invariant of the specification *)

\* Between loading the state and writing the day's record nobody shut out is
\* the champion in memory, which is what is stored once the state is saved.
RunOK ==
  /\ phase = "save" => mem = Vacated(seat, out)
  /\ phase \in {"event", "intended"} => mem = seat
  /\ phase # "idle" => mem.champion \notin out

\* What the log tells, write by write, while no run has stopped half way.
LogOK ==
  stops = 0 =>
    /\ phase = "idle" => logged = seat.champion
    /\ phase \in {"save", "intended"} => logged = mem.champion

Inv == TypeOK /\ ShutOutNeverReigns /\ Streak(seat, led) /\ RunOK /\ LogOK

LEMMA InitInv == Init => Inv
<1> SUFFICES ASSUME Init PROVE Inv
  OBVIOUS
<1>1. StreakOK(EmptySeat) /\ EmptySeat.challenger = NoOne /\ EmptySeat.champion = NoOne
  BY FreshSeatOK DEF EmptySeat
<1>2. TypeOK
  BY <1>1, BoundsAssumption DEF Init, TypeOK, NoRecord, Days
<1>3. ShutOutNeverReigns /\ RunOK /\ LogOK
  BY <1>1 DEF Init, NoRecord, ShutOutNeverReigns, RunOK, LogOK
<1>4. Streak(seat, led)
  BY <1>1 DEF Init, Streak
<1> QED
  BY <1>2, <1>3, <1>4 DEF Inv

\* The run ends or dies: nothing stored changes but the day's record.
LEMMA EndRunOK ==
  ASSUME Inv, EndRun
  PROVE  /\ StreakOK(mem') /\ runDay' \in Days \cup {NoDay} /\ out' \in SUBSET Hotkeys
         /\ phase' = "idle" /\ runDay' = NoDay /\ RunOK'
<1>1. StreakOK(EmptySeat)
  BY FreshSeatOK DEF EmptySeat
<1> QED
  BY <1>1 DEF EndRun, RunOK

LEMMA StepInv == Inv /\ [Next]_vars => Inv'
<1> SUFFICES ASSUME Inv, [Next]_vars PROVE Inv'
  OBVIOUS
<1> USE DEF Inv
<1>1. CASE NextDay
  <2>1. TypeOK'
    BY <1>1, BoundsAssumption DEF NextDay, TypeOK, Days, budget
  <2> QED
    BY <1>1, <2>1 DEF NextDay, ShutOutNeverReigns, RunOK, LogOK, budget
<1>2. CASE StartAllocation
  <2>1. PICK d \in 1 .. today, shut \in ShutOuts :
          /\ reruns' = reruns \/ reruns' = reruns + 1
          /\ runDay' = d /\ out' = shut
          /\ mem' = Vacated(seat, shut)
          /\ logged' = IF mem' # seat THEN NoOne ELSE logged
    BY <1>2 DEF StartAllocation
  <2>2. /\ phase = "idle" /\ phase' = "save"
        /\ UNCHANGED <<today, seat, intended, led, stops>>
    BY <1>2 DEF StartAllocation
  <2>3. shut \in SUBSET Hotkeys /\ d \in Days /\ d # NoDay
    BY InputsAssumption, BoundsAssumption DEF TypeOK, Days, NoDay
  <2>4. /\ StreakOK(mem') /\ mem'.champion \notin shut
        /\ mem' = seat \/ mem'.champion = NoOne
    BY <2>1, <2>3, VacatedOK DEF TypeOK
  <2>5. TypeOK'
    BY <2>1, <2>2, <2>3, <2>4 DEF TypeOK
  <2>6. RunOK'
    BY <2>1, <2>2, <2>4 DEF RunOK
  <2>7. LogOK'
    BY <2>1, <2>2, <2>4 DEF LogOK
  <2> QED
    BY <2>2, <2>5, <2>6, <2>7 DEF ShutOutNeverReigns
<1>3. CASE SavePromotionState
  <2>1. PICK board \in Boards, ripe \in RipeSets :
          /\ mem' = ObserveDay(mem, runDay, board, ripe)
          /\ led' = Entered(led, runDay, mem.champion, board)
    BY <1>3, Zenon DEF SavePromotionState, Entered
  <2>2. /\ phase = "save" /\ seat' = mem'
        /\ phase' = IF mem'.champion # mem.champion THEN "event" ELSE "intended"
        /\ UNCHANGED <<today, logged, intended, runDay, out, reruns, stops>>
    BY <1>3 DEF SavePromotionState, budget
  <2>3. PICK placed \in SUBSET (Hotkeys \ out) : board \in [placed -> 0 .. MaxStanding]
    BY DEF Boards
  <2>4. runDay \in Days /\ ripe \in SUBSET Hotkeys /\ led \in Boarded /\ StreakOK(mem)
    BY <2>2, InputsAssumption DEF TypeOK, Boarded
  <2>5. Streak(mem, led)
    <3>1. mem = seat \/ mem.challenger = NoOne
      BY <2>2, VacatedOK DEF TypeOK, RunOK
    <3> QED
      BY <3>1 DEF Streak
  <2>6. placed \in SUBSET Hotkeys
    OBVIOUS
  <2>7. /\ StreakOK(mem') /\ Streak(mem', led')
        /\ mem'.champion \in placed \cup {mem.champion}
    BY <2>1, <2>3, <2>4, <2>5, <2>6, ObserveDayStep, Zenon
  <2>8. led' \in Boarded
    BY <2>1, <2>3, <2>4, <2>6, EnteredType, Zenon
  <2>9. TypeOK'
    BY <2>2, <2>4, <2>7, <2>8 DEF TypeOK, Boarded
  <2>10. RunOK'
    BY <2>2, <2>3, <2>7 DEF RunOK
  <2>11. LogOK'
    BY <2>2 DEF LogOK
  <2> QED
    BY <2>2, <2>7, <2>9, <2>10, <2>11 DEF ShutOutNeverReigns
<1>4. CASE AppendPromotionEvent
  <2>1. logged' \in Hotkeys \cup {NoOne}
    BY <1>4 DEF AppendPromotionEvent, TypeOK, StreakOK, Seats
  <2>2. TypeOK'
    BY <1>4, <2>1 DEF AppendPromotionEvent, TypeOK, budget
  <2> QED
    BY <1>4, <2>2 DEF AppendPromotionEvent, ShutOutNeverReigns, RunOK, LogOK, budget
<1>5. CASE WriteIntendedWeights
  <2>1. EndRun
    BY <1>5 DEF WriteIntendedWeights
  <2>2. intended' = [day |-> runDay, champion |-> mem.champion, out |-> out]
    BY <1>5 DEF WriteIntendedWeights
  <2>3. mem.champion \in Hotkeys \cup {NoOne}
    BY DEF TypeOK, StreakOK, Seats
  <2>4. TypeOK'
    BY <1>5, <2>1, <2>2, <2>3, EndRunOK DEF WriteIntendedWeights, TypeOK, budget
  <2>5. ShutOutNeverReigns'
    BY <1>5, <2>2 DEF WriteIntendedWeights, ShutOutNeverReigns, RunOK
  <2>6. LogOK'
    BY <1>5, <2>1, EndRunOK DEF WriteIntendedWeights, LogOK, RunOK, budget
  <2>7. Streak(seat, led)'
    BY <1>5 DEF WriteIntendedWeights
  <2> QED
    BY <2>1, <2>4, <2>5, <2>6, <2>7, EndRunOK
<1>6. CASE Stop
  <2>1. EndRun /\ stops' = stops + 1 /\ UNCHANGED <<today, seat, logged, intended, led, reruns>>
    BY <1>6 DEF Stop
  <2>2. TypeOK'
    BY <2>1, EndRunOK DEF TypeOK
  <2>3. LogOK'
    BY <2>1 DEF LogOK, TypeOK
  <2> QED
    BY <2>1, <2>2, <2>3, EndRunOK DEF ShutOutNeverReigns
<1>7. CASE UNCHANGED vars
  BY <1>7 DEF vars, TypeOK, ShutOutNeverReigns, RunOK, LogOK
<1> QED
  BY <1>1, <1>2, <1>3, <1>4, <1>5, <1>6, <1>7 DEF Next

-----------------------------------------------------------------------------
(* Theorems *)

\* Every variable keeps its type, and a streak is always one of a challenger
\* who is not the champion (PromotionState, with reruns and past days).
THEOREM TypeCorrect == Spec => []TypeOK
<1>1. Inv => TypeOK
  BY DEF Inv
<1> QED
  BY <1>1, InitInv, StepInv, PTL DEF Spec

\* Nobody a run shut out is the champion of the day's record, whatever runs
\* died before it (allocation_from_ledger, vacate).
THEOREM NeverReigns == Spec => []ShutOutNeverReigns
<1>1. Inv => ShutOutNeverReigns
  BY DEF Inv
<1> QED
  BY <1>1, InitInv, StepInv, PTL DEF Spec

\* Until a run stops between two writes, the promotion log tells who holds the
\* seat (append_promotion_event).
THEOREM LogTells == Spec => []LogTellsTheSeat
<1>1. Inv => LogTellsTheSeat
  BY DEF Inv, LogOK, LogTellsTheSeat
<1> QED
  BY <1>1, InitInv, StepInv, PTL DEF Spec

\* A champion who is not shut out loses the seat only to a challenger who led
\* on every day of the hold, for any hold, margin and order of runs
\* (observe_day of champion_promotion).
THEOREM HoldRespected == Spec => SeatNeedsTheHold
<1>1. Inv /\ [Next]_vars =>
        [ Unseated /\ (\A n \in Hold(runDay) : led'[n] # EmptyBoard)
          => LedThrough(seat'.champion, runDay, led') ]_vars
  <2> SUFFICES ASSUME Inv, Next, Unseated, \A n \in Hold(runDay) : led'[n] # EmptyBoard
               PROVE  LedThrough(seat'.champion, runDay, led')
    BY DEF Unseated, vars
  <2>1. SavePromotionState
    BY DEF Next, Unseated, NextDay, StartAllocation, AppendPromotionEvent,
           WriteIntendedWeights, Stop
  <2>2. PICK board \in Boards, ripe \in RipeSets :
          /\ mem' = ObserveDay(mem, runDay, board, ripe)
          /\ led' = Entered(led, runDay, mem.champion, board)
    BY <2>1, Zenon DEF SavePromotionState, Entered
  <2>3. PICK placed \in SUBSET (Hotkeys \ out) : board \in [placed -> 0 .. MaxStanding]
    BY DEF Boards
  <2>4. /\ runDay \in Days /\ ripe \in SUBSET Hotkeys /\ led \in Boarded
        /\ StreakOK(mem) /\ placed \in SUBSET Hotkeys /\ phase = "save" /\ seat' = mem'
    BY <2>1, InputsAssumption DEF Inv, TypeOK, Boarded, SavePromotionState
  <2>5. mem = seat
    BY <2>4 DEF Inv, RunOK, Vacated, Unseated
  <2>6. Streak(mem, led)
    BY <2>5 DEF Inv
  <2>7. mem'.champion # mem.champion /\ mem.champion # NoOne
    BY <2>4, <2>5 DEF Unseated
  <2>8. PICK since \in Days :
          /\ runDay - since + 1 >= HoldDays
          /\ BackedBy(seat'.champion, since, runDay, led')
    <3> DEFINE t == ObserveDay(mem, runDay, board, ripe)
               by2 == Entered(led, runDay, mem.champion, board)
    <3>1. t.champion # mem.champion /\ mem.champion # NoOne
            => \E since \in Days : /\ runDay - since + 1 >= HoldDays
                                   /\ BackedBy(t.champion, since, runDay, by2)
      BY <2>3, <2>4, <2>6, ObserveDayStep
    <3>2. mem' = t /\ led' = by2
      BY <2>2
    <3> HIDE DEF t, by2
    <3> QED
      BY <2>4, <2>7, <3>1, <3>2
  <2>9. runDay >= HoldDays
    BY <2>4, <2>8, Shapes, RuleAssumption
  <2>10. ASSUME NEW n \in Hold(runDay)
         PROVE  led'[n] = seat'.champion
    <3>1. n \in Days /\ n \in since .. runDay /\ n > runDay - HoldDays
      BY <2>4, <2>8, Shapes, RuleAssumption DEF Hold
    <3>2. ASSUME NEW k \in n .. runDay PROVE led'[k] # EmptyBoard
      <4>1. k \in Hold(runDay)
        BY <2>4, <3>1, BoundsAssumption, RuleAssumption DEF Hold, Days
      <4> QED
        BY <4>1
    <3> QED
      BY <2>8, <3>1, <3>2 DEF BackedBy
  <2> QED
    BY <2>9, <2>10 DEF LedThrough
<1> QED
  BY <1>1, InitInv, StepInv, PTL DEF Spec, SeatNeedsTheHold
=============================================================================
