--------------------------- MODULE DailyAllocation ---------------------------
(***************************************************************************)
(* One day's allocation: from the published receipts and the standings to  *)
(* the weights that are sent.                                              *)
(*                                                                         *)
(* The tests for copies read the receipts and form groups, each with one   *)
(* payee.  Then one gate after the other takes hotkeys out of the running: *)
(* eviction and placement, registration, one seat per coldkey, copies,     *)
(* tenure, the alpha hold.  The curve ranks whoever is left, the           *)
(* participation multiplier scales, and the vector is published.  The      *)
(* committer fetches it, maps hotkeys to uids and applies the alpha hold   *)
(* again, on what the chain shows by then.                                 *)
(*                                                                         *)
(* What a gate judges by is chosen when the gate acts.  Hotkeys and        *)
(* coldkeys are numbers, ordered as the code orders strings.  EpochScoring *)
(* commits what is computed here; no name is shared with it, so that       *)
(* WeightsProofs can extend both.                                          *)
(***************************************************************************)
EXTENDS Integers, FiniteSets

CONSTANTS
  Hotkeys, Coldkeys,
  Houses,            \* the sets that may be exempt from the tests for copies
  Prints,            \* fingerprints of a day's predictions
  Today,             \* the run day; receipts are of days 1 .. Today
  MaxStandIn,        \* RECEIPT_STAND_IN_MAX_DAYS
  Scores, ScoreThreshold, \* standings, and the curve's score_threshold
  MaxEarners,
  Multipliers        \* participation, in quarters of the full weight

ASSUME AllocAssumption ==
  /\ Hotkeys \subseteq Nat /\ IsFiniteSet(Hotkeys) /\ Coldkeys \subseteq Nat \ {0} /\ Houses \subseteq SUBSET Hotkeys
  /\ Prints \subseteq Nat \ {0} /\ Today \in Nat \ {0} /\ MaxStandIn \in Nat
  /\ Scores \subseteq Int /\ ScoreThreshold \in Int
  /\ MaxEarners \in Nat \ {0} /\ Multipliers \subseteq 0 .. 4

NoPrint == 0
Unknown == 0
Days == 1 .. Today
Never == Today + 1       \* sorts after every day
Nothing == [h \in {} |-> 0]

VARIABLES
  step,
  house,        \* hotkeys whose behaviour never condemns a group, for good
  newest,       \* what the receipt that speaks for today shows of each hotkey
  senior,       \* first receipt day of each hotkey
  groups,       \* copy groups: payee, copies, exempt, and the test that found them
  placements,   \* hotkeys still in the running, with their standing
  before,       \* the placements when copies are dropped
  vector,      \* the published vector, unnormalised
  sent          \* the vector handed to the commit

allocVars == <<step, house, newest, senior, groups, placements, before, vector, sent>>

Least(S, Before(_, _)) == CHOOSE x \in S : \A y \in S \ {x} : Before(x, y)
Only(f, S) == [h \in DOMAIN f \cap S |-> f[h]]

-----------------------------------------------------------------------------
(* Copies *)

\* The receipt that speaks for today: today's own, unless it shows no prints; else
\* the latest before, if it is not too old.
ReceiptDay(receipts) ==
  LET own == Today \in DOMAIN receipts /\ \E h \in Hotkeys : receipts[Today][h] # NoPrint
      earlier == DOMAIN receipts \ {Today}
      latest == CHOOSE d \in earlier : \A e \in earlier : e <= d
  IN IF own THEN Today
     ELSE IF earlier # {} /\ Today - latest <= MaxStandIn THEN latest ELSE 0

\* The first day on which the hotkey shows one of these prints.
FirstDay(receipts, h, prints) ==
  LET on == {d \in DOMAIN receipts : receipts[d][h] \in prints}
  IN IF on = {} THEN Never ELSE CHOOSE d \in on : \A e \in on : d <= e

Group(kind, S, payee) ==
  [kind |-> kind, payee |-> payee, copies |-> S \ {payee}, exempt |-> S \cap house # {}]
Members(g) == {g.payee} \cup g.copies

\* Hotkeys that show the same print: who showed it first in the receipts is the
\* payee, then who appears first in them, then the smaller hotkey.
PrintGroups(receipts) ==
  LET d == ReceiptDay(receipts)
      shows == IF d = 0 THEN [h \in Hotkeys |-> NoPrint] ELSE receipts[d]
      seen(h) == FirstDay(receipts, h, Prints)
      first(h) == FirstDay(receipts, h, {shows[h]})
      precede(x, y) == \/ first(x) < first(y)
                       \/ first(x) = first(y) /\ seen(x) < seen(y)
                       \/ first(x) = first(y) /\ seen(x) = seen(y) /\ x < y
      same(p) == {h \in Hotkeys : shows[h] = p}
  IN {Group("prints", same(p), Least(same(p), precede)) :
        p \in {q \in Prints : Cardinality(same(q)) > 1}}

\* The finest partition of a union that splits no set of E.
Components(E) ==
  LET closed == {S \in SUBSET UNION E : S # {} /\ \A e \in E : e \subseteq S \/ e \cap S = {}}
  IN {S \in closed : \A T \in closed : T \subseteq S => T = S}

\* Of more than two linked hotkeys only those linked to the medoid stay.
Kept(S, medoid, linked) ==
  IF Cardinality(S) = 2 THEN S ELSE {h \in S : h = medoid \/ {h, medoid} \in linked}

Enforced(G) == {g \in G : ~g.exempt}
Copies(G) == UNION {g.copies : g \in Enforced(G)}

\* Groups of every test that share a hotkey are one set.  The groups by prints count
\* even when they are exempt; of the lineage groups only the others arrive.
Counted(G) == {g \in G : g.kind = "prints" \/ ~g.exempt}
CopySets(G) == Components({Members(g) : g \in Counted(G)})

\* A set all of whose members are suppressed gets its senior member back.
Restored_Nobody(G, suppressed) == {}
Restored(G, suppressed) ==
  LET preferred == {g.payee : g \in {x \in Enforced(G) : x.kind = "lineage"}}
      known == UNION {Members(g) : g \in {x \in G : x.kind = "prints"}}
      age(h) == IF h \in known THEN senior[h] ELSE Never
      rank(h) == IF h \in preferred THEN 0 ELSE 1
      precede(x, y) == \/ age(x) < age(y)
                       \/ age(x) = age(y) /\ rank(x) < rank(y)
                       \/ age(x) = age(y) /\ rank(x) = rank(y) /\ x < y
  IN {Least(S, precede) : S \in {T \in CopySets(G) : T \subseteq suppressed}}

Suppressed_KeepsEveryPayee(G) == Copies(G) \ {g.payee : g \in Enforced(G)}
Suppressed(G) == Copies(G) \ Restored(G, Copies(G))

-----------------------------------------------------------------------------
(* The gates and the curve *)

\* A coldkey keeps its best hotkey: by standing, then by commit block, then by
\* hotkey.  Hotkeys of an unknown coldkey are kept.
CapKeeps(f, coldkey, block) ==
  LET better(x, y) == \/ f[x] > f[y]
                      \/ f[x] = f[y] /\ block[x] < block[y]
                      \/ f[x] = f[y] /\ block[x] = block[y] /\ x < y
      of(c) == {h \in DOMAIN f : coldkey[h] = c}
  IN of(Unknown) \cup {Least(of(c), better) : c \in {k \in Coldkeys : of(k) # {}}}

\* A gate stands down rather than empty the field.
Gate(f, out) == IF DOMAIN f \subseteq out THEN f ELSE Only(f, DOMAIN f \ out)

\* The rank of a hotkey among those above the threshold, 1 for the best.
Rank(f, h) ==
  1 + Cardinality({x \in DOMAIN f : f[x] >= ScoreThreshold
                     /\ (f[x] > f[h] \/ (f[x] = f[h] /\ x < h))})

\* Shares in units of 1/400 before they are normalised: a half, a quarter, a tenth,
\* and half of the one before from there on.
Share(rank) ==
  CASE rank = 1 -> 200 [] rank = 2 -> 100 [] rank = 3 -> 40 [] rank = 4 -> 20
    [] rank = 5 -> 10 [] OTHER -> 5

Curve(f) ==
  [h \in DOMAIN f |->
     IF f[h] >= ScoreThreshold /\ Rank(f, h) <= MaxEarners THEN Share(Rank(f, h)) ELSE 0]

Earners(w) == {h \in DOMAIN w : w[h] > 0}

\* The hold on a vector: who is below the floor goes, unless nobody would be left;
\* the survivors keep their proportions.
HoldVector_MayEmpty(w, low) == Only(w, Earners(w) \ low)
HoldVector(w, low) == IF Earners(w) \subseteq low THEN w ELSE Only(w, DOMAIN w \ low)

-----------------------------------------------------------------------------

AllocInit ==
  /\ step = "copies" /\ house \in Houses
  /\ newest = [h \in Hotkeys |-> NoPrint]
  /\ senior = [h \in Hotkeys |-> Never]
  /\ groups = {}
  /\ placements = Nothing /\ before = Nothing
  /\ vector = Nothing /\ sent = Nothing

\* The prediction test reads the receipts up to today; if its process fails,
\* nobody is suppressed by it.
OnePayer ==
  /\ step = "copies" /\ step' = "lineage"
  /\ \/ UNCHANGED <<newest, senior, groups>>
     \/ \E days \in SUBSET Days : \E receipts \in [days -> [Hotkeys -> Prints \cup {NoPrint}]] :
          /\ newest' = LET d == ReceiptDay(receipts)
                       IN IF d = 0 THEN [h \in Hotkeys |-> NoPrint] ELSE receipts[d]
          /\ senior' = [h \in Hotkeys |-> FirstDay(receipts, h, Prints)]
          /\ groups' = PrintGroups(receipts)
  /\ UNCHANGED <<house, placements, before, vector, sent>>

\* The lineage test links pairs of hotkeys; the payee is who appears first in the
\* receipts.
Lineage ==
  /\ step = "lineage" /\ step' = "place"
  /\ \E linked \in SUBSET {S \in SUBSET Hotkeys : Cardinality(S) = 2} :
     LET components == Components(linked)
         older(x, y) == senior[x] < senior[y] \/ (senior[x] = senior[y] /\ x < y)
     IN \E medoid \in {m \in [components -> Hotkeys] : \A S \in components : m[S] \in S} :
          groups' = groups \cup {Group("lineage", S, Least(S, older)) :
                                   S \in {Kept(c, medoid[c], linked) : c \in components}}
  /\ UNCHANGED <<house, newest, senior, placements, before, vector, sent>>

\* Who is not evicted and placement-eligible, with their standing.
Place ==
  /\ step = "place" /\ step' = "identities"
  /\ \E S \in SUBSET Hotkeys : \E f \in [S -> Scores] : placements' = f
  /\ UNCHANGED <<house, newest, senior, groups, before, vector, sent>>

\* With the metagraph read, who has left it is out and a coldkey keeps one seat;
\* without it nothing is judged.  Promotion observes what is left (ChampionSeat).
Identities ==
  /\ step = "identities" /\ step' = "suppress"
  /\ \/ placements' = placements
     \/ \E registered \in SUBSET DOMAIN placements : \E coldkey \in [registered -> Coldkeys \cup {Unknown}] :
        \E block \in [registered -> {1, 2}] :
          placements' = Only(placements, CapKeeps(Only(placements, registered), coldkey, block))
  /\ before' = placements'
  /\ UNCHANGED <<house, newest, senior, groups, vector, sent>>

SuppressCopies ==
  /\ step = "suppress" /\ step' = "tenure"
  /\ placements' = Only(placements, Hotkeys \ Suppressed(groups))
  /\ UNCHANGED <<house, newest, senior, groups, before, vector, sent>>

\* Too few scored days; the house model is exempt.
TenureGate ==
  /\ step = "tenure" /\ step' = "hold"
  /\ \E short \in SUBSET (DOMAIN placements \ house) : placements' = Gate(placements, short)
  /\ UNCHANGED <<house, newest, senior, groups, before, vector, sent>>

\* Too little alpha; who cannot be read is kept, and nothing happens if the hold is
\* not enforced, the floor is zero or the chain was not read.
AlphaHold ==
  /\ step = "hold" /\ step' = "curve"
  /\ \E below \in SUBSET DOMAIN placements : placements' = Gate(placements, below)
  /\ UNCHANGED <<house, newest, senior, groups, before, vector, sent>>

\* The curve and the participation multipliers.  A day with too few episodes is
\* gated: it has no weights.
CurveWeights ==
  /\ step = "curve" /\ step' = "fetch"
  /\ \/ vector' = Nothing
     \/ \E part \in [DOMAIN placements -> Multipliers] :
          vector' = [h \in DOMAIN placements |-> Curve(placements)[h] * part[h]]
  /\ UNCHANGED <<house, newest, senior, groups, placements, before, sent>>

\* The committer: a failed fetch or a gated day leaves nothing; hotkeys without a uid
\* and uids off the allowlist are dropped.
FetchAndMap ==
  /\ step = "fetch" /\ step' = "gate"
  /\ \/ sent' = Nothing
     \/ \E mapped \in SUBSET Hotkeys : sent' = Only(vector, Earners(vector) \cap mapped)
  /\ UNCHANGED <<house, newest, senior, groups, placements, before, vector>>

\* The hold once more, on the uids; if it fails the vector is unchanged.
AlphaGate ==
  /\ step = "gate" /\ step' = "sent"
  /\ \E low \in SUBSET DOMAIN sent : sent' = HoldVector(sent, low)
  /\ UNCHANGED <<house, newest, senior, groups, placements, before, vector>>

AllocNext ==
  \/ OnePayer \/ Lineage \/ Place \/ Identities \/ SuppressCopies \/ TenureGate
  \/ AlphaHold \/ CurveWeights \/ FetchAndMap \/ AlphaGate

AllocSpec == AllocInit /\ [][AllocNext]_allocVars
-----------------------------------------------------------------------------
(* What must hold *)

\* The types of all variables.
AllocTypeOK ==
  /\ step \in {"copies", "lineage", "place", "identities", "suppress", "tenure", "hold",
             "curve", "fetch", "gate", "sent"}
  /\ newest \in [Hotkeys -> Prints \cup {NoPrint}]
  /\ senior \in [Hotkeys -> 1 .. Never]
  /\ \A g \in groups : g.payee \in Hotkeys /\ g.copies \subseteq Hotkeys \ {g.payee} /\ g.copies # {}
  /\ \A f \in {placements, before} : DOMAIN f \subseteq Hotkeys /\ \A h \in DOMAIN f : f[h] \in Scores
  /\ DOMAIN vector \subseteq DOMAIN placements
  /\ Earners(sent) \subseteq Earners(vector)

\* One model pays one hotkey (one_payer_suppression_from_receipts): two hotkeys that
\* the receipt speaking for today shows with the same predictions never both earn,
\* unless one of them, or a third, is exempt; whatever the lineage test says and
\* whoever was restored.
OneModelOnePayee ==
  \A x, y \in Earners(vector) :
    x # y /\ newest[x] = newest[y] /\ newest[x] # NoPrint
      => \E h \in house : newest[h] = newest[x]

\* However the two tests name their payees, no connected set of copies is suppressed
\* whole (orphaned_payees: the incident of two payees excluding each other).
SetsKeepAMember ==
  step \notin {"copies", "lineage"} =>
    \A S \in CopySets(groups) : ~(S \subseteq Suppressed(groups))

\* The committer never turns a vector that pays a mapped hotkey into an empty one:
\* emptied by the second hold it would look like a day without weights.
HoldKeepsTheVector == [][step = "gate" /\ sent # Nothing => Earners(sent') # {}]_allocVars

\* "One payer per model means exactly one: never none": of a set of copies with a
\* member in the running, one is still in the running once copies are dropped.  Does
\* not hold: a payee that left the running takes its copies along (README, section 3).
NeverNone ==
  step = "tenure" =>
    \A S \in CopySets(Enforced(groups)) :
      S \cap DOMAIN before # {} => S \cap DOMAIN placements # {}
=============================================================================
