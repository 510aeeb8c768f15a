---------------------------- MODULE EpochScoring ----------------------------
(***************************************************************************)
(* A validator that scores epochs and keeps its weights on chain.          *)
(*                                                                         *)
(* The daemon sleeps for an interval between ticks, and a tick runs its    *)
(* tools one after the other, each up to its time limit: the upkeep of the *)
(* registration index (staleness alarm, head sweep, block scan), the       *)
(* scoring run, the report and the heartbeat.  A scoring run of an epoch   *)
(* leaves four records on chain, in this order: the state before scoring   *)
(* (9.C.1), the weights (9.C.3), the artifacts after scoring (9.C.2) and,  *)
(* if archives failed, the hash of a retry log (9.C.6).  All but the last  *)
(* are timelocked: the chain shows them only some blocks after they        *)
(* landed.  With the daily stream on, a scoring run only commits weights.  *)
(* A tool fails, is killed at its time limit, or is refused by the chain   *)
(* between any two steps; what landed before stays.  Of the upkeep and the *)
(* report only the time they take is modelled here.                        *)
(*                                                                         *)
(* Time counts daemon intervals (30 minutes, 150 blocks), space hundreds   *)
(* of bytes.                                                               *)
(***************************************************************************)
EXTENDS Integers, Sequences, FiniteSets

CONSTANTS
  PreReveal, PostReveal, WeightsReveal,  \* timelock delays
  Threshold,                 \* DEFAULT_THRESHOLD_BLOCKS of the heartbeat
  RateLimit,                 \* WeightsSetRateLimit of the chain
  PalletLength,              \* the chain's pallet epoch
  PalletGuess,               \* _PALLET_EPOCH_BLOCKS, what the code takes it for
  MaxSpace, Needed,          \* MaxSpace, MIN_VALIDATOR_BUDGET_BYTES
  PreSize, PostSize, RetrySize,
  Modes,                     \* subset of {"weekly", "daily"}
  Burns,                     \* subset of {"off", "none", "part", "full"}
  UpkeepTimeout,             \* the longest the tools before scoring take together
  ScoringTimeout,            \* scoring_timeout_seconds
  ClosingTimeout,            \* the longest the report and the heartbeat take together
  MaxEpoch, MaxClock, MaxFaults   \* bounds

Kinds == {"pre", "weights", "post", "retry"}
NoEpoch == 0
\* Of a vector only what it is computed for matters here, not who gets its weight.
NoVector == [epoch |-> NoEpoch]
Vectors == [epoch : 1 .. MaxEpoch]
\* The longest time from the end of one tick to the end of the next.
Cycle == 1 + UpkeepTimeout + ScoringTimeout + ClosingTimeout

ASSUME ParamsAssumption ==
  /\ {PreReveal, PostReveal, WeightsReveal, RateLimit, PalletLength, PalletGuess} \subseteq Nat \ {0}
  /\ {MaxSpace, Needed, PreSize, PostSize, RetrySize} \subseteq Nat
  /\ {UpkeepTimeout, ScoringTimeout, ClosingTimeout} \subseteq Nat
  /\ Threshold \in Nat /\ Threshold >= WeightsReveal
  /\ Modes \subseteq {"weekly", "daily"} /\ Burns \subseteq {"off", "none", "part", "full"}
\* The budget asked for is taken as enough for the records of a run, and the chain
\* takes it in one pallet epoch (chain_reader.py:462-465).
ASSUME SizesAssumption ==
  PreSize + PostSize + RetrySize <= Needed /\ Needed <= MaxSpace
\* The heartbeat's threshold is above the chain's rate limit (heartbeat.py:13-15).
ASSUME RateAssumption == RateLimit <= Threshold
ASSUME BoundsAssumption == MaxEpoch \in Nat \ {0} /\ MaxClock \in Nat \ {0} /\ MaxFaults \in Nat

VARIABLES
  clock,
  latest,      \* the newest closed epoch (in daily mode: the newest run day)
  chain,       \* what the weekly runs landed, oldest first
  space,       \* UsedSpaceOf: bytes used and the pallet epoch they belong to
  lastUpdate,  \* LastUpdate of the validator, 0 before its first weights
  pending,     \* weights that landed and are still encrypted
  weights,     \* the weights in force
  pc, run,     \* the tool that runs, and what the scoring run remembers
  spent,       \* intervals begun since the tools of this part of the tick started
  mode,        \* deployment: SN21_DAILY_STREAM_WEIGHTS
  faults       \* failures of the network, kills, refused finalizations so far

vars == <<clock, latest, chain, space, lastUpdate, pending, weights, pc, run, spent, mode, faults>>
onChain == <<chain, space, lastUpdate, pending, weights>>

-----------------------------------------------------------------------------
(* The chain *)

Landed(kind) == {i \in DOMAIN chain : chain[i].kind = kind}
Delay == [kind \in Kinds |-> CASE kind = "pre" -> PreReveal [] kind = "post" -> PostReveal
                               [] OTHER -> WeightsReveal]
Revealed(i) == chain[i].at + Delay[chain[i].kind] <= clock

PalletEpoch == clock \div PalletLength
SpaceUsed == IF space.epoch = PalletEpoch THEN space.used ELSE 0
Fits(size) == SpaceUsed + size <= MaxSpace

\* A record that says nothing of the epoch: the retry log is a bare hash.
Entry(kind) == [kind |-> kind, epoch |-> run.epoch, at |-> clock, began |-> run.began,
                checked |-> run.checked, verified |-> run.verified]
Land(kind, size) ==
  /\ chain' = Append(chain, Entry(kind))
  /\ space' = [used |-> SpaceUsed + size, epoch |-> PalletEpoch]
  /\ UNCHANGED <<lastUpdate, pending, weights>>

\* set_weights is timelocked as well; LastUpdate moves when it lands.
LandWeights(v) ==
  /\ lastUpdate' = clock
  /\ pending' = Append(pending, [v |-> v, at |-> clock])
  /\ UNCHANGED <<space, weights>>
RateLimited == lastUpdate # 0 /\ clock - lastUpdate < RateLimit

\* One interval passes, and the weights that are due come into force: the first
\* `shown' of those pending, which are in the order in which they landed.
PassTime ==
  /\ clock' = clock + 1
  /\ \E shown \in 0 .. Len(pending) :
       /\ \A n \in DOMAIN pending : n <= shown <=> pending[n].at + WeightsReveal <= clock'
       /\ weights' = IF shown = 0 THEN weights ELSE pending[shown].v
       /\ pending' = SubSeq(pending, shown + 1, Len(pending))
  /\ UNCHANGED <<chain, space, lastUpdate>>

-----------------------------------------------------------------------------
(* What a scoring run reads and computes *)

\* Only revealed records can be read; both CBOR records name their epoch.
AlreadyScored_ByArtifacts(e) == \E i \in Landed("post") : chain[i].epoch = e /\ Revealed(i)
AlreadyScored(e) ==
  \E i \in Landed("pre") \cup Landed("post") : chain[i].epoch = e /\ Revealed(i)

\* The used bytes count only if no sign shows that the pallet epoch is over:
\* somebody else committed in a newer one, or the block number says so.
BudgetSufficient_FirstRecordOnly(otherCommitted) ==
  \/ otherCommitted /\ space.epoch < PalletEpoch
  \/ space.epoch < clock \div PalletGuess
  \/ MaxSpace - space.used >= PreSize
BudgetSufficient(otherCommitted) ==
  \/ otherCommitted /\ space.epoch < PalletEpoch
  \/ space.epoch < clock \div PalletGuess
  \/ MaxSpace - space.used >= Needed

\* The vector that is sent, or NoVector when the commit is skipped.  `burn' is the burn
\* of the day, "off" without an override; `has' tells whether any miner is left in the
\* computed vector, `scored' whether any was scored at all.
Compose(e, burn, has, scored) ==
  IF burn = "full" \/ has \/ (burn \in {"none", "part"} /\ scored)
    THEN [epoch |-> e] ELSE NoVector

\* Whatever becomes of one tool, the next one runs.
AfterScoring_OnSuccess(ok) == IF ok THEN "heartbeat" ELSE "sleep"
AfterScoring(ok) == "heartbeat"

-----------------------------------------------------------------------------

NoRun == [epoch |-> NoEpoch, began |-> 0, checked |-> TRUE, verified |-> TRUE]
\* The parts of a tick: "heartbeat" begins with the report.
Phases == {"sleep", "upkeep", "scoring", "pre", "weights", "post", "retry", "heartbeat"}
InScoring == {"scoring", "pre", "weights", "post", "retry"}
Limit == [phase \in Phases |-> CASE phase = "upkeep" -> UpkeepTimeout
                                 [] phase = "heartbeat" -> ClosingTimeout
                                 [] OTHER -> ScoringTimeout]

Init ==
  /\ clock = 1
  /\ latest = NoEpoch
  /\ chain = <<>>
  /\ space = [used |-> 0, epoch |-> 0]
  /\ lastUpdate = 0
  /\ pending = <<>>
  /\ weights = NoVector
  /\ pc = "upkeep"
  /\ run = NoRun
  /\ spent = 0
  /\ mode \in Modes
  /\ faults = 0

Fault == faults < MaxFaults /\ faults' = faults + 1
EndScoring(ok) == pc' = AfterScoring(ok) /\ run' = NoRun
\* The scoring run goes on to its next step, or is done and forgotten.
GoOn(next, now) == pc' = next /\ run' = IF next \in InScoring THEN now ELSE NoRun

\* What the scoring tool has spent counts until it ends.
KeepTime == spent' = IF pc' \in InScoring THEN spent ELSE 0

\* The daemon begins with a tick; between ticks it sleeps for an interval.
Wake ==
  /\ pc = "sleep" /\ clock < MaxClock
  /\ PassTime
  /\ pc' = "upkeep" /\ spent' = 0
  /\ UNCHANGED <<latest, run, mode, faults>>

\* Every tool may take long, at most until its time limit.
RunLong ==
  /\ pc # "sleep" /\ clock < MaxClock
  /\ spent < Limit[pc] /\ spent' = spent + 1
  /\ PassTime
  /\ UNCHANGED <<latest, pc, run, mode, faults>>

\* Whatever became of the tools before, scoring starts.  Epochs close (run days
\* come) all the time, and it looks for the newest.
StartScoring ==
  /\ pc = "upkeep"
  /\ latest' \in {latest, latest + 1} \cap (0 .. MaxEpoch)
  /\ pc' = "scoring" /\ spent' = 0
  /\ UNCHANGED <<clock, onChain, run, mode, faults>>

\* The pre-flight of a weekly run and its reads: a prior record of the epoch or
\* too little space ends it; if the reads fail it goes on unchecked.  No revealed
\* bundle of any miner ends it as well.
PreFlight ==
  /\ pc = "scoring" /\ mode = "weekly" /\ latest # NoEpoch
  /\ \E checked, other, seen \in BOOLEAN :
       /\ checked => UNCHANGED faults
       /\ ~checked => Fault
       /\ IF (checked => ~AlreadyScored(latest) /\ BudgetSufficient(other)) /\ seen
            THEN /\ pc' = "pre"
                 /\ run' = [epoch |-> latest, began |-> clock, checked |-> checked,
                            verified |-> TRUE]
            ELSE EndScoring(FALSE)
  /\ KeepTime
  /\ UNCHANGED <<clock, latest, onChain, mode>>

NoScoring ==
  /\ pc = "scoring" /\ latest = NoEpoch
  /\ EndScoring(FALSE)
  /\ KeepTime
  /\ UNCHANGED <<clock, latest, onChain, mode, faults>>

\* 9.C.1, 9.C.2 and 9.C.6 land, are refused for space, or are not sent; or they
\* land and the answer is lost, which the run takes for a failure.  Only
\* a failed retry log does not change the outcome.
Submit_FailOpen(kind, size, next) ==
  \/ Fits(size) /\ Land(kind, size) /\ GoOn(next, run) /\ UNCHANGED faults
  \/ GoOn(next, run) /\ Fault /\ UNCHANGED onChain
Submit(kind, size, next) ==
  \/ Fits(size) /\ Land(kind, size) /\ GoOn(next, run) /\ UNCHANGED faults
  \/ Fits(size) /\ Land(kind, size) /\ EndScoring(FALSE) /\ Fault
  \/ ~Fits(size) /\ EndScoring(FALSE) /\ UNCHANGED <<onChain, faults>>
  \/ EndScoring(FALSE) /\ Fault /\ UNCHANGED onChain

CommitPre ==
  /\ pc = "pre"
  /\ Submit("pre", PreSize, "weights")
  /\ KeepTime
  /\ UNCHANGED <<clock, latest, mode>>

\* The vector is composed and committed.  An empty one is not sent; what the
\* chain refused, by its rate limit or else, shows as a LastUpdate that did not move,
\* if it can be read before and after: otherwise the run takes the weights for
\* landed and goes on with the hash of another block.  A block hash that
\* cannot be read ends the run although the weights landed.
Unverified == [run EXCEPT !.verified = FALSE]
SendWeights(v, next) ==
  \/ (v # NoVector => RateLimited) /\ EndScoring(FALSE) /\ UNCHANGED <<onChain, faults>>
  \/ /\ v # NoVector /\ ~RateLimited
     /\ LandWeights(v)
     /\ chain' = IF mode = "weekly" THEN Append(chain, Entry("weights")) ELSE chain
     /\ \/ GoOn(next, run) /\ UNCHANGED faults
        \/ GoOn(next, Unverified) /\ Fault
        \/ EndScoring(FALSE) /\ Fault
  \/ v # NoVector /\ GoOn(next, Unverified) /\ Fault /\ UNCHANGED onChain
  \/ v # NoVector /\ EndScoring(FALSE) /\ Fault /\ UNCHANGED onChain

CommitWeights ==
  /\ pc = "weights"
  /\ \E burn \in Burns, has, scored \in BOOLEAN :
       /\ has => scored
       /\ SendWeights(Compose(run.epoch, burn, has, scored), "post")
  /\ KeepTime
  /\ UNCHANGED <<clock, latest, mode>>

\* A retry log follows if archives of miners could not be had.
CommitPost ==
  /\ pc = "post"
  /\ \E next \in {"retry", AfterScoring(TRUE)} : Submit("post", PostSize, next)
  /\ KeepTime
  /\ UNCHANGED <<clock, latest, mode>>

CommitRetryLog ==
  /\ pc = "retry"
  /\ Submit("retry", RetrySize, AfterScoring(TRUE))
  /\ KeepTime
  /\ UNCHANGED <<clock, latest, mode>>

\* With the daily stream on, a run commits the day's vector and nothing else; a
\* vector that cannot be had leaves an empty one, and nobody counts as scored.
DailyWeights ==
  /\ pc = "scoring" /\ mode = "daily" /\ latest # NoEpoch
  /\ \E burn \in Burns, has \in BOOLEAN :
       SendWeights(Compose(latest, burn, has, FALSE), AfterScoring(TRUE))
  /\ KeepTime
  /\ UNCHANGED <<clock, latest, mode>>

\* The scoring tool is killed at its time limit, or dies: in any tick, even in every
\* one.
Kill ==
  /\ pc \in InScoring
  /\ EndScoring(FALSE)
  /\ KeepTime
  /\ UNCHANGED <<clock, latest, onChain, mode, faults>>

\* The heartbeat sends the weights in force once more if the last update is old.
Due_Always == TRUE
Due == clock - lastUpdate >= Threshold

Heartbeat ==
  /\ pc = "heartbeat"
  /\ pc' = "sleep" /\ spent' = 0
  /\ \/ ~Due /\ UNCHANGED <<onChain, faults>>
     \/ Due /\ weights = NoVector /\ UNCHANGED <<onChain, faults>>
     \/ /\ Due /\ weights # NoVector
        /\ IF RateLimited THEN UNCHANGED onChain ELSE LandWeights(weights) /\ UNCHANGED chain
        /\ UNCHANGED faults
     \/ Fault /\ UNCHANGED onChain
  /\ UNCHANGED <<clock, latest, run, mode>>

Next ==
  \/ Wake \/ RunLong \/ StartScoring \/ PreFlight \/ NoScoring \/ CommitPre
  \/ CommitWeights \/ CommitPost \/ CommitRetryLog \/ DailyWeights \/ Kill \/ Heartbeat

Spec == Init /\ [][Next]_vars
-----------------------------------------------------------------------------
(* What must hold *)

\* The types of all variables.
TypeOK ==
  /\ clock \in 1 .. MaxClock /\ latest \in 0 .. MaxEpoch /\ faults \in 0 .. MaxFaults
  /\ chain \in Seq([kind : Kinds, epoch : 0 .. MaxEpoch, at : 1 .. MaxClock,
                    began : 0 .. MaxClock, checked : BOOLEAN, verified : BOOLEAN])
  /\ space \in [used : 0 .. MaxSpace, epoch : 0 .. MaxClock]
  /\ lastUpdate \in 0 .. MaxClock
  /\ pending \in Seq([v : Vectors, at : 1 .. MaxClock])
  /\ weights \in Vectors \cup {NoVector}
  /\ pc \in Phases
  /\ run \in [epoch : 0 .. MaxEpoch, began : 0 .. MaxClock, checked : BOOLEAN,
              verified : BOOLEAN]
  /\ spent \in Nat
  /\ mode \in Modes

\* The audit records of an epoch come in order (run_epoch_scoring): a weekly run
\* that put weights on chain put the state before scoring there first, in the same
\* run, and the artifacts bind weights that landed, whatever failed or was
\* killed in between, unless the run could not read LastUpdate: then the
\* artifacts may stand alone.
AuditInOrder ==
  mode = "weekly" =>
    \A i \in DOMAIN chain :
      LET earlier(kind) == \E j \in 1 .. i - 1 : chain[j].kind = kind
                             /\ chain[j].epoch = chain[i].epoch /\ chain[j].began = chain[i].began
      IN CASE chain[i].kind = "weights" -> earlier("pre")
           [] chain[i].kind = "post"    -> earlier("weights") \/ ~chain[i].verified
           [] chain[i].kind = "retry"   -> earlier("post")
           [] OTHER                     -> TRUE

\* The guard against scoring an epoch again sees only revealed records, so an epoch
\* can be scored twice, but only as long as its first 9.C.1 is encrypted:
\* two checked runs of one epoch lie no further apart than the delay of the
\* record and the length of a run (validator_already_scored_epoch).
RescoredOnlyWhileHidden ==
  \A i, j \in Landed("pre") :
    i < j /\ chain[i].epoch = chain[j].epoch /\ chain[j].checked
      => chain[j].at - chain[i].at < PreReveal + ScoringTimeout

\* If the code knows how long a pallet epoch is, a checked run that began has the
\* space for all its records: none of them is refused after its first
\* landed (MIN_VALIDATOR_BUDGET_BYTES).
NoHalfSequence ==
  PalletGuess = PalletLength /\ run.checked =>
    /\ pc = "post" => Fits(PostSize)
    /\ pc = "retry" => Fits(RetrySize)

\* The heartbeat never undoes a scoring run: the weights in force never give way to
\* those of an older epoch, although it sends what it reads from a chain
\* that may hold newer ones, still encrypted.
NeverGoesBack == [][weights'.epoch >= weights.epoch]_vars

\* No tool of a tick keeps the heartbeat from running by failing, hanging or being
\* killed: once there are weights in force, the last update is at no moment older
\* than the threshold and one full cycle, and a cycle more for each failure of
\* the network.
StaysActive ==
  weights # NoVector => clock - lastUpdate < Threshold + Cycle * (1 + faults)
=============================================================================
