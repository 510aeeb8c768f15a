# Verification of the SN21 validator

TLA+ models of the machinery of the SN21 subnet validator, the TLC runs that
check them on small instances, and theorems about them whose proofs TLAPS
checks. Paths below are relative to the repository's source (`hope/...`,
`scripts/...`).

- `tlc -config X.cfg M.tla` runs a check; the table of runs is in section 3.
- `tlapm MProofs.tla` checks the proofs of a component.
- `PROJECT.json` lists components, runs, the mutants that show that each
  property can fail, the source lines behind every definition, the hazards and
  the theorems.

## 1. The system

Miners publish models as container images. Once a day an *executor* runs every
admitted model against a basket of episodes, and a *daily loop* turns measured
outcomes into standings, standings into weights, and all of it into documents a
miner can verify. Beside it runs the older weekly path, in which a validator
scores what miners committed on chain. Nothing runs as threads on shared
memory. What makes the system hard is that all of its state is files and chain
slots, written one after the other by a process that a timer starts again, that
may die anywhere, and that is also started by hand for past days.

```
 chain commitments -> intake/gate -> registry of admitted models
                                         |
 executor_daemon -> run_daily_pipeline --+--> shadow stage  (shadow/<day>/*)
                        |                         |
                        +--> settle stage = run_daily_loop (daily_loop.py)
                        |      1   settle outcomes -> standing/<hotkey>.jsonl
                        |      1a  absence penalty  <- shadow/<day>
                        |      1c  liveness policy  <- shadow/<day>
                        |      2   collateral capture fold
                        |      3   advisory compliance view
                        |      4   receipt, accuracy document, anchor -> chain
                        |      5   allocation -> intended weights
                        +--> post weights, release step, CMS report, mirror sync
 validator: daemon -> scoring run | daily weights -> chain; heartbeat
            build_reg_index, refresh_reg_index_head -> registration index
```

### Components

State is durable unless marked (m), in memory.

| Component | Code | State | Operations | Correct when |
|---|---|---|---|---|
| Executor daemon, pipeline | `scripts/executor_daemon.py`, `scripts/run_daily_pipeline.py` | run records, posted vectors, reports | catch up, run today, rerun, post, report | vectors go out in day order, every listed day runs, a report tells what is served |
| Intake, pool | `hope/backtest/intake_runner.py`, `model_registry.py`, `last_admitted.py`, `unchanged_models.py` | verdicts, admitted file, last admitted, unchanged counts | sweep, gate, resolve, remove | an admitted model keeps running while a new one waits, the count is the days run |
| Shadow day | `hope/backtest/shadow.py` | plan, records, end marker per day | run, resume, retry | a delivered prediction is never replaced |
| Absence penalty | `hope/scoring/absence_penalty.py` | penalty entries, log, cancellations | three-day sweep, cancel | one charge per day and hotkey, only for what it left out itself |
| Chronic failure | `hope/scoring/chronic_failure.py`, `daily_loop.py` step 1c | strike log, eviction states, fold (m) | observe, evict, withhold, reinstate, retract | the field never empties, an eviction was earned |
| Settlement | `hope/scoring/settle_day_flow.py`, `standing_ledger.py` | standing files, entered markers | fetch, score, append, mark, repair | every measured row enters |
| Publication, anchor | `hope/publication/receipt_feed.py`, `daily_accuracy_runner.py`, `anchor.py` | receipts, documents, heads, memo, chain slot | publish, refuse, submit | unbroken chains, the memo never runs ahead of the chain |
| Allocation | `hope/validator/daily_stream_weights.py` and its gates | intended weights (m until written) | one call a day, fetch and commit | copies earn once, no set of copies is left without a member |
| Champion seat | `hope/scoring/champion_promotion.py` | promotion state, log | vacate, observe, save | no change of seat without the published hold |
| Model release | `hope/privacy/*` | release ledger, copies, list | replay, copy, publish | nothing early, nothing taken back |
| Mirror sync | `hope/publication/mirror_sync.py` | record of shipped documents | post, ship, record | nothing counts as shipped that is not served |
| Scoring run, heartbeat, daemon | `onchain_runner.py`, `weights_commit.py`, `heartbeat.py`, `daemon.py` | chain records, weights | pre-flight, four commits, re-assert | records in order, weights never go back, the validator stays active |
| Registration index | `registration_index.py`, `build_reg_index.py`, `refresh_reg_index_head.py` | entries, checkpoint | scan, save, sweep | nothing behind the checkpoint is missing |

The other components (scoring formulas, sandboxing, encodings, HTTP services,
the reference miner, tools) are listed with reasons under *Not modelled*.

### How components interact

All of them by files under one ledger root, read whole and written by one step,
and by slots on the chain:

- The liveness and the absence step both read the shadow day and disagree about
  it on purpose: a strike is a crash of the miner's own, a charge is any
  prediction it did not return. A shadow day that is resumed cancels charges
  the absence step made in between.
- The absence step writes into the standing files the settlement appends to,
  and reads them back to see who can be charged.
- The publication works on what the settlement of the same run returns (m), or,
  when there is nothing, on the markers of the day.
- The allocation reads standings, eviction states and receipts, and writes the
  promotion state; the release step replays the allocations.
- The validator's daemon fetches the posted vector; the report describes the
  stored one.
- Builder and head sweep write the same index file.

### What is hard here

1. Two writes that belong together and a process that may die between them:
   entries and markers, strike log and eviction states, document and head,
   submission and memo, index and checkpoint, promotion state and log.
2. Steps that swallow exceptions, so the next step of the same run sees half of
   what the failed one was to write.
3. Reruns: a second run of today, a run for a past day, overlapping sweeps, a
   shadow day resumed or retried after it was charged.
4. Late facts: outcomes measured after the lookback, records superseded after
   their day was folded, timelocked records the chain shows later.
5. Decisions taken with files that already contain later days.

Each is an entry of `hazards` in `PROJECT.json`, at the line where it bites,
with the properties that watch it.

## 2. Modules

| Module | Models |
|---|---|
| `DailyPipeline` | the executor daemon and the stages that carry a day's vector and report out |
| `ModelPool` | intake, resolution of the day's models, the unchanged rule, whole-basket charges |
| `AbsencePenalty` | the shadow stage and step 1a, day after day |
| `ChronicFailure` | step 1c: the policy and its three stores |
| `ScoreBook`, `Settlement` | abstract: what settlement and receipts promise; steps 1 and 4 with both feeds and the anchor |
| `DailyAllocation` | one allocation, from receipts and standings to the vector that is sent |
| `ChampionSeat` | the promotion rule and the writes of the allocation around it |
| `ModelRelease` | the release rule, its replay, the copies and the list |
| `Replica`, `MirrorSync` | abstract: what the mirror promises; what the mirror is sent and what is remembered of it |
| `EpochScoring` | scoring run, daily weights, heartbeat, daemon |
| `RegistrationIndex` | the two programs that write the index |

`MC*` modules hold nothing but constants for TLC; `*Proofs` modules nothing but
theorems, lemmas and the invariants they need. `WeightsProofs` is about
`EpochScoring` and `DailyAllocation`; the proofs of `ModelPool` stand in
`DailyPipelineProofs`, those of `ModelRelease` in `MirrorSyncProofs`. Two modules
that share a proofs module share no names, hence prefixes such as `PoolNext`
and `ReleaseInit`. No module declares a RECURSIVE
operator. A definition named `X_Something` beside `X` is a faulty variant of
`X`, used to show that a property notices the fault; no specification uses it.
The modules share files of the ledger but no variables: each takes what the
others write as any value they can produce (named in the module's header), so
every property holds beside any behaviour of the others.

### DailyPipeline

| TLA+ | Code |
|---|---|
| `today`, `noon` | the wall clock: calendar day, trigger hour passed |
| `listed`, `empty` | the operator's basket list, and days without episodes |
| `pc`, `missed`, `rerun`, `ticked` | `executor_daemon.main`: idle, catching up, running today; the `SN21_RERUN_DAY` override |
| `record`, `intent` | `pipeline_runs/<day>.json`, `intended_weights_<day>.json` |
| `posted`, `reports` | what the operator API and the CMS hold |
| `Daemon`, `Stage` | one branch of the daemon's loop; one stage of `run_pipeline` |
| `Freeze`, `Die` | an epoch frozen at the CMS, the death of daemon and pipeline |

`told` and `excused` are history. Settle is one step that pays, holds or fails.

### ModelPool, AbsencePenalty

| TLA+ | Code |
|---|---|
| `slot`, `verdict`, `admitted`, `last` | chain commitment, verdict files, `_admitted_digests.json`, `_last_admitted.json` |
| `through`, `entry`, `removed`, `byDay` | `_digest_since.json` |
| `StartIntake`, `GateNext`, `RewriteAdmitted` | one sweep of `intake_runner`, a digest at a time |
| `AdmittedModels`, `RunModel`, `MarkRun` | resolution with the unchanged rule, one model's run, the end marker |
| `plan`, `records`, `marked` | `shadow/<basket>/_plan.json`, last record per hotkey, `_run.json` |
| `charged`, `logged`, `cancelled` | penalty entries in the standing files, `_absence_penalties.jsonl`, `_absence_cancellations.jsonl` |
| `StartShadowDay`, `ResumeShadowDay`, `RetryOurs`, `SkipLockedDay` | the four branches of `stage_shadow` |
| `ComputeDay`, `AppendPenaltyEntries`, `LogPenalty` | `compute_penalties`, and the two writes per hotkey of `apply_penalties` |

`AbsencePenalty` has the shadow stage in full and any models; `ModelPool` has
where the models come from and charges whole baskets only. In `AbsencePenalty`
`latecomers` is history: hotkeys that a resumed run added to a plan they were
not in. `compute_penalties` charges a hotkey that a cut-off run had no model
for; when the resumed run does have one and it delivers, the charge stays.
`FairCharge` excludes exactly these. `OnBoard` is constant because the model is
shorter than an entry lives (35 days).

### ChronicFailure

| TLA+ | Code |
|---|---|
| `ledger` | last record with a status per day and hotkey in `shadow/<day>/<hotkey>.jsonl` |
| `obs`, `life` | `_strikes.jsonl`: observations (last one of a day and hotkey), lifecycle lines (all, in order) |
| `states`, `known`; `mobs`, `mlife`, `mem`, `field` | `_eviction_state.json`; the same in memory |
| `Evict`, `WithholdEviction`, `RetractEviction`, `Reinstate`, `JustNote` | one hotkey of `observe_day`, in sorted order; exactly one is enabled |
| `AppendStrikeEvents`, `SaveEvictionStates`, `Crash` | the two writes, and a death |

`torn` is history: the models whose new state a death between the two writes
threw away while its lines stayed in the log. Nothing brings such a state back
(section 3), so `EvictedIffLogged` and `EvictionEarned` leave these models out,
and only these.

Observations older than the read window are dropped on loading (`LoadedObs`) as
`load_strike_events` does, so whether the windowed read changes a decision is a
property, not an assumption. `HouseHotkey` and `MinSurvivors` are the defaults
because `params_from_env`, the only constructor the loop uses, sets nothing
else.

### Settlement and ScoreBook

| TLA+ | Code |
|---|---|
| `measured`, `standing`, `entered` | rows the operator can return, entries per row in `standing/<miner>.jsonl`, `_entered_results.jsonl` |
| `receipts`, `receiptHead`, `docs`, `docHead` | the two feeds; `torn` and `TornHead` are files emptied by an unfinished write |
| `memo`, `chain` | `_last_anchor.json`, the validator's commitment slot |
| `results`, `bound` | what step 1 hands to step 4 in memory |
| `Settle`, `AppendEntries`, `MarkEntered`, `Repair` | `run_settle_day`; the rescoring of a marked day without a receipt |
| `OpenReceipt` ... `WriteReceiptHead`, `PublishAccuracy`, `AdvanceAccuracyHead` | in-place writes in two steps, writes through temporary files in one |
| `SubmitRoot`, `SubmitFails`, `RecordAnchor` | the committer; a failure leaves open whether the chain took the root |

A day stands for the hash of its document, the root over documents for the set
of their days: both are injective in the code. `ScoreBook` has two variables,
the marks and what each day published, and two steps; `ImplementsBook` is the
refinement, with `published` mapped to the rows of the receipt file.

### DailyAllocation, ChampionSeat, ModelRelease

`DailyAllocation` is one day's computation, one action per gate in the code's
order; what a gate judges by (registration, coldkeys, tenure, holdings, links
between models) is chosen when it acts, so every judgement occurs. `groups`,
`placements`, `vector`, `sent` are the values handed from gate to gate. The
second exact test for copies, on point estimates alone, is off by default
(`daily_stream_weights.py:1128`) and left out: it groups as the first one does,
over other prints, and the groups of both are united.

`ChampionSeat`: `seat` is `standing/_promotion.json`, `logged` the last line of
`_promotion_log.jsonl`, `intended` the last weights file, `mem` the state in
memory; one action per write. `led` is history.

`ModelRelease`: `rec` are the weights records, `ran` the shadow records,
`releaseLedger`, `mirrored`, `list` the files of `hope/privacy`; the rule is a
fold over the recorded days, replayed by every run. `redone` and `recalled` are
history: the first day whose inputs were written again since the last ledger,
and the images whose release fell on such a day or later.

### MirrorSync and Replica

`ledger` is what each document holds on the validator, `mirror` what is served,
`shipped` the record. A pass loads (`known`), posts small documents in batches,
sends the slices and then the object of each large receipt, and records. A call
can fail before or after it was stored. `Replica` has three variables, what was
issued, what the copy serves and what is known of it, and three steps;
`ImplementsReplica` maps `ledger`, `mirror` and `shipped` to them.

### EpochScoring

`chain` is what weekly runs landed, `space` the validator's budget in the
commitments pallet, `pending` and `weights` the timelocked and the effective
vector. Time counts daemon intervals. One action per commit of
`run_epoch_scoring`, one for the pre-flight, for a kill and for the heartbeat.

`pc` is the part of the tick that runs. Its order is that of `build_commands`:
*upkeep* (staleness alarm, head sweep, block scan), *scoring* with the steps of a
run, *heartbeat* (which begins with the report), then the sleep. `spent` is the
time since the part began; `RunLong` lets any of them, in weekly and in daily
mode, take up to `Limit`, the sum of the ceilings of its tools: 120 + 420 + 1200
s, 1800 s, 300 + 240 s. What the upkeep does to the index is
`RegistrationIndex`; what the report posts is not modelled.

`SendWeights` has every outcome of `commit_weights_layer_9c3` and of the test
that follows it: weights that landed and were confirmed, that landed although the
run believes they did not, that the chain refused and the unmoved LastUpdate
gave away, and, when LastUpdate cannot be read, weights that landed or were
refused and count as landed either way (`verified` is then FALSE, and the run
goes on with the hash of another block). The burn of the day follows a dated
schedule, so each run may find another one.

### RegistrationIndex

`index` and `state` are the two files, `mem`, `cursor`, `next`, `target` the
builder's, `rmem` the head sweep's. `from` and `sound` are history: where the
scans behind the checkpoint began, and whether something happened that is known
to leave a gap (section 3).

A save of the builder is four steps: `ReadIndex` (into `disk`), `WriteIndex` of
the union, `ReadState` (into `side`), `WriteState`. The head sweep loads the index
when it starts and replaces it at its end (`WriteRefresh`), and rewrites the whole
sidecar it read (`ReadStamp`, `WriteStamp`). Steps of one program fall between
those of the other; `overlaps` counts how often one was started beside the other
one. `pace` is how many blocks this deployment can read before the daemon kills
the scan at 1200 s: `Killed` costs no fault and may come in every pass, and 0
means that the scan is switched off (`SN21_SKIP_REG_INDEX_BLOCK`). A program
loads index and sidecar in one step: it takes nothing from one that the other
would have to agree with, as saves are unions.

## 3. Runs

| Run | Instance | Properties |
|---|---|---|
| `chronic` | 2 models, 3 days, 1 strike evicts, 1 rerun, 1 death | `EvictedIffLogged`, `EvictionEarned`, `PruningIsInvisible` |
| `chronic_crash` | 2 models, 2 days, late records, 1 rerun, 1 death, fair | `FieldNeverEmpties`, `EvictionHasLine`, `EventuallyCaughtUp` |
| `settle` | 2 rows, 2 miners, 3 days, 2 deaths, 1 failed request, fair | `EntriesMatchMarks`, `AccuracyChain`, `ImplementsBook`, `AnchorOnlyGrows`, `EveryMeasuredRowEnters` |
| `absence` | 2 hotkeys, 3 days, 1 move, 1 rerun, 2 cut-off runs, 1 death | `ChargedOnce`, `FairCharge` |
| `seat` | champion and 2 challengers, 4 days, hold of 2, 1 rerun, 1 stop | `ShutOutNeverReigns`, `SeatNeedsTheHold` |
| `release` | 2 hotkeys, 2 images, 4 days, 1 rewritten record, 1 failure | `ClosedStaysPrivate`, `NeverReleasedEarly`, `DethronedReleased`, `ReleaseIsFinal` |
| `epoch` | 2 epochs, 7 intervals, weekly and daily, every tool up to its limit, any kills, 1 fault | `AuditInOrder`, `RescoredOnlyWhileHidden`, `NoHalfSequence`, `StaysActive`, `NeverGoesBack` |
| `allocation` | 3 hotkeys, receipts of 3 days, every lineage graph | `OneModelOnePayee`, `SetsKeepAMember`, `HoldKeepsTheVector` |
| `pool` | 2 hotkeys, 2 images, 4 days, 3 commitments, 1 failure, 1 death | `CountIsTrue`, `ServedWhileWaiting`, `AdmittedStays` |
| `mirror` | 3 days of which 2 large, window of 2, 1 repair, 1 failure, 1 death, fair | `ImplementsReplica`, `SuccessMeansServed`, `EventuallyServed` |
| `registration` | 3 blocks, checkpoint every 2, 0, 1 or 3 blocks before a kill, both programs at once once, 1 unreadable block or death, fair | `NoGap`, `NeverDrops`, `EventuallyIndexed` |
| `pipeline` | 3 days, catch-up of 2, 1 rerun, 1 correction, 1 failure or death, fair | `InDayOrder`, `EventuallyRun`, `CanonicalIsLatest`, `ReportTellsWhatIsServed` |

Type correctness is not a property of the runs: it is proved for every module
(section 4), and so is every safety property in the table.

### Bounds

The bounds are constants named in the modules (`MaxDay`, `LastDay`,
`LastRunDay`, `MaxReruns`, `MaxFailures`, `MaxDeaths`, ...) and appear in guards
only.

- *Two hotkeys or miners, three where a streak or a set of copies can pass from
  one to another.* What crosses hotkeys is a floor, a sorted order, a group or
  a slot; each needs two or three. The theorems hold for any number.
- *Days.* More than the narrow window of the instance: a strike ages out, a
  lookback of one day misses a row until the full fetch on the third, a hold of
  two days fails once and succeeds once in four, a catch-up of two days leaves
  the first day behind on the third.
- *`epoch`* counts intervals of 30 minutes, 150 blocks. A 9.C.1 record is shown
  after two, artifacts after four, weights after three, the rate limit (180
  blocks) is two, and a full run takes 12 to 13 of 31 units of space. Each part
  of a tick may take one interval: the ceilings are 1740, 1800 and 540 s, so a
  tick of the model may be longer than one of the program and never need be
  shorter. The threshold is three intervals where the default is ten (1500
  blocks); what matters is that it is not below the rate limit and the delay of
  weights. Without a fault `StaysActive` allows an age below seven, and the run
  comes as far: with one less TLC finds it violated. With a fault its bound lies
  beyond the clock of the run, and the theorem covers it. By the defaults the
  bound is 1500 blocks and a cycle of about 490 for each failure and one more,
  so six failures in a row stay within the chain's 5000. It is about a daemon
  that runs, with the ceilings of its defaults (0 means none).
- *`registration`*: of three blocks two make a checkpoint. A pass is killed before
  it (pace 1), after it or at its end (pace 3), or there is none (0).
- *One or two deaths, cuts or failures.* One death reaches every pair of writes;
  the second one in `settle` reaches the repair.
- `CHECK_DEADLOCK FALSE` everywhere: when the calendar ends and nothing is left
  to do the system rests.

The invariants the proofs of `DailyPipeline`, `RegistrationIndex` and
`ChronicFailure` use were also checked by TLC beyond the instances of the runs
(four days; four blocks, two hotkeys; two models over four days with two strikes
to evict, a window of three days and of none, and four reruns); the properties
of `ModelRelease` with two rewrites.

### Fairness

- `ChronicFailure`: weak fairness of the loop's own steps; the timer starts the
  loop every day and again on failure. `EventuallyCaughtUp` excludes what an
  outage longer than window plus lookback never folds.
- `Settlement`: weak fairness of a run's steps (a started process goes on or
  dies), strong fairness of the start of today's run (the timer comes back after
  every run that ended, died or found the operator silent), of the passing of
  days and of a submission the chain accepts. Without the weekly full fetch a
  row measured after the lookback is lost, as the mutant shows.
- `MirrorSync`, `RegistrationIndex`: a pass starts again after every one that
  ended or died (strong fairness where the other program can keep it out), and
  one that runs goes on or dies.
- `RegistrationIndex`: the daemon's kills are *not* bounded. A pass that is killed
  before its first checkpoint scans the same blocks in every tick, as
  `daemon.py:150` says, and never gets on, so `EventuallyIndexed` promises what
  the scan finds only if a pass ends or comes to a checkpoint in its limit
  (`PaceSuffices`), and of the head sweep, for every pace and with the scan
  switched off, that who registered and committed nothing since is in the index.
  By the defaults a checkpoint comes every 500 blocks and nothing caps a pass; a
  cap by `--reg-index-max-blocks-per-tick` lets it end in time only if so many
  blocks can be read in 1200 s. The head sweep is taken to fit its own 420 s.
- `DailyPipeline`: weak fairness of the clock, of the daemon's loop (it ticks
  for ever, and a supervisor restarts it) and of a pipeline's stages.
- Deaths and failures are bounded, which stands for "not for ever".
- `AbsencePenalty`, `ChampionSeat`, `ModelRelease`, `ModelPool` have no liveness
  property: a step that failed is not owed by anybody; an operator runs it
  again. `DailyAllocation` is a computation; `EpochScoring` states activity as a
  bound (`StaysActive`), which needs no fairness because time passes only while a
  tool is within its limit or the daemon sleeps.

### Where the code does not do what it says

Each was met while modelling, with a counterexample by TLC. Properties that
state the sentence are kept as definitions marked "does not hold" where they
document the model; no run checks them.

- *A death between the two writes of step 1c.* `daily_loop.py:418` calls the
  states a derived cache whose loss is recoverable. Nothing rebuilds them: the
  next step folds from the last observed day on, and decisions of the days
  before stay in the log only, and the repeated fold may write an eviction's
  line a second time. `EvictedIffLogged` and `EvictionEarned` hold for every
  model but those whose state changed in the fold that died (`torn`).
- *Counters after a double flip.* `chronic_failure.py:507` matches lines by day:
  a day evicted, retracted and evicted again is not counted by a later
  retraction. `params_from_env` (`:275`) never sets `house_hotkey`.
- *Entries twice.* `settle_day_flow.py:484` says the markers guarantee that each
  row flows exactly once; entries are appended before the marks (`:759`), and a
  run that dies between them is repeated. `EntriesMatchMarks` counts the deaths,
  as do `AccuracyChain` and `ChargedOnce` where a death breaks a promise.
- *Rows in no receipt.* Rows that enter in a second run of a day are marked with
  a day whose receipt exists and are never published (`receipt_feed.py:253`).
- *A newcomer charged for days before it joined.* `load_entries` has no upper
  date (`standing_ledger.py:148`): a first charge puts a hotkey on the board of
  earlier days, and a later sweep charges those.
- *A streak counts days without a board.* A day on which nobody places is
  observed like any other (`champion_promotion.py:144`).
- *Withheld days count as days out.* `release_ledger.py:189` reads a key that no
  weights record has (records hold the groups under `collapse_audit`,
  `daily_stream_weights.py:432`), against its own header (`:7`). A day gated by
  [D3] writes empty weights, so everybody counts as out. A rerun of an earlier
  day rewrites the ledger as of that day, against `release_list.py:55`.
- *A set of copies can lose its payee.* `daily_stream_weights.py:447` drops the
  copies after the payee left the running, against `:441` (`NeverNone`).
- *A removal is charged.* On the day of a removal the hotkey is charged the
  whole basket: the removal is dated by calendar day, the charge by basket day
  (`unchanged_models.py:173` against `:4` and `test_absence_penalty.py:179`).
  The rule removes after 39 baskets, not 40. Another hotkey may still run the
  removed digest on that day; a resumed basket already folded is never counted.
- *Slices of a large receipt can be lost.* A failed object call whose receipt
  was stored is found there by the next pass and adopted with its slices unsent
  (`mirror_sync.py:574` against `:677`).
- *A checkpoint past unread blocks.* A pass that stops at an unreadable block
  first saves the end of its range (`registration_index.py:315`,
  `build_reg_index.py:218`); a death before the second save leaves it there. A
  first pass that reads no block saves the head. A failing look-up counts as
  none (`:411`). `NoGap` holds until one of these, which `sound` records.
- *The head sweep can drop entries.* It replaces the file with what it loaded
  (`refresh_reg_index_head.py:188`), against `:17`, if the builder saves in
  between (`SweepOnlyAdds`).
- *The builder can drop entries, and the sidecar can go back.* The docstring of
  `_union_with_disk` (`build_reg_index.py:94`) ends in "we never drop", and names
  the window of some milliseconds in which it does: what the sweep writes between
  the save's read of the file and its write is lost. `NeverDrops` excuses exactly
  that. The sweep's stamp writes back the checkpoint it read
  (`refresh_reg_index_head.py:94`), even the too high one of a pass that stopped
  and has taken it back since, or none where there is one now, with nobody dead;
  `sound` ends there. The daemon runs the two one after the other: both need a
  second run by hand. They also share the name of the temporary file, which two
  writes at once could mix up; that is not modelled.
- *A scan that never gets on.* Killed before its first checkpoint in every tick,
  it reads the same window for ever (`daemon.py:150`); see *Fairness*.
- *Weights that did not land can be bound.* `weights_commit.py:88` says success
  iff included, and `:33` that without weights 9.C.2 must not be published. The
  check of LastUpdate is best-effort (`:165`): if either read of it fails, weights
  the chain refused count as landed, the hash of another block stands in for
  theirs (`:142`), and 9.C.2 and 9.C.6 follow. `AuditInOrder` excludes the
  records of such runs (`verified`) and holds of all others; TLC violates it
  without the exclusion.
- *An epoch can be scored twice* while its first record is still hidden
  (`chain_reader.py:654`); `RescoredOnlyWhileHidden` bounds it. A run that dies
  after its 9.C.1 record was revealed is never repeated (`daemon.py:311`).
- *Day order.* `executor_daemon.py:50` says oldest first keeps weights in day
  order. A day whose catch-up fails runs after later ones, and so does one whose
  pass crosses midnight. `InDayOrder` excuses exactly a day that had its own turn
  and left no record.
- *Reports.* A rerun that ends held does not withdraw the vector it posted; a
  report reads the stored vector, not the posted one, so after a failed post it
  describes one nobody serves. `ReportTellsWhatIsServed` is about runs whose
  post succeeded. A failed settle stage still writes the run record and exits
  0, so the day is not run again; the heartbeat reports it as fine
  (`run_daily_pipeline.py:1714`). The pipeline's process has no time limit, and
  a restart re-arms the rerun override.

## 4. Proofs

Every safety property and action property of the runs is a theorem, for every
value of the constants that satisfies the named assumptions of the module:
finite sets of hotkeys, natural bounds, inputs of the declared shape, and where
a number matters the relation the code checks or documents (below). Type
correctness is a theorem of every module (`TypeCorrect`, `AllocTypeCorrect`,
`PoolTypeCorrect`, `ReleaseTypeCorrect`).

**ChronicFailureProofs.** `FieldSafe`: the floor is inductive only together
with the same statement about the copy in memory; `FloorKept` is the step of
one eviction by cardinalities. `EvictionBacked` and `LogAppendOnly` come from
`LogInv`: the log in memory extends the stored one while a fold goes on, and
each state has its line in the log beside it. `WindowSuffices` from
`WindowRead`: from the cutoff on, the log in memory misses nothing the stored
one has; it holds across deaths.
`StatesFollowTheLog` and `EvictionsEarned` come from one invariant,
`HistoryInv`: the log of each model, the observations and its state are `Sound`
together. Lines come in the order of their days, a model is out exactly when
its last move is an eviction, every eviction that stands had its strikes, and
the state counts from the last eviction that stands (`Dated`, `Agrees`,
`EarnedIn`, `Counts`). `Counts` needs a second case: a retraction can make a
state forget an earlier eviction, but only when all the strikes of a new one
except the last lie after it. Both hold wherever the process dies: a death
falls back on the stored history (`StoredInv`), which is sound outside the
second write whatever the one in memory (`HeldInv`) has come to; and at the
second write the two differ only in the models that the death adds to `torn`.
Of those it is still known that their lines are of observed days (`OnDays`),
which the next fold needs to begin no earlier than any line (`LoadFolds`).

**SettlementProofs.** `EntriesFollowMarks` from `Entering` (a row being entered
either still has its group in the queue or has its entry) and `EntriesCounted`
(each entry is accounted for by the mark, a death, or the run that has written
it and not marked it yet); `SettlementImplementsBook` step by
step, and `ReceiptsAreDisjoint` from the book alone; `MemoIsOnChain` and
`AnchorGrows` from "everything the chain names is published";
`DocumentsBindReceipts` from "when `bound` is set the day's receipt is whole and
lists the results". `AccuracyIsChained` goes by a weight: the days whose link is
broken or that the head has not reached, plus the days it has not reached. A
death between a document and the head adds two at most; a later document that
comes before such a day breaks no link that was not counted, and one that
passes it breaks one link and takes one day off (`ChainPublish`).

**AbsencePenaltyProofs.** `LogBacked` needs that between the two writes the
entries are ahead of the log by what is owed. `ChargesFair` goes through a
stronger statement: every charge ever made, cancelled or not, was and remains
deserved, because what is still to be run was not charged or belongs to a
latecomer, and what is still to be charged is deserved by the files as they
are. `OneChargePerDay` counts a hotkey's charges
of a day together with the one being made (`BeingCharged`) against the log and
the stops so far. `CancelledOnce`, `PredictionsStayLocked`.

**ChampionSeatProofs.** `HoldRespected` from `Streak`: the leader recorded in
state or memory led on each observed day of its streak. `NeverReigns`,
`LogTells`.

**MirrorSyncProofs.** `MirrorImplementsReplica`, step by step: a call that
stores something is a `Copy`, the record's write a `Learn`. It needs `Ordered`
(what is recorded or about to be is no newer than what the mirror serves, which
is no newer than what was issued) and `Confirming` (a pass confirms no less than
it found recorded). `RecordIsServed` is the abstract invariant, from `Ordered`.
`CleanPassServes` from `Accounted`: every document of the pass is still to be
sent, confirmed, or counted as bad.

The same module proves `ModelRelease`. `RuleHeld` says what the replay computes
for any records: a closed digest is closed since the first day it earned and
counts the recorded days since the last, a released one was due on the day of
its release, the seat and what it held are those of the last day with a champion
(`RuleHolds`). It is an induction over the days of a recursive function; the
induction theorems of the library cannot be instantiated here, so
`DayInduction` is proved for sets from the existence of a least day.
`ReleasesAreDue` and `SeatLossReleases` read it off, with no condition on
reruns or late baskets. `ReleasesStay` comes from `Firm`: a release of a day
before all that was written again (`redone`) stands in the ledger that day would
have of its own (`OnItsDay`), and no run that writes the ledger next ends before
it. It is inductive by two facts: a later replay keeps the releases of an
earlier one (`ReleasedStays`), and a replay reads only the records up to its day
and the baskets before it (`ReplayReads`), so what is written on a later day
leaves it alone (`StaysFirm`). The releases of the days written again are the
ones a new ledger may drop (section 3); `NothingClosedIsPublic` adds that an
image with a copy is released in the ledger or was released on such a day
(`recalled`).

**DailyPipelineProofs.** `DaysInOrder` from `Order`: what the pass has still to
catch up lies ahead of the day that runs, what is posted lies behind it, and a
day that is neither had its turn (`Ahead`, `Behind`, `Turns`, `Clear`).
`CanonicalStays` from `Chained`: the editions of a day's report form one chain.
`ReportIsOfServedVector` from `Carried`: until something fails, a vector that
pays is on the operator API in its latest edition, bar the one a pipeline is
about to post.

For `ModelPool`: `AdmissionsStay` from `Judged` (what was admitted keeps its
verdict, and no sweep gates it again); `WaitingIsServed` from `Remembered` (until
a step fails the record of last models names one for whoever delivered, and a
run serves all it names); `CountAgrees` from `Counted`, which says of each
entry what the deliveries up to the last folded basket say, and from
`FoldCounts`, one fold over any number of new baskets.

**RegistrationIndexProofs.** Everything is said by the blocks of entries. An
entry dated with a block knows the newest key up to it (`Fresh`), so it is
enough that the index has an entry as new as each registration behind the
checkpoint. The builder's memory has one for all it scanned, the file one up to
the checkpoint as far as the builder has come, and after it is written as new as
the memory's (`Held`). None of it depends on what the save read: a union keeps
whatever the memory has, and the sweep's writes either keep what is in the files
or end `sound`, so `IndexHasNoGap` holds for any interleaving of the reads and
writes, any pace and any kills. `NothingDropped` needs `Alone`: while the programs
have only run one after the other, what a save read is still what is in the file.

**WeightsProofs.** For `EpochScoring`: `RecordsComeInOrder` from `Trail` (a run
past a commit has landed it, past the weights unless it could not verify them); `ScoredOnceBarTheDelay` from `Unseen` (a checked
run before its first record has seen none of its epoch revealed);
`SpaceForAllRecords` from `Room` (what the run still has to land fits), which
needs that the budget the pre-flight asks for covers the records of a run
(`SizesAssumption`, `chain_reader.py:462`); `WeightsNeverGoBack` from `InSequence` (vectors in force,
encrypted and to come follow each other by epoch); `ValidatorStaysActive` from
`Fresh`: in every phase of the tick the age of the last update is below the
threshold, what the tools before and in the phase can have taken since the last
heartbeat (`Slack`, from their limits and `spent`), and a whole `Cycle` for every
fault so far. A heartbeat that finds the age above the threshold sends, one that
does not leaves it below, and one that fails uses up a fault; this needs a
threshold not below the chain's rate limit (`RateAssumption`, `heartbeat.py:13`).
That scoring fails or is killed in every tick costs nothing.

For `DailyAllocation`: `OneModelPaysOnce` from `Grouped` (two hotkeys with the
same predictions are members of one group) and `Dropped` (nobody in the running
is suppressed once copies are); `SetsKeepOne` and `HoldNeverEmpties` from lemmas
about the computation of a group and of what is restored, for any graph of
copies.

**Model-checked only.** The liveness properties `EventuallyCaughtUp`,
`EveryMeasuredRowEnters`, `EventuallyServed`, `EventuallyIndexed` and
`EventuallyRun`: fairness and ENABLED are out of the prover's reach.

## 5. Plan, and what is not modelled

Left for later, in this order: the loop of `daily_loop.py` as one module (its
steps are modelled where they act; `DailyPipeline` has settle as one outcome);
the miners' side of the weekly path (submission, archives, scoreability, and
the later verification by `scripts/verify_epoch.py`); concurrent intake sweeps
and the limit on digests per sweep.

Not modelled, and why:

- *Scoring formulas, standing means, copy distances*: real numbers without an
  order of events; a score is a member of a small set in the models.
- *Capture fold*: `stage_settle` passes no earnings provider, so the fold never
  receives earnings; the amounts are real numbers.
- *Sandbox, image pull, execution*: system calls and transfers; their outcome is
  the `Results` constant of `AbsencePenalty`.
- *Corpora, training bundles, documents rendered from other state, reports,
  protocol types*: no state that feeds back.
- *Merkle proofs, encodings, signatures*: injective in the models.
- *`EpochManager`*: nothing in the program instantiates it; only its computation
  of the weekly close is used.
- *HTTP services, reference miner, the older weight setter, tools*: handlers and
  scripts over stored documents.
- A log line cut off by a death (`standing_ledger.py:343`), supplements run by
  hand, entries ageing out after 35 days, the label backfill and the forecast
  relay beside the daemon.
