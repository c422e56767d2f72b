# Specifications and proofs for the Market Intelligence Engine

TLA+ models of `mie` (`src/src/mie`): its concurrent core, which collects bars,
announces them, raises alerts and keeps a ledger of forecasts, and the research
side, which computes what the forecasts rest on; the TLC runs that check them, and
TLAPS proofs of the most important properties for every value of the constants. Every
definition is translated from the Python source; the map in `PROJECT.json` names the
lines each one stands for.

Run a check with `tlc -workers 2 -config X.cfg M`, a proof with `tlapm M.tla`.

## 1. Inventory

`mie` collects OHLCV candles from several exchanges into one database, computes
features from them, and builds forecasts, alerts and reports on top. Everything
is asyncio in Python. There are no threads, but there are *several processes*
over one database: the service (`mie run`, `mie poll`), and the one-shot commands
`mie backfill`, `backfill-all`, `features`, `predict`, `learn`, `alerts`.
Inside a process tasks interleave at every `await`; between processes there is no
lock at all, only the upserts of the database.

| component | state it keeps | operations | used by |
|---|---|---|---|
| **providers** (`providers/`) | per provider: a circuit breaker (closed / open / half-open, failure count, moment of opening), a token bucket | `fetch_ohlcv`, `fetch_funding`, `fetch_open_interest`, `fetch_global_metrics`, `compare_sources` with priority-ordered failover | backfill, poller, service loops, concurrently |
| **candle storage** (`storage/`, `core/timeframes.py`) | OHLCV rows per instrument (source, asset) and grid position, provisional or final | `upsert_candles`, `fetch`, `fetch_recent`, `earliest_open_time`, `latest_open_time`, `missing_windows`, sessions that commit or roll back | everything |
| **historical backfill** (`ingestion/backfill.py`) | the plan, page cursor, page count and result of one run | plan the leading and trailing segment, fetch pages, validate, commit, verify coverage, report | commands, `backfill_all` |
| **live polling** (`ingestion/live.py`) | a `SeriesWatch` per series: next poll, last announced bar, failures | `tick`, `poll`, `_publish_closes`, `_reschedule` | service |
| **event bus** (`core/events.py`) | subscribers by topic | `publish` gathers the handlers and swallows what they raise | poller to feature engine |
| **feature engine** (`features/`) | a `FeatureSet` of recursive indicators per (source, asset, timeframe) | `warmup` from storage, `handle` a close, store a vector | bus subscriber |
| **ingestion service** (`ingestion/service.py`) | tasks | start features, start loops, backfill everything, stop | commands |
| **alerts** (`alerts/`) | a rate budget: deliveries of a day, last delivery per key and per scope, suppression counts, last digest | evaluate rules, `admit_all`, `pending_digest`, deliver to channels | `mie alerts` |
| **predictions and learning** (`learning/`, `PredictionRepository`) | append-only predictions with a content hash, outcomes, weights | `append`, `resolve`, `record_outcomes`, `upsert_weights` | `mie predict`, `mie learn` |
| **backtest** (`backtest/`) | none between calls | probe models for look-ahead, split into purged folds, score, screen | commands |
| **ensemble** (`ensemble/`) | calibrations fitted per regime | agreement, independence, pooling, confidence, abstention, the super-prediction gate | predict, alerts, API |
| **models** (`models/`) | none | eight families forecast from what is known at an instant; evaluation against a baseline | ensemble, backtest |
| **patterns** (`patterns/`) | stored statistics per series, pattern and horizon | detect, measure, correct for false discovery | models, `mie patterns` |
| **market state** (`state/`) | none | classify each timeframe, analyse the hierarchy | API, models |
| **data quality** (`quality/`) | quality events in the database | validate a page, score a series | backfill, poller |
| **news** (`news/`) | stories, what the engine remembers of them | fetch, cluster, find re-runs, classify, measure impact | commands |
| **API, CLI, configuration, benchmarks** | none | views and wiring | users |

### How the parts interact

    exchanges --HTTP--> providers --failover--> backfill  --upsert--> storage
                            |                                           ^  |
                            +--------------> live poller ---upsert------+  | fetch_recent
                                                  |                        v
                                                  +--candle.closed--> feature engine --> vectors
                                                      (event bus)
    storage --> rules --> alert budget --> channels
    storage --> models --> prediction ledger <--> resolver and weights
    storage --> pattern statistics --> models --> ensemble --> gate --> alerts
    storage --> folds, probe, evaluation, calibration (what the ensemble trusts)

### What is hard here

* **Concurrent callers of one breaker.** A breaker is consulted before an await
  and told of the result after it; any number of answers may be outstanding when
  it trips, and they come back in any order and in any of its states.
* **Two processes writing one series.** What is final is decided when a page is
  parsed, and written after an await; another process may have committed since.
* **Planning from what is stored.** A resume looks at two rows, the earliest and
  the latest, and infers everything between. Deaths, caps, empty pages, rejected
  bars and a poller that leaps a downtime all put holes there.
* **Announcing exactly once.** Poll windows overlap, commits fail, providers
  fail over, processes restart and forget what they announced.
* **Recursive indicator state.** One bar folded in twice, or out of order, is
  wrong for ever after, and warmup and announcement overlap after a restart.
* **Sliding windows and shared budgets.** Two counts (all, critical only) over
  two windows bound one volume; order inside a batch decides who is held.
* **Scoring from snapshots.** A learning run reads rows, then candles, decides,
  and decides again when it writes; rows may drift, bars may come late, other
  runs may have scored the same forecasts, and it may die at any point.
* **Never looking ahead.** A fold's training points have outcomes of their own, a
  calibration is applied to forecasts of any age, a model may read any table: one
  comparison that is not strict and a backtest is worthless.
* **Counting evidence once.** Neighbouring detections, overlapping inputs, stories
  an hour apart and slices of many models all look like more evidence than they are.
* **Saving up and retrying.** Callers sleep with the token bucket's lock in hand,
  may be cancelled there, and every retry is another request.

### What makes each part correct

* providers: the state of a circuit agrees with the failures on record; a dead
  provider costs boundedly many calls; failover skips no candidate silently; an
  outage ends.
* storage: only closed bars are final; final is for ever.
* backfill: terminates whatever a provider serves; reports what it did not get; apart
  from a death or a poll after a downtime, loses no slot unreported.
* poller, bus: closes arrive in order, once, after they are durable; the tail
  never falls silent.
* feature engine: bars are folded once and in order, no vector before a warmup.
* alerts: the ceiling is hard, batches are served most severe first, suppression
  is reported.
* providers, one exchange: in no stretch of time does a process send more than the
  burst and the rate.
* predictions: what was said and what came of it are for ever; only what was said
  is scored, from a bar at its horizon; marks agree with outcomes; every forecast
  is scored in the end; the evidence behind a weight is in the store, pair by pair.
* backtest, ensemble, models, patterns: nothing rests on its own future; clones
  count once; the family corrected is the family tested; samples are independent.
* data quality, market state, news: of several copies the last survives and gaps are
  exact; neither side is favoured; a re-run follows an earlier fetch.

## 2. Modules

| module | models | composed into |
|---|---|---|
| `CircuitBreaker` | `providers/base.py`, `CircuitBreaker`, as operators on one value | `ProviderManager` |
| `ProviderManager` | `providers/manager.py`: concurrent callers over shared breakers | |
| `CandleStore` | the rows of one series and the clock | the next five |
| `Backfill` | `ingestion/backfill.py`, one run at a time in a process of its own | `Ingestion` |
| `LivePoller` | `ingestion/live.py`, one watched series | `Ingestion`, `LivePipeline` |
| `Ingestion` | poller and backfill as two writers of one series | |
| `FeatureEngine` | `features/engine.py`, what is folded into which state | `LivePipeline` |
| `LivePipeline` | the service process: poller, bus, engine, restarts, other writers | |
| `CloseFeed` | abstract: what `candle.closed` promises its subscribers | implemented by `LivePipeline` |
| `AlertBudget` | `alerts/budget.py` and the runs of `alerts/engine.py` | |
| `PredictionLedger` | `mie predict` and `mie learn`, `learning/`, `PredictionRepository` | |
| `Throttle` | `providers/base.py`: token bucket and retries of one exchange | |
| `WeightLearning` | `learning/weights.py` and what `mie learn` stores with a weight | |
| `Validation` | `quality/validators.py` as the poller and the backfill call it | |
| `LeakageProbe`, `WalkForward` | `backtest/leakage.py`; `windows.py` and `harness.py` | the first is used by the second |
| `IsotonicFit`, `CalibrationLibrary` | `ensemble/calibration.py` | |
| `Ensemble`, `ShippedPanel` | agreement, pool, confidence and gate; the eight families of `models/predictors.py` before that gate | `Ensemble` is instantiated by `ShippedPanel` |
| `FalseDiscovery` | `benjamini_hochberg` of `patterns/statistics.py` | `Evaluation` |
| `Evaluation` | `models/evaluation.py` | |
| `Detectors`, `PatternScan` | `patterns/detectors.py`; the sample of a pattern | the first is used by the second |
| `Classifier`, `MarketState` | `state/classifier.py`; `state/hierarchy.py` and `engine.py` | the first is used by the second |
| `AlertRules` | `alerts/rules.py`, the refusals of `types.py`, and what a run of the engine raises before its budget | |
| `NewsStories`, `NewsImpact` | `news/engine.py` and `dedup.py`; `news/impact.py` | |
| `MCResearch` | the fifteen analyses above, one at work at a time | |
| `MC*` | constants for TLC | |
| `*_proofs` | the TLAPS proofs | |

An action is always the stretch of code between two awaits. That is exact for
asyncio: nothing else in the process runs in between, and what other processes do
reaches it only through the database, at an await.

### CircuitBreaker, ProviderManager

`breaker[p]` is `provider.breaker`; its `age` is the time since `opened_at`, cut
off at the cooldown, and `failures` is `consecutive_failures`, cut off at the
threshold: the code compares neither with anything beyond. `call[c]` is the
position of one asyncio task in the candidate loop of `fetch_ohlcv` (phase
`ohlcv`) or of the funding, open-interest and global-metrics fetches (`other`),
with the attempts it has recorded. `StartOhlcv` and `AnswerOhlcv` contain the
walk to the next candidate whose `allows()` is true, with the transition to
half-open that `allows()` makes; `AnswerOther` records nothing in the breaker, as
the code does not. `Abandon` is a cancellation or an exception the loop does not
catch. `Outage` is the world. `charged` is a history variable.

### CandleStore, Backfill, LivePoller, Ingestion

Time is counted in bars: slot *k* is the bar opening at the *k*-th grid position
and `now` the one still forming. `Upserted` is the conditional upsert
(`_upsert_ohlcv_chunk`): a final row is not replaced by a provisional one.

`job` is one run of `BackfillEngine.backfill`. `StartResume` and `StartAt` are
the planning (`_plan_segments`), for a resume, and for `force` or an explicit
start. The fetch ends in `FetchError`, `FetchEmpty`, `FetchRejected` or
`FetchBars`; `CommitPage` is the session's commit together with the cursor, the
page cap and the passage to the next segment; `Verify` is `_verify_coverage`.
`Abort` is the death of the process or a database error at any point.

`Overlooked` is what no resume will plan again: a slot without a final bar, above the
earliest row and below the latest final bar. Two history variables say how a slot got
there. `told` has what the code let its caller know, by the report of a finished run or
because the caller asked for a later start; `lost` what it buried without noticing, by
a run that died (`Abort`) or a poll whose tail began above stored history (`Leapt`).
`HolesAccountedFor` says that there is no third way. The report gives the number of the
missing slots, the outermost moments and the first twenty windows; that the database
may fail to keep it (`_record`) is left out.

`watch` is the `SeriesWatch`, its poll's position and what it holds between two
awaits. `PollStart` is `tick` finding it due; `PollFetched` the manager's answer,
parsed and validated; `PollCommitted` the commit and the part of
`_publish_closes` before its first await; `PublishNext` one publication, the last
of which reschedules. `PollerRestart` is a new process.

`Ingestion` interleaves both over one store. Its `Leapt` only feeds the history
variable: a poll's commit is what opens a hole after a downtime.

### FeatureEngine, LivePipeline, CloseFeed

A `FeatureSet` is the sequence of slots folded into it, since indicator values
are a function of that sequence. `Handle` is `handle()` with `update`, the refusal
of a bar that is not newer, the warm check and the store of the vector, which may
fail and is swallowed. `EngineStart` is `start_features`: only the provider of
top priority is warmed. `Publish` runs the handler inside the publication, as
`EventBus.publish` does. `BackfillElsewhere` is any other process.

### AlertBudget

`delivered` is `_delivered` with ages for moments; `sinceScope`, `sinceKey` and
`sinceDigest` are the ages of `_last_by_scope`, `_last_by_key` and `_last_digest`.
`run` is the batch being admitted. `Verdict` is the cascade of `admit`;
`Deliver` and `Hold` its two ends; `First` the order of `admit_all`; `FinishRun`
`pending_digest` and the admission of the digest. A key is delivered at most once
in a moment, because its deduplication window is at least one tick, so a set of
deliveries counts what the deque counts.

### PredictionLedger

Time is counted in the shortest unit, a timeframe is its length, and a forecast is
its timeframe and `as_of`. `said` is the claim a row's `content_hash` stands for,
`kept` what the row holds now; they differ once a row has drifted (`Corrupt`). An
outcome has its exit bar and the `resolved_at` the code stores, which is the opening of
that bar and one bar of the *forecast's* timeframe; `ScoredWithinOneBar` is about the bar.
`ReadHistory` is `_evaluation_contexts` with `build_contexts` and the choice of
the newest points; `AppendRecords` the append and its commit. A learn is four
stretches: `ReadRecords`, `ReadCandles` (of one timeframe for all records, as
`learn` does), `Measure` (`LearningLoop.run`, which resolves once and decides
whether to write) and `Commit` (which resolves again, at a later moment, from the
same snapshots). `Resolved` is `OutcomeResolver.resolve`, `Covering` and `Latest`
are `_bar_covering`. The hash covers what the forecast claims and not
`resolves_at` or `reference_price`; a drift of those two is not modelled.

### Throttle, WeightLearning, Validation

`bucket` is the `TokenBucket` in parts of a token, with the moments of all requests
that left as history; `line` is the queue of its lock, held over the sleep.
`requests` is the attempt each caller of `_get` is at. `Request`, `Send`,
`SleepForToken`, `Answer`, `Pause`, `Retry`, `GiveUp` are the stretches of `_get`
and `acquire` between awaits; `CancelRequest` may come in any of them.

`learned` holds the rows said and scored, the stored weights, and one run with what
it read. The run resolves when it learns and again when it writes, at a later moment,
both times from candles of the timeframe it was called with (`CandleLengths`). A
stored outcome comes back as `_row_to_outcome` makes it (`Rebuilt`): its instant is its
`resolved_at` less the horizon, and by that instant it is paired with the baseline's.
A weight carries the pairs of points it was measured on, for the property alone.

`Validated` is `CandleValidator.validate`: reject, sort, keep the last copy, flag
gaps, moves, outliers, flat and stale runs against the context its two callers load.
The gap report lists the first `ReportedRuns` runs (20 in the code).
`ValidatePoll` and `ValidatePage` are these callers over a small market whose
answers hold at most one defect (a copy, a missing bar, an impossible bar, a swap).

### Walk-forward, calibration, ensemble, evaluation

`study` goes through `StartStudy` (the probe, `Screen`), `RunFold` or `SkipFold` for
each fold, and `Report`, which excludes what is too good. A model is its appetite:
the tables it reads, how far beyond the instant, which of them it *heeds* (its forecast
moves by more than the probe's tolerance when they are corrupted) and where it raises
instead of answering; `Verdict` runs the experiment of the probe on it, corruption
after and before included, over the bars where it answers.

`fit` is the pool of adjacent violators, one merge per step (`Pool`) and one pushed
level (`PushLevel`). `library` is a `CalibrationLibrary`: fitted on rows in any order,
then asked.

`ensemble` hears its members one by one, then decides; `panel` does the same for
the eight families as they ship. Both use the operators of `Ensemble`:
`Independence`, the pool, `Agreement`, the confidence product and the gate.
`evaluation` lets models speak or fail at each point and then judges all slices
with `Significant`.

### Patterns, market state, alerts, news

`Detectors` translates all detectors with the lengths of their windows as
parameters; `PatternScan` moves a detector over the history and thins its hits.
`Classifier` turns a feature vector into four group votes and their pool;
`MarketState` reads timeframes slowest first and computes bias, agreement,
alignment, regime and confidence. `AlertRules` is one run of the engine: contexts
gathered, eleven rules evaluated, a refused claim caught.
`NewsStories` fetches while feeds slide and fail, clusters by weighted overlap of
headlines, and flags re-runs; `NewsImpact` picks the stories counted and their bars.

`MCResearch` gives each of these a variable of its own, and lets one of them work
per behaviour: they share no state in the code, and one run shows all of them.

## 3. Runs

| run | constants | shows |
|---|---|---|
| `provider_manager` (pass) | 2 providers, 2 callers, threshold 2, cooldown 1 | breakers consistent under answers in any order (`ClosedBelowThreshold`), bounded cost of a dead provider (`WastedCallsBounded`), no silent skip (`EveryCandidateAccounted`), recovery (`PrimaryRecovers`) |
| `ingestion` (pass) | 1 source, 4 slots, pages of 2, cap of 2 pages, lookback 2, gaps in the pages of a backfill and none in the polls' answers | `OnlyClosedBarsFinal`, `FinalIsForever`, `EveryPageAdvances`, `HolesAccountedFor`, `HonestReport` |
| `up_to_date` (violation) | 1 source, 4 slots, pages of 1, complete answers | an interrupted leading segment is never finished |
| `live_pipeline` (pass) | 2 sources, 4 slots, lookback 2, warmup 2 | the feed implements `CloseFeed`, `FoldedOnceInOrder`, `VectorsHaveHistory` |
| `keeps_up` (pass) | 1 source, 5 slots, fairness | every close, or a later one, is announced |
| `every_close` (violation) | 1 source, 4 slots, lookback 3 | a bar healed by a later poll is never announced |
| `alert_budget` (pass) | 3 routine and 2 critical alerts, budgets 1 and 2, reserves 1 and 2, windows of 1 to 3 ticks | `HardCeiling`, `NoInversion`, `HeldIsReported` |
| `ledger` (pass) | 1 predictor, 2 learners, timeframes 1 and 2, 2 claims, one late bar in each timeframe, one row that may drift | `LedgerIsAppendOnly`, `ResolvedIffScored`, `ScoredAsSaid`, `ScoredWithinOneBar` |
| `scored_in_the_end` (pass) | the same, 1 learner, fairness | a forecast whose bar is stored is scored in the end |
| `written_before` (violation) | the same, no fairness | a recorded forecast has its outcome behind it |
| `analysis` (pass) | below | the seventeen properties of `MCResearch` |
| `super_follows` (violation) | 4 independent members, 3 to agree | a super prediction may point against the majority that admits it |

The properties of `analysis`:

| property | says |
|---|---|
| `NothingFromTheTest` | when a fold is tested, the outcome of all it was fitted on has been known for longer than the embargo |
| `LeakersAreNotScored` | a model that reads nothing beyond its instant where it was tested is not condemned; one that visibly heeds what is ahead there is in no result; one that nothing moved is listed as untestable, never passed over as clean |
| `ExactIsotonicFit` | the merges reach the least-squares non-decreasing curve (min-max definition), whatever their order and weights |
| `OnlyThePastCalibrates` | a curve is applied only to forecasts made after every forecast it was fitted on |
| `ClonesCountOnce` | a majority is worth no more than the different inputs behind it |
| `AgreementTakesAllSeven` | as shipped, six independent votes of eight take all seven families that can speak |
| `CorrectedAsOneFamily` | the winners are the largest set that controls the rate over all slices of all models |
| `ThinnedIsBestSample` | kept windows do not overlap, and no larger choice would |
| `TailIsEnough` | a detection does not depend on how much history is loaded |
| `EvidenceIsStored` | both outcomes of every pair behind a stored weight can be read again, and are of one point as long as all were resolved from candles of the forecasts' timeframe |
| `SurvivorsAreTheLastCopies`, `GapsAreExact` | of each time the last acceptable copy survives, in order; the gap report counts what is missing, spans it, and lists the first of its maximal runs |
| `FavoursNeitherSide` | with the sign of every score turned, bias and alignment turn too, agreement and confidence stay |
| `RefusalSilencesNothingElse` | a refused claim takes no other rule's alerts with it |
| `RateKept` | in no stretch of time does a process send an exchange more than burst and refill |
| `RerunsWereToldBefore` | what is flagged a re-run is of an id whose story broke long after another one told of in an earlier fetch |
| `NoBarCountsTwice` | no two counted stories share a bar of what followed them |

Each passing property has a mutant of the code model in the module (named
"Mutant of ...") under which the same run finds it violated.

### Bounds, and why they are enough

* Two callers and a threshold of two: a call can outlive the opening of the
  circuit, a probe can be out together with an older call, and a success and a
  failure can arrive in either order. Two providers make failover and "one hides
  the other" possible. The theorems lift the bounds for the safety properties.
* Four slots with pages of two: history before and behind a page boundary, a
  leading and a trailing segment in one plan, a hole of one bar, and a downtime
  longer than the lookback. The page cap of two is met in the middle of the second
  segment. Polls with gaps of their own are checked in `live_pipeline`; in
  `ingestion` a poll leaves holes by failing and by coming late. `MaxSlot` bounds
  the clock; where the clock stops the system may stop with it, so these runs do
  not check for deadlock.
* Five slots for `keeps_up`: room for a missed poll, a restart and two later
  closes. At the last slot a poll "due in the next bar" is due in the same one,
  which stands for all later bars.
* Budgets of one and two, windows of one, two and three ticks: ordinary budget
  and reserve can be used up separately and together, in one window and not in
  the other, and every window slides past a delivery. A day three times the hour
  is enough for both windows to disagree.
* Four units of stored history and four more of clock: two long forecasts, of
  which one falls due; its bar may be missing in its own timeframe, in the shorter
  one, in both or in neither. Two learners, so that one commits between any two
  steps of the other, over other candles. The learners and the claims are
  symmetric. `RecordsLimit` is not reached: beyond it the newest forecasts are
  never read, and with the limit at one `ScoredInTheEnd` fails (a consequence of
  `records()` reading the oldest rows first).
* `analysis`: histories of 12 and 13 bars in up to three folds, horizons short and
  longer than a fold, with and without warm-up; models that read nothing, the
  right tables, bars or vectors ahead. Four levels of up to two forecasts, so that
  one merge opens another with unequal weights. Three scored rows in two regimes
  over two instants, in every order. Four members, two of which read the same and
  one part of what another reads. Two models in two regimes with p-values on both
  sides of the rate's steps. Nine bars whose last may rise, fall or turn, over
  detector windows of one to eight. Situations with each source there, half there
  or absent. Three points, three stored outcomes read at most, candles of the
  forecasts' length and of twice it. Five slots of a market that leaps, pages of
  three, and room for one run in a gap report, so that a second is left out. Every
  reading of three ranks (market state). Two requesters, a burst of two, a pause
  or none. Three articles over two feeds, one of them undated: a story, its
  rewrite, and a headline that both may draw in; three stories on bars of one and
  two hours.

### Fairness

* `ProviderManager`: time passes; every await ends, because `_get` has a timeout
  and a bounded number of retries; pollers ask for candles again and again (each
  `tick`), of the whole candidate list; a caller is not cancelled every time it
  happens to await the primary (strong fairness on that answer).
* `LivePipeline`: the clock runs; the run loop comes round (`asyncio.sleep`,
  bounded backoff) and awaits end; fetches, commits and processes may fail any
  number of times but not *always*: strong fairness on a full answer, on its
  commit and on its announcement. Nothing is assumed of restarts.
* `PredictionLedger`: time passes; `learn` is run again and again for every
  timeframe in use, and runs may die but not all at one and the same step. That
  is the operator's schedule, not the code's: nothing in it runs `learn` by itself.
* `AlertBudget`: time passes between runs, and the engine is run again; a run
  itself has no await before its decisions are made.

## 4. Proofs

All by TLAPS, with no step left open, in eight modules, from the named `ASSUME`s of
the modules, which TLC evaluates in the passing runs. Every safety invariant and
every action property of the passing runs is a theorem: TLC shows it on the
small instance of section 3, the theorem for every value of the constants.

### The concurrent core

* `ProviderManager_proofs`: `TypeCorrect`, `ClosedMeansFewFailures`,
  `OutageCostsLittle`, `NobodyIsSkipped`, for every number of providers and callers,
  every threshold and cooldown. `ClosedBelowThreshold` is inductive only together with
  a bound of the charge by the count (`Sound`): a closed circuit has been charged
  no more than it has counted. `WastedCallsBounded` needs the cardinality of the
  callers in flight, which a step changes by at most one; the lemmas about one
  breaker are stated on a value and applied to each provider.
  `EveryCandidateAccounted` speaks of a finished request; what makes it true is known
  at every step of an unfinished one (`Failover`): each provider before the position
  reached has answered and failed, or was passed over with its circuit open.
* `Ingestion_proofs`: `ClosedBarsOnly`, `FinalForever`, `PagesAdvance`,
  `NothingElseIsLost`, `ReportsAreHonest` for any sources, depths, page sizes and
  lookbacks. That only closed bars are final is not inductive: the bars were parsed
  before the commit. The strengthening says that what a run or a poll *holds* as
  final has closed (`JobHeld`, `PollHeld`); the clock only makes that truer. The
  other three rest on `RunInv`: a run's segments are in order and end by now, its cursor
  lies in the first, and it has fetched no more pages than bars lie behind it.
  Holes need more: whatever is buried once the window of the run under way counts as
  stored is accounted for (`AccountedFor`), and what lies below that window is final, told
  or has a final bar above it already (`Surveyed`), so that no page buries it; the report
  or a death then hands the window to `told` or `lost`, and a poll adds what it buries.
* `AlertBudget_proofs`: `BudgetTyped`, `CeilingIsHard`, `MostSevereFirst`,
  `NothingElseIsSilenced` for any alerts, budgets, reserves and windows. The ceiling
  is not inductive: a critical alert may be admitted although the budget is full. What
  makes it work is a second bound (`Bounded`): alerts that may not use the reserve never
  exceed the ordinary budget, and critical ones beyond it never exceed the reserve.
  `NoInversion` rests on `InOrder`: what remains of a batch is no more severe than
  what was decided, and once a budget is full it stays full for the rest of the
  batch, while only alerts of the highest level go out.
* `PredictionLedger_proofs`: `LedgerTyped`, `AppendOnly`, `MarksAgree`,
  `OnlyWhatWasSaid`, `NearTheHorizon`, for any timeframes, horizons, settling
  times and number of learners. A run scores from snapshots, so the invariant says
  that what it holds stays true: its records are what was said (`Faithful`, kept
  because no row is written twice) and its bars have closed (`Closed`). That the
  exit bar exists, the `CHOOSE` of `Latest`, needs that a bounded set of naturals
  has a greatest element (`LatestIsOne`, from well-foundedness).
* `LivePipeline_proofs`: `PipelineTyped`, `FoldsHistoryOnce`, `VectorsAreWarm` and the
  refinement `ImplementsFeed`, for any sources, lookbacks and warmups. A close is followed from
  the answer to the indicators: what a poll has queued is final in the store,
  ascending, and later than all that was announced (`Queued`), and the watermark
  carries that order to the next poll (`Watermarked`); so `Publish` is an
  announcement of `CloseFeed`, a commit makes bars final, and the rest stutters. The queue is
  an ascending enumeration of a set; that every finite set has one is proved from
  the well-foundedness of strict inclusion by way of a smallest counterexample,
  which needs no operator as a parameter.

### What comes in

`Intake_proofs`:

* `RateIsKept`, for every burst, refill and number of callers. `RateKept` speaks of
  pairs of past requests; what bounds the next one is `Afforded`: what left since any
  request and what the bucket holds are together no more than the burst and what
  came back since.
* `LastCopiesSurvive`, `GapReportsAreExact`, for any batch over any market. The work
  is in the operators: the place at which a sort by counting puts a bar (its rank)
  is different for each time and leaves no place free, each missing bar lies
  in one run, and the runs with the first ranks are those a report has room for.
* `RerunsFollowEarlierFetches`, from `KnownWereTold`: whatever the engine remembers, with
  the time of its first article, it has told of in an earlier fetch. Whether the two
  stories are one is not claimed (section 5).

### Forecasts and research

`Forecast_proofs`:

* `EvidenceIsKept`, from `EvidenceAtHand`: what a run learned from is at any time
  stored or still due to be recorded by it. An outcome resolved from candles of the
  forecasts' length gets its own instant back (`RebuiltInPlace`), so two of them with one
  instant are of one point (`SameFactor`); of other candles the theorem says nothing.
* `ClonesAreOneOpinion`: the code divides each vote by the number of votes that share
  its inputs, so a class of clones is worth at most one and what rounding adds, one
  unit of `One` for each member. That is less than a second opinion because there are
  fewer members than `One` (10,000), which `PanelAssumption` states.
* `SevenMustAgree`, for the eight families in every situation.
* `BestSampleIsKept`: thinning is greedy. Every hit has a kept one less than a horizon before
  it, so what any spaced choice takes maps one-to-one into what thinning keeps.
* `RecentBarsSuffice`: each detector reads slices that end with the last bar; moving a
  slice by the bars cut off in front moves the places and not the values. It
  needs that the windows nest as the code's do (`SpanAssumption`).
* `FitIsExact`, from `FitInv`: of the blocks pooled so far no beginning of a block is worth
  less than the whole, and all but the last two are in order. From that, each block has the
  value of the min-max definition of the isotonic regression, for any weights.
* `UpOrDown`: with the sign of every score turned, each reading is the same or
  opposite, so the sums, the quotients (rounded towards nought, as the code's are
  symmetric), the pools and the bias are; regime and confidence do not look at the
  sign.
* Sums are folds over sets. That they may be taken in any order is `SumWithout`, shown
  by a smallest counterexample (`SmallerFirst`).

`Research_proofs`:

* `FoldsAreSound` for every study, with horizon and embargo between. `LeakersStayOut`:
  behind every probed bar another has closed, so what heeds a bar ahead meets the
  corruption, and who only reads what is known at its instant meets none. How far a
  forecast moves is a datum of the model: one that moves by less than the tolerance heeds
  nothing, in the model as in the code.
* `StepUpIsLargest`, that the code's step-up from the largest p-value is the largest
  set of tests consistent with the rate; `OneFamily` rests on it.
* `CalibratesFromThePast`, from the fact that rows are sorted before they are cut
  and that a fitted prefix lies at or before its recorded end. It compares the instants of
  forecasts; the outcome of a row may be known only a horizon after its instant.
* `BarsCountOnce`: moments a horizon apart are rounded up to grid hours that are at least
  as many whole bars apart as the horizon holds, and on a grid without holes hours are indices.

### Only model-checked

* Liveness (`PrimaryRecovers`, `KeepsUp`, `HeldIsReported`, `ScoredInTheEnd`): TLAPS
  does not reach fairness and ENABLED.
* The disagreements of section 5, each by a counterexample of its run.
* The types of the analyses, as far as the theorems above do not need them. The
  type invariants of the core are theorems (`TypeCorrect`, `BudgetTyped`, `LedgerTyped`,
  `PipelineTyped`); those of store and backfill are parts of `IInv` and `RunInv`.

The library's induction theorems take an operator as a parameter, which no installed
prover instantiates. The proofs use minimal counterexamples over sets of naturals and over
finite sets in their place, so the modules use folds and recursive functions, no
`RECURSIVE` operator.

## 5. Disagreements found

With a run that shows them:

1. `up_to_date`: a resume whose leading segment was interrupted sees the earliest
   row at the new depth and takes the series for complete
   (`ingestion/backfill.py:279`).
2. `every_close`: a bar missing from one answer and healed by the overlap of the
   next is stored as final but never announced (`ingestion/live.py:240`), so no
   feature vector is computed for it.
3. `written_before`: forecasts are "written before the outcome exists"
   (`cli.py:1560`), but the points come from `build_contexts`
   (`models/runner.py:182`), which stops one horizon before the newest bar.
4. `super_follows`: the gate counts the votes of all members, the published
   direction is that of the skilled ones, and nothing compares the two
   (`ensemble/gate.py:100` against `ARCHITECTURE.md:266`).

Met while reading, without a run:

* "one probe then decides whether to close it again" (`providers/base.py:102`), but
  every concurrent caller is admitted while the circuit is half-open (`:123`). The
  model has this, and `WastedCallsBounded` counts it.
* The allowance "beyond the ordinary budget" (`alerts/budget.py:84`) is also charged
  for critical alerts within it (`:230`).
* `service.py:13` says that a crashing loop is restarted; `_supervise` (`:194`)
  logs it.
* `mie news` builds a new engine in each process, so nothing it fetches is ever a
  re-run of an earlier one (`cli.py:975`, `news/engine.py:46`).
* A story's id is the headline of its first article; when that leaves the feed, the
  same story gets another id ("the same story recovers the same id",
  `news/dedup.py:332`). The upsert "keeps the *earliest* publication time"
  (`storage/repositories.py:1135`), where the code keeps the one stored first.
* Stories are thinned by publication time (`news/impact.py:353`): with bars missing,
  or longer than the horizon, two of them are measured from one bar.
* "the whole sweep is corrected for multiple comparisons" (`cli.py:773`), "across the
  whole family at once" (`patterns/evaluation.py:18`), but `evaluate` corrects the tests of
  one series, and the command calls it series by series.
* "the latest measurement always wins. Keeping stale statistics would let a finding that
  a later fix invalidated go on influencing predictions" (`repositories.py:1060`), but a
  test for which a later sweep finds too few outcomes keeps its earlier row and verdict.
* A leading segment ends at the earliest row, final or not (`ingestion/backfill.py:290`,
  `earliest_open_time`), so a provisional row left at the bottom of a series is never
  fetched again; and a poll after a downtime longer than its tail leaves a gap no resume
  plans, since the trailing segment starts at the newest bar. The code notices neither;
  `HolesAccountedFor` has them in `lost`.
* "Dropped rather than scored against a different sample" (`learning/weights.py:191`), but
  the instant by which a stored outcome finds its baseline is rebuilt from `resolved_at`
  (`cli.py:1752`), which is the opening of the exit bar and a bar of the *forecast's*
  timeframe (`learning/loop.py:117`). When `learn` is called with candles of another
  timeframe (the default is `1h`), the rebuilt instants shift, and an outcome may be
  dropped or paired with the baseline of another point. `EvidenceIsStored` is therefore
  conditional on the candles, and `WeightLearning` has the shift.
* The calibration library compares instants of forecasts (`ensemble/calibration.py:340`):
  a row's outcome may still be open when the curve fitted on it is applied.
* The rate limit of an exchange is kept per process (`providers/base.py:60`): the service
  and the commands have a bucket each.
* A second falsified call on one asset has the title of the first and is held as its
  duplicate (`alerts/rules.py:448`).
* `outcomes()` and `records()` read the oldest rows up to their limit
  (`learning/weights.py:51`, `repositories.py:1310`).
* The alignment may be `aligned_bullish` while the bias is negative
  (`state/types.py:134`).
* The look-ahead probe corrupts bars and vectors that open after the instant; a
  vector that opens at it, and news, are not corrupted (`backtest/leakage.py:16`).

## 6. Not modelled

* Floating-point arithmetic of indicators, levels, proportion tests, scores, metrics
  and the models' formulas: TLC cannot check it, and it has no state between calls.
  What is decided with the numbers is modelled, over small whole ones.
* Prices in the concurrent core. No property there depends on one; which bar a
  value comes from is kept.
* HTTP parsing of the exchanges and feeds: an awaited request ends in a verdict.
* Classification of news texts, and the table of stories.
* What `mie patterns` stores, and the channels, severities and titles of alerts.
* Analogue search (`patterns/similarity.py`) and sequences of patterns.
* The instrument cache (`storage/repositories.py:132`), whose ids outlive a rolled back
  transaction, and `delete_range`.
* The service's derivatives, global-metrics and quality loops, the offline feature
  backfill, the survivorship report of `backtest/universe.py`.
* API, CLI output, configuration and benchmarks: views and wiring.
* Several learners over one set of weights, and several assets or models in one
  ledger, which share no row.

## 7. Plan

Done: provider manager and throttle, ingestion of one series, live pipeline and its
refinement, alert budget and rules, prediction ledger and weights, and the research
side. What would come next:

1. An abstract ledger (said once, scored once) and an abstract store of one series
   (final bars only grow), each shown to be implemented as `CloseFeed` is.
2. Two learning processes over one set of weights.
3. Storage sessions: the instrument cache and rollback.
4. The remaining loops of the service and their supervision.
5. Alerts across processes, with deliveries that fail.
