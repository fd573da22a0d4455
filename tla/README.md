# SentientMarkets API: TLA+ models, model checks and proofs

SentientMarkets computes a sentiment score for every ticker of a universe of
some five hundred US stocks, every half hour (twice that in market hours), and
serves it over HTTP. The code is one Python process on asyncio: APScheduler
starts the ingestion jobs and the scoring tick, FastAPI answers requests,
PostgreSQL keeps what must survive and Redis what is current. Offline tools
rewrite or extend the history. This directory models the parts of that system in
which order, failure, time and concurrency decide whether it is correct.

Contents: [the system](#the-system), [modules](#modules),
[how the modules correspond to the code](#how-the-modules-correspond-to-the-code),
[the runs](#the-runs), [disagreements](#disagreements-between-code-and-documentation),
[the proofs](#the-proofs), [what is not modelled](#what-is-not-modelled), [plan](#plan).

## The system

| Component | State | Operations | Talks to |
|---|---|---|---|
| Job schedule (`pipeline/scheduler.py`, bottom half) | triggers and running jobs in memory; `pipeline:last_start:*`, `pipeline:last_run:*` in Redis | start, skip, time out and record a run of one of 11 jobs | every job; health probe through Redis |
| Scoring tick (`pipeline/scheduler.py`, `pipeline/orchestrator.py`, `pipeline/persistence/`) | a semaphore and a `results` dict per run; `sentiment:{ticker}`, percentiles, overview, tick summary in Redis; `sentiment_history`, `price_snapshots`, provenance and weights in PostgreSQL | score each active ticker, write Redis then PostgreSQL, publish percentiles and summary | reads raw signals and articles, and its own last output |
| Layers and formulas (`pipeline/scoring`, `pipeline/features`, `pipeline/confidence`) | none; the fallback reads the previous state | sub-indices, composite, divergence cap, EMA, confidence, staleness by trading calendar | called by the tick and the replay |
| Market ingestion (`pipeline/sources/market.py`, `raw_signals` queries) | `raw_signals` rows keyed by ticker, type, timestamp and value | download bars, compute returns from stored closes, insert without duplicates | Yahoo; read by scoring, with an optional as-of time |
| News: ingestion, clustering, FinBERT, backfill (`pipeline/sources/narrative.py`, `pipeline/nlp`, `scripts/backfill/news_backfill.py`) | `raw_articles` with hash, cluster and score columns; the backfill's progress file | insert once per hash, cluster the last 48 h, score in batches of 500; fetch, score and cluster a past window; repair, sweep the backlog | news providers; read by the narrative layer; the two writers share the table |
| Other ingestion (`pipeline/sources/`: influencer, macro, options, short volume) | `raw_signals` | fetch, derive, insert | providers through the guarded client |
| HTTP client (`pipeline/rate_limits.py`) | a semaphore per provider | GET with pacing, retries and back-off | all sources |
| Retention (`raw_signals`, `raw_articles`, `sentiment_history`) | the three tables | seven independent steps a night: deletions, blanking of texts, compaction of drivers in batches | rows that scoring and serving still read |
| Universe (`scripts/tools/update_universe.py`, `universe` queries) | `ticker_universe`, archive files | retire, add, flag, remove rows of retired symbols, delete keys | every job loads the active tickers |
| Request quotas (`api/rate_limit.py`) | one counter with an expiry per bucket in Redis | count, admit, refuse, fail open | API, demo-key endpoint, health probe |
| API keys (`api/auth.py`, `api_keys` queries) | `api_keys` rows; the tier cached in Redis for 60 s | authenticate, mint, extend, revoke, prune | every request |
| Health probe (`api/routes/pipeline_health.py`) | none | compare the age of the recorded runs with limits and deadlines | Redis |
| API responses (`api/response`, `api/routes`, `pipeline/scoring/market_overview.py`) | none | read state, percentile, cross-section and history of a ticker; the market overview | Redis first, PostgreSQL as fallback |
| Score replay (`scripts/backfill/replay_scores.py`) | the last state of each ticker in memory; tagged rows in `sentiment_history` | score a gap tick by tick, resume | PostgreSQL, as of past times |
| Reconstruction (`scripts/backfill/rebuild_narrative.py`, `reconstruct_signals.py`) | archive files; rows of both tables | rescore the rows of a news outage; rebuild market-derived signals from bars, with `--replace` | rows that the live system wrote |
| Other backfills, research, operator tools | files and tables | one-off rewrites, exports, statistics | |

What is hard about it:

- **Partial failure.** A score is written to two stores, one after the other,
  and a run publishes five further keys. Any write may fail, hang or be cancelled by
  one of two nested `wait_for`, and a cancelled write may still have taken effect.
- **State that outlives its writer.** The next score continues the EMA chain
  found in Redis. That key expires, can be lost, and can be newer than the
  newest row of the table.
- **Time.** Runs are dropped while an earlier one is still going; limits of
  staleness must hold over two seasons, early closes, holidays and weekends.
- **Caches.** A tier cached after it was revoked; a counter with no expiry; a
  cached lookup that does not renew what it stands for.
- **Resumption.** The replay is run again after failures for a different set
  of tickers, over rows that other runs and the live system wrote.
- **Two writers.** The news backfill runs beside the live job. Both read, run a model for
  minutes and write what they concluded, with statements that do not look
  whether the row has changed.
- **Rows that tie.** All closes of one date carry the same timestamp, so that the
  order of writing decides which price history reads.
- **Values that are copied.** A layer without fresh rows is carried over from the
  previous state, tick after tick. What counts as fresh changes at the open and at
  the close, in tables that were set one by one.
- **One score in many forms.** State, row, state made of a row, answer, entry of the
  history, with `None`, 0 and "missing" told apart in some of them and not in others.
- **A universe that changes** under jobs that have loaded it, and rows that offline tools
  replace after archiving them, or believing that they did.

What makes each component correct is stated by the properties below. The full
list of hazards with their source lines, and the property that covers each, is in
`PROJECT.json`.

## Modules

| Module | What it is |
|---|---|
| `ScoreLedger` | abstract specification of what the pipeline promises about a ticker's scores |
| `ScoringTick` | one scoring tick with its concurrent workers; implements `ScoreLedger` |
| `MCScoringTick` | small instances of it |
| `ScoringTick_proofs` | invariants and refinement, proved |
| `RateLimiter` | the shared fixed-window counter |
| `ApiKeys`, `MCApiKeys` | one key, its row, its cached tier and concurrent lookups |
| `Access_proofs` | proofs about these two |
| `ReplayScores`, `MCReplayScores`, `ReplayScores_proofs` | the offline replay and its resumption |
| `JobHealth` | the schedule of eight jobs and the verdict of `/health/pipeline` |
| `MarketCloses`, `MarketCloses_proofs` | the closes of a ticker: download, insert, and the reads of history |
| `NewsArticles`, `MCNewsArticles`, `NewsArticles_proofs` | the news of a ticker: narrative_job, the backfill, the blanking of texts, and the article that speaks for a cluster |
| `LayerFallback`, `LayerFallback_proofs` | the four layers of a ticker, tick after tick: rows or the previous state |
| `ScoreFormulas` | composite, divergence cap, smoothing, confidence |
| `ScoreHonesty` | what a reader of the composite relies on, as properties of `ScoreFormulas` |
| `SignalScorers` | from the raw values of a layer to its sub-index and the drivers |
| `MCLayerFallback` | an instance of `LayerFallback`, and the formulas of `ScoreFormulas` and `SignalScorers` over grids |
| `Universe` | `ticker_universe`, its queries and the plan of `update_universe.py` |
| `ServedScores`, `ServedScores_proofs` | a request, the jobs and a run of `update_universe.py` beside one another; extends `Universe`. The proofs are also about `CrossSection`, `AnswerFormats` and `ScoreLedger` |
| `CrossSection` | percentiles, in the universe and in sectors |
| `MarketOverview` | overview and summary; extends `CrossSection` |
| `AnswerFormats`, `AnswersAlike` | the forms that one score takes on its way to a client; what a client relies on when it meets several |
| `MCServedScores` | an instance of these six |
| `UpstreamCalls` | `guarded_get`, its semaphore and the runs of the fetch jobs |
| `MarketFormulas` | RSI, returns, spread and order flow from prices, and what these promise. The proofs are in `LayerFallback_proofs`, which scores these values |
| `SourceFormulas` | what every source makes of a provider's answer; extends `MarketFormulas` |
| `Retention` | the seven steps of `retention_job` |
| `MCUpstreamCalls` | an instance of `UpstreamCalls`, `SourceFormulas` and `Retention` |
| `UpstreamCalls_proofs` | proofs about `UpstreamCalls` and `Retention` |
| `NarrativeRebuild` | what `rebuild_narrative.py` computes, beside the tick that it imitates |
| `SignalRebuild` | what `reconstruct_signals.py` computes; uses `SourceFormulas` |
| `NarrativeRuns`, `SignalSwap` | the runs of the two tools: archives, transactions, interruptions |
| `OfflineTools` | the two of them together. An instance is in `MCReplayScores`, the proofs in `ReplayScores_proofs` |

`JobHealth`, `MarketCloses` and `RateLimiter` have few enough parameters that a
configuration gives the values directly, without an MC module. Four MC modules hold
several questions. There a behaviour is about one of them (variable `about` or
`input`), chosen in the initial state, so that their state spaces add up and do not
multiply. A question about a pure function takes an input and no steps.

## How the modules correspond to the code

Definitions keep the names of the code where they can; `PROJECT.json` maps each to
its lines. A definition whose comment starts with "Fault:" is a mutated form of
one after it: substituting it must break the property it is paired with. No
other definition uses one.

**ScoringTick.** A run goes through `stage`: `starting` (`_record_start`),
`scoring` (`_score_all`), `stats` (`_publish_universe_stats`), `summary`
(`_publish_tick_summary`), `record` (`_record_run`). Each loaded ticker has a worker
with a `phase`: waiting for `_SCORE_SEM`, `writing` to Redis, `persisting` to
PostgreSQL, then done or skipped. The time a worker takes (`now` in
`compute_scored_state`) and its read of the previous state are one step with getting
the permit. That is sound because nothing else writes a ticker's key with a state:
`max_instances=1` allows one run, and `asyncio.wait_for` awaits a cancelled
worker before it returns. `ScoreFails`, `TickerTimeout`, `JobTimeout` and `Crash` stop one
worker or all of them, and a call cut off in flight may or may not have taken
effect. A state is reduced to when it was computed (`at`), its `ema_obs_count` (`n`)
and the time of the cold start that its chain goes back to (`seed`, which the code
does not store: it names the chain). The scores themselves are not needed to state any of
the properties. The `sentiment_history` row and the `price_snapshots` row are
committed together, in one transaction.

**RateLimiter.** The Lua script is one atomic step. A request is remembered by its
age, the age of its window and its rank, which is enough to say what happened within the
last `Window` ticks without a clock. `FailOpen` covers an outage and a lost answer, after
the script ran or before. `LimiterInit` admits any counter without expiry, as a deploy from
before the script could leave one.

**ApiKeys.** A lookup takes three calls (`CacheMiss`, `ReadRow`, `Fill`), and everything
else may happen between them. `lastValid`, `accepted` and `promised` are history
variables: when the row was last valid, when a request last went through, and
when one last went through with Redis answering.

**ReplayScores.** A row is its tick, the tick it continues and the run that wrote it.
`StartRun` takes any set of tickers, so a resumed run may be asked for others than the
first. `Kill` and `WorkerFails` leave inserts in flight that may have taken effect.

**JobHealth.** One job per behaviour, in units of five minutes, with the real triggers,
ceilings, limits, graces and deadlines of the code as tables. The day kinds follow one another
in any order, which includes every real calendar. A season is fixed per behaviour, so
a change of clocks within a behaviour is not covered.

**MarketCloses.** The bar of a day shows prices while it is open and its closing price
afterwards. `Download` may return the previous session's bar, as the provider does before the
open. `Store` computes the return since the last session that has a close and inserts the bar;
`ret` keeps the newest return, with the two sessions and the two prices it compares. `Abandon` is a run that
failed, was cut off or killed with the bar in hand.

**NewsArticles.** An article is a URL with a time, a relevance and a language; that two
titles are similar and close in time is the constant relation `Near`, and
`cluster_members` is the partition of a pool into the parts that `Near` connects. A row
has three columns that change (`scored`, `cluster`, `blank`). narrative_job goes through
`fetch`, `cluster` and `score`, and holds between them the groups or the batch that it
has read. The backfill goes through `read` (FinBERT runs, then the pool is read),
`insert`, `repair`, `assign`, `backlog` and `batch`, which are the statements that
change the table. In the pool an article may appear twice, fetched and stored, if the live
job has inserted it in the meantime: `Groups` takes those as an argument, since
such a pair alone makes a group. A `uuid4` is written as the writer and the
group. A unit of time is longer than a run of narrative_job, whose ceiling is 50
minutes (`late`).

**LayerFallback.** A row is a kind and a timestamp. A kind is one signal type, or a class
of articles (scored or not, relevant or not), and of each kind only the newest row matters.
A tick is one call of `_compute_scored_state`: the windows, the rule of each signal
(`SignalAge`), the fallback to `last` with its `as_of`, and the flags of staleness
less what is suppressed. `data` is a history variable beside `as_of`, which the code
does not store: the oldest row that the layer really stands on. Trading sessions
are a constant set of openings and closings, and the thresholds of the three tables
are constants. Weights by age are abstract. The first bar of a session is also the price that the
influencer layer compares targets with, so its row is heard by two layers (`Arrive`).
`ThresholdAssumption` says how the tables must fit together for a lost layer not to come
back by itself; the values in `pipeline/confidence/staleness.py` (lines 53, 104 and from 247 on) do.

**ScoreFormulas, SignalScorers.** Scores are integers and quotients stay pairs. S-curves are
straight lines with the same neutral point, direction and limits. A history is a short
sequence, and the z-score is compared without taking the root. The keys under which the
histories are found are the code's: `_MACRO_`, the sector's ETF, the ticker. One price stands
for the close that analyst targets are compared with.

**Universe, ServedScores, CrossSection, MarketOverview.** The table is a function. A run of the tool goes
through plan, archive, the transaction and the deletion of keys, and may stop between any two.
A request takes one step per `await`, and every read may fail. The scores of the followed
symbol move as `ScoreLedger` allows, which is the specification that `ScoringTick` is
proved to implement: a published state, then its row (`ScoresMoveAsPublished`). A job is the set of tickers it loaded,
and `wrote` is how far it has come with the followed one: a job records the state that it published itself.
`Snapshots` is what a behaviour starts from: migration 015 adds the columns of retirement
empty, and only the tool writes them; a successor trades, since no file of changes of the
repository has a chain of successors. `Spec` starts from any such table, `MCSpec` from some.
`CrossSection` and `MarketOverview` work on partial functions from tickers to integers, and round percentages to tenths as
Python does, ties to even: below 2000 tickers every tie is exact in floating point. Where the code sorts
equal scores stably, the order is arbitrary.

**AnswerFormats, AnswersAlike.** A value that may be `None` is a set of at most one element, so that
Python's `or` and an explicit check for `None` are two operators. Scores are in half points,
which is what `int(round(...))` decides. The baselines of the changes are read by one query when a tick starts
(`asked`), before any ticker of it is scored, and that query may fail, which leaves every change empty
(`Baselines`). No key of the table forbids two rows of one ticker and time, so that
`get_baseline_scores` gives every answer that the query may have.

**UpstreamCalls.** A fetch is waiting for the semaphore, in flight, holding it after an answer,
backing off without it, or inserting. The semaphore is first come, first served, as asyncio's
is. `Timeout` cancels all fetches of a job wherever they are, and `Without` is the queue that is left.
A retry's pause has any length. A fetch is a task of its own, which belongs to one job
(`UpstreamAssumption`).

**MarketFormulas, SourceFormulas.** One operator per source, from the answers of the provider, of which each may
be missing or malformed, to the rows that are stored. Ratios are pairs of integers. Wilder's averages are
kept whole, multiplied by a power of the period, so that nothing is rounded; the power is a recursive function, as
is the power of two of the EMA in `ScoreFormulas`.

**Retention.** One row of any kind is followed from the day it was written, and a piece of
`sentiment_history` through the batches of the compaction, while the tick inserts. Steps
fail independently, and the run may be cut short between two. `Readers` lists who reads which
rows and how far back, from the code of the readers.

**NarrativeRebuild.** What a formula computes is represented by its arguments: a sub-index
is the articles and the time it is made of, a smoothed score the chain of what went into
it. Two values are equal when the code computes them from the same data. The
tick and the tool are both translated, each from its own code. Times are in hours.

**SignalRebuild.** Times are in quarter hours of UTC, and the season decides at which hour a
session closes. The hourly and the daily bars of a market are inputs.

**NarrativeRuns, SignalSwap.** The tools as state machines: an archive file, the sidecar that says it is
complete, and one transaction per ticker. A run may end between any two steps, and a transaction may fail. What
is computed does not matter to what is overwritten, so `Rescore` is a constant operator; the run gives it the one of
`NarrativeRebuild`. Of the signals one type stands for those that `--replace` rebuilds, one for those
that it leaves, and one for that of the sector ETF. `covers` is a history variable: the tickers an archive was made for.

## The runs

Each passing run checks one type invariant and properties that take several steps,
mostly of several actors, to break. Every property is paired in `PROJECT.json` with
a plausible bug in one mapped definition that breaks it under the same configuration.

| Run | Checks | Bounds |
|---|---|---|
| `tick_publish` | `RedisNotBehindHistory`, `ChainsAreOrdered`, `ReportsAreBacked`, `SnapshotsMatchHistory`, `ImplementsLedger` | 2 tickers, one of them with a price, 1 permit, ticker limit 1, job limit 2, key lifetime 2, runs start up to time 2 |
| `tick_ends` | `TickEnds` under `FairSpec` | 2 tickers, job limit 2, one run |
| `limiter_quota` | `TwiceTheLimit`, `RefusalsAreEarned`, `ServedAgain` under `FairSpec` | limit 3, window 4 |
| `keys_live` | `RevocationTakesEffect`, `ActiveKeysLive` | 2 requests (interchangeable), key lifetime 4, cache 2, lookup 1, times up to 8 |
| `replay_resume` | `NoRowTwice`, `ChainsAreStored`, `CleanRunFillsTheGap`; `RebuildIsFaithful`; `OriginalsAreSafe` | 2 tickers, one with a row before the gap, 3 ticks, concurrency 1, 3 runs of each tool; outages of 2 rows and up to 12 articles; 8 weeks of daily bars, of which 2 sessions by hours or quarters; 230 000 states |
| `health_schedule` | `AlarmsAreEarned`, `FailuresAreReported` | none on the schedule; failures counted up to 10; 1.7 million states |
| `closes_sessions` | `ReturnsSpanCloses`, `NewFinalCloseIsRead` | 3 prices, 3 days of 4 slots; 22 million states |
| `news_live` | `ClustersAreEvents`, `ClusterIsFinal`, `BackfillScores`, `UsableNewsIsHeard`, `NewsIsScored` under `FairSpec` | 3 articles of one event at 3 times, batches of 1, 2 runs of the backfill, 2 units of time |
| `layers_carry` | `ValuesRunOut`, `StaleStaysMissing`, `AbsenceIsChargedOnce`; `ScoreIsHonest`, `SignalsKeepTheirDirection`, `DriversAreStrongest` | 24 half hours over two sessions of 4 and a day off, six feeds; 4 layers over 7 scores or none, histories of up to 3 values, 3 signals; 250 000 states |
| `serving` | `UniverseIsConsistent`, `AnswersAreCurrent`, `RetiredStaySilent`; `OverviewIsConsistent`, `AnswersAgree` | 3 symbols, times 1 to 3, 2 runs of the tool, 1 with requests; boards of up to 4 tickers, 2 sectors; 5.2 million states |
| `upstream` | `RequestsAreGuarded`, `EveryRunEnds` under `Fairness`; `RetentionIsExact`; `ValuesAreSound` | 3 fetches of 2 jobs, 1 permit, 2 retries after 429; 370 days, 5 rows in batches of 2; grids of answers for 8 sources; 0.9 million states |
| `closes_final` (violation) | see [below](#disagreements-between-code-and-documentation) | 3 prices, 2 days of 4 slots |

Why the bounds are enough:

- *Scoring tick.* Two tickers and one permit make workers compete and let one time out
  while another waits. A job limit above the ticker limit lets a run outlive a
  worker and end at its ceiling. Two runs with a key lifetime of two units give a
  second run that continues, one that starts cold after a loss, and percentiles
  that are left over from the first. What longer sequences of runs do to chains,
  reports and the ledger is covered by the proofs, which hold for all constants.
- *Limiter.* The window is longer than the limit, so a full quota can be spent inside one
  window and again over its boundary; the counter saturates just past the limit, where
  all values behave alike. The state space has no clock and no bound on time.
- *Keys.* The lifetime of a key is two cache lifetimes and the clock runs for two key
  lifetimes: a key can be extended, expire between two cache misses and be
  pruned. Two requests suffice for one that races with another's fill; the proof
  covers any number.
- *Replay.* Three ticks with two tickers let a run skip a tick for one ticker and not for
  the other, in the middle of the gap; three runs allow a failure, a partial resume
  and a clean one.
- *Health.* The schedule is not scaled down. The largest limit of failures in a row
  is 7, below the bound of 10. `CHECK_DEADLOCK` is left on: the clock never stops.
- *News.* Three reports in a chain make a group that only the middle one connects, so that
  what a writer did not read changes the groups it forms. One is of unknown
  relevance and one in another language. A batch of one lets the oldest starve the
  others if it can. Two runs of the backfill allow a failed or partial one to
  be repeated. All windows (live, backfill, pad, retention) cut the three times
  differently.
- *Closes.* Three days give a session to pass over, one whose final bar comes late or never, and the
  current one; three slots a day give a price before the close that returns, changes or equals the final one.
- *Layers.* The calendar has the end of a session, a day off, a session, and the day
  after. Every threshold is reached and passed within it, in a session and outside
  of one. The proofs hold for any calendar. The grids of `ScoreIsHonest` hold the
  boundaries of the divergence cap (29, 30, 85, 86) and the ends of the scale.
- *Serving.* The followed symbol is the one that retires, its heir, or one that is
  there to stay; requests race with one run of the tool and one job. A day of two units
  lets the baseline of a 1-day change be too young, right and too old, and the newest row lie inside
  and outside the window of a history; a score comes 0 or 1 units after the tick has asked for its baseline. Four tickers are one
  more than `MIN_SECTOR_SIZE` and enough for two sectors, ties and both ends of the movers.
- *Upstream.* Three fetches on one permit make a queue in which two jobs interleave, and a
  cancelled fetch may be waiting, in flight, holding or backing off. A year is longer than
  the longest retention; five rows make two full batches and one of a single row.
- *Rebuilding.* The articles lie on both sides of the ends of the windows (24 h, 72 h, 14
  days); ten or eleven articles are on both sides of the least baseline. Two ticks 6 or 7
  hours apart let the fallback accept or refuse what is carried.
  The bars have gaps at the start and at the end of a session and are quarters or hours.

`CHECK_DEADLOCK FALSE` is set where the bounded clock, or the bounded number of
runs, ends a behaviour.

**Fairness.** `ScoringTick!FairSpec` assumes that the clock runs and that asyncio
serves the timers of `wait_for`, and nothing else: no call is assumed to return,
since the Redis client has no socket timeout. `TickEnds` is therefore a statement
about the ceilings. `Pass` does not let time go by while a due timer is
unserved, which is what an event loop that is not blocked does. `RateLimiter!FairSpec`
assumes that time passes and that the refused client keeps asking, which is the hard
case: its own refused requests still increment the counter. `NewsArticles!FairSpec` assumes that
the scheduler starts narrative_job again and that a run which is not cut off goes on; that
FinBERT and the writes succeed from some moment on is the premise of `NewsIsScored`, not
an assumption, and time need not pass. `UpstreamCalls!Fairness` assumes that the event loop goes on with
whatever can go on, that an answer or the client's own timeout (httpx has one) ends a request, and that the clock
advances; it does not assume that a job's ceiling ever strikes, so `EveryRunEnds` is about the semaphore and
the retries. The other modules state safety only, under no fairness.

What `JobHealth` assumes: `AlarmsAreEarned` is stated for runs that take no longer than
usual (15 minutes for a tick, 40 for the influencer job, from the comments beside the
tables, and the ceiling where no comment gives a duration). `FailuresAreReported` says
after how many failures in a row the probe must see them: 7 for the scoring tick
(every 15 to 30 minutes against a limit of 75 outside market hours), 5 for news, 4 for
the market job, 2 for influencer and macro jobs, 1 for the jobs of the close.

## Disagreements between code and documentation

`closes_final` finds a counterexample to something that the repository says of itself; the
sentence is quoted in `PROJECT.json`. The final close is skipped by `insert_signals` when it
equals a price that an earlier run had stored for the open bar, and the last intraday price
remains the "latest written". `NewFinalCloseIsRead` is what does hold.

Noted while modelling, without a run of their own. Each follows from the lines that are
named, and where a model is nearby, the model has the behaviour of the code.

*Jobs and health.*
- A provider outage is swallowed before it reaches the jobs' counts (`pipeline/scheduler.py:422`; an
  empty batch counts as fetched, and a skipped request is a `None` like any other), so that a run that obtained
  nothing is recorded as a success and the probe stays `ok`. `FailuresAreReported` is about runs that fail.
- `_with_timeout` awaits `_record_start` before it enters `wait_for` (`pipeline/scheduler.py:1065`), so that the
  "hard ceiling per job run" does not cover a SET that never returns; `TickEnds` speaks
  of runs that have been entered.
- `job_counters` is one for the process although it is "reset at the start of each scheduler job"
  (`pipeline/rate_limits.py:84`): jobs that overlap reset and share each other's counts.
- A request that timed out holds the semaphore for 50 ms instead of the provider's pacing.
- `retention_job` records a success even if all of its seven steps failed (`pipeline/scheduler.py:934`).

*Scores.*
- `ema_obs_count` restarts at 1 when the Redis key was lost or expired
  (`pipeline/orchestrator.py:515`), although `pipeline/scoring/ema.py:25` says that it never resets.
- The percentiles of an earlier tick stay, for their lifetime, after a tick that scored
  nobody (`pipeline/scheduler.py:352`), although the docstring four lines above promises none for absent tickers.
- The docstring of `compute_percentiles` gives the highest score 100.0; with a tie at the top it
  is less.
- `pg_writer` chooses the score of a row with `or`: a raw composite of exactly 0 is replaced
  by the smoothed one, and when that is 0 too the row is refused (`pipeline/persistence/pg_writer.py:109`). The assembler, on the same
  value, has an "explicit None-check so a legitimate 0.0 isn't skipped" (`api/response/assembler.py:200`),
  and `tests/test_pg_writer_zero.py:2` is there to "verify that 0.0 values are persisted, not replaced by
  fallbacks". `history_row_from_state` has the behaviour of the code, and
  `FormsAgree` claims nothing of such a score.
- The baseline of a 1-day change is 24 to 48 hours older than the start of the tick and not, as a reader of
  the field would expect, than the score: for a ticker that waited long for its permit the span is longer by the
  wait. `ChangeIsShown` says so.
- The z-score window of 90 observations never fills for a daily macro series, whose rows are kept for 90 days.
- The 90 minutes of rows that the market layer reads in a session cover, says `pipeline/confidence/staleness.py:424`,
  "the longest per-signal threshold"; that of short volume reaches
  to the previous close, so that no row of it is read in a session.

*Sources.*
- A chain with one strike at the money has a "skew", of that strike with itself. Flat closes give an RSI of 100.
- Two insider transactions of one day with equal amounts are one row, and one without an amount is
  stored as a change of 0 (`pipeline/sources/influencer.py:98`).
- What a source takes for no answer differs: a VIX of 0 is none for Finnhub (`pipeline/sources/macro.py:113`)
  but is stored from yfinance and, being the text "0.0000", from Alpha Vantage. A VIX or a target price that
  yfinance gives as NaN is stored (`pipeline/sources/macro.py:88`; at `pipeline/sources/influencer.py:175` NaN is not
  at or below 0), and hides what the next source would have answered; only the earnings estimate is
  checked for NaN. `ValuesAreSound` says where it may occur. The scorers skip a current value that is NaN, but not one
  in a history: every z-score over it is at its upper bound, since `min(3.0, nan)` is 3.0
  (`pipeline/features/normalize.py:276`). The histories of `SignalScorers` hold numbers only.
- When the consolidated short-volume file is late, sums of the TRF files are stored, and the file adds a second
  row for the day.
- A row dated before it was written is visible to a replay of a tick at which it did not exist
  (`scripts/db/queries/raw_signals.py:224`): for a daily bar the timestamp is its date, so that a
  replay of a tick at noon reads the close of that evening, whereas the docstring of
  `replay_scores.py` says "so nothing after t leaks in".
- Clustering compares unclustered articles only (`pipeline/nlp/dedup.py:142`). A report that
  arrives after its siblings got their id stays without one, and counts as a second event
  (`docs/DATA_DICTIONARY.md:124` says otherwise). For the same reason a repeated backfill, which a comment
  calls idempotent (`scripts/backfill/news_backfill.py:279`), is so in rows and scores but not in ids.

*API.*
- A lookup that read a key's row just before its revocation caches the tier for 60 s after
  it (`api/auth.py:58`), so that the documented 60 s is exceeded by the duration of one lookup,
  which is why `RevocationTakesEffect` allows for `LookupLimit`.
- An error of the database in the fallback is answered "insufficient_data", as if there were no rows.
- Drivers that retention has compacted are left out of an answer that is made of a row.

*Offline tools.*
- A resumed replay skips a stored tick without moving its in-memory state on to
  it (`scripts/backfill/replay_scores.py:196`), so that the ticker's next row continues an older
  one than the chain its header describes; `ChainsAreStored` is what does hold.
- The second run of `update_universe.py` writes over the archive of the first, an aborted
  one too; and what is inserted between its SELECT and its DELETE is deleted without having been
  "archived first". Rows that the 21:15 job derives on the last trading day are removed
  with what was written after it.
- `reconstruct_signals.py --replace` takes an archive of the window for its own, whichever tickers it
  was made for, although it promises to copy "every row --replace will delete"; and for
  a ticker whose bars give no rows, or a sector ETF without bars, it deletes what was there and inserts none.
- `get_universe_as_of` refuses an empty universe with an error, so that a tool asked for a time before the
  seed stops before it has done anything; the model's query returns the empty set.
- `rebuild_narrative.py --archive-only` after a rebuild replaces the archived originals. A
  rebuilt row without a narrative layer has the flag of stale news beside it, which the
  live tick suppresses, and with few signals it counts those of the news only: both understate
  the confidence, and `RebuildIsFaithful` says no more than that it is never overstated.

## The proofs

All theorems hold for every value of the constants that the named assumptions of the
modules admit (`TickAssumption`, `LimiterAssumption`, `KeyAssumption`,
`ReplayAssumption`, `ClosesAssumption`, `NewsAssumption`, `LayerAssumption`, `CalendarAssumption`,
`ThresholdAssumption`, `UniverseAssumption`, `ServingAssumption`, `UpstreamAssumption`,
`RetentionAssumption`, `EtfIsNoEquity`); the runs evaluate those on their instances. Nothing else is assumed.
`CrossSectionAssumption` is met by any smallest sector, and `OverviewAssumption` belongs to a module that is only model-checked.

| Theorem | Statement |
|---|---|
| `ScoringTick_proofs!TypeCorrect` | `Spec => []TypeOK`, with one worker per loaded ticker and the semaphore's bound |
| `...!RedisLeads` | `Spec => []RedisNotBehindHistory` |
| `...!ChainsOrdered` | `Spec => []ChainsAreOrdered` |
| `...!LedgerImplemented` | `Spec => ImplementsLedger` |
| `...!ReportsBacked` | `Spec => []ReportsAreBacked`: percentiles, run record and tick summary are backed by committed rows |
| `...!SnapshotsMatched` | `Spec => []SnapshotsMatchHistory` |
| `Access_proofs!CounterTypeCorrect`, `BurstBounded` | the types of the counter, and `LimiterSpec => []TwiceTheLimit` |
| `Access_proofs!RefusalsEarned` | `LimiterSpec => RefusalsAreEarned`, an action property |
| `Access_proofs!KeyTypeCorrect`, `RevocationBounded`, `DemoKeysLive` | the types of a key, `Spec => []RevocationTakesEffect`, `Spec => []ActiveKeysLive` |
| `ReplayScores_proofs!TypeCorrect`, `ResumeIsIdempotent`, `ChainsStored`, `CleanRunComplete` | the types and the first three invariants of `replay_resume` |
| `ReplayScores_proofs!OverwrittenSafely` | `ToolsSpec(F) => []OriginalsAreSafe`, for any rows, tickers, articles and any function that rebuilds rows |
| `MarketCloses_proofs!TypeCorrect`, `StoredOnce`, `ReturnsSpan`, `NewClosesAreRead` | the types, no close stored twice, and the two invariants of `closes_sessions` |
| `NewsArticles_proofs!TypeCorrect`, `IdsStandForEvents`, `CompletedFillsAreScored` | the types, `Spec => []ClustersAreEvents`, `Spec => []BackfillScores` |
| `NewsArticles_proofs!IdsAreFinal` | `Spec => ClusterIsFinal`, an action property |
| `NewsArticles_proofs!EventsAreHeard` | `Spec => []UsableNewsIsHeard` |
| `LayerFallback_proofs!LayersTyped`, `LayersRunOut`, `AbsenceChargedOnce` | the types, `Spec => []ValuesRunOut`, `Spec => []AbsenceIsChargedOnce`, for any calendar, windows and thresholds |
| `LayerFallback_proofs!LostLayersStay` | `Spec => StaleStaysMissing`, an action property |
| `LayerFallback_proofs!CapOnlyLowers` | for any sub-indices, the cap only lowers the composite and the redistribution of weights stays on the scale |
| `LayerFallback_proofs!ScoresAreHonest` | `ScoreIsHonest`, for any sub-indices, any two scores and any division of the time between two ticks |
| `LayerFallback_proofs!MarketValuesAreSound` | what `ValuesAreSound` says of RSI, returns, spread and order flow, for any prices, any quote and bar, and any period of at least 2 |
| `ServedScores_proofs!UniverseConsistent`, `AnswersStayCurrent`, `SilentForGood` | `Spec => []UniverseIsConsistent`, `Spec => []AnswersAreCurrent`, `Spec => []RetiredStaySilent` |
| `...!RanksAgree` | `RanksOrder(raw, sector_map, exo)`, the first part of `OverviewIsConsistent`, for any scores of up to 1000 tickers and any sectors |
| `...!SameInEveryForm`, `ChangesAreShown` | the two parts of `AnswersAgree`: `FormsAgree(c, baseline)` for any computation and baseline, `ChangeIsShown` for any table of rows with scores, any time of the query before the score, and a query that fails |
| `...!AnswersAlwaysAgree` | `AnswersAgree`, for any computation with a time and any finite table |
| `...!ScoresMoveAsPublished` | `Spec => Ledger!Init /\ [][Ledger!Next \/ Withdraw]_vars`: the served scores make the moves of `ScoreLedger`; beside them only the tool takes out rows, of a symbol that belongs to another company |
| `UpstreamCalls_proofs!CallsGuarded` | `CallsSpec => []RequestsAreGuarded`, for any jobs, fetches, permits, retries and delay |
| `UpstreamCalls_proofs!RetentionExact` | `RetentionSpec => []RetentionIsExact`, for any ages, sizes and failures |

The arguments:

- **ScoringTick.** None of the safety properties is inductive alone. The invariant adds
  where each worker's state comes from: while a worker is writing, its state is the
  successor of what Redis held when it took its permit and newer than it; while it
  is persisting, its state is what Redis holds. From that follow `RedisLeads` and
  `ChainsOrdered`: a new row is newer than every row of the ticker and either
  continues the newest chain or starts one later than all rows. The refinement is the same
  case split, step by step: a SET publishes, a COMMIT records, and an abandoned run does
  one or the other for each ticker. The semaphore's bound is
  counted with the cardinality lemmas of `FiniteSetTheorems`. The reports rest on a
  second invariant: every ticker in `results` has a row between the start of the run
  and now. `SnapshotsMatched` needs only that the two tables are written together.
- **RateLimiter.** Requests counted in the last `Window` ticks fall into at most two fixed
  windows and have different ranks in each. The invariant says so, and
  `BurstBounded` maps them injectively into `1 .. 2 * Limit`. For `RefusalsEarned` the ranks
  of the current window are moreover taken from the first, none left out (`RanksTaken`), so that
  a counter past the limit has admitted `Limit` requests that are still remembered.
- **ApiKeys.** The cache entry and every lookup that has read a valid row are bounded by
  the last time at which the row was valid: a lookup by `LookupLimit`, an entry by that and
  `CacheTTL`. `DemoKeysLive` is about what the row promises to whoever has read it: every
  valid read, cached tier and accepted request is covered by the expiry as long as the row is there,
  and by the clock once it is pruned (`PromisesCovered`).
- **ReplayScores.** During a run each stored row was there when the run started, has its tick
  behind the run, or was written in the current tick by a worker that has ended. So no
  waiting worker has a row of the tick, and a tick that is behind a clean run is filled.
- **The two tools.** `KeptInv`: the rows of a ticker are the originals or rebuilt from the originals, and so is what the
  archive has of it. It is inductive because a ticker all of whose rows are rebuilt is skipped, so that what a run loads
  is original, and because an archive, once there, stays. `SwapInv`: until there is a sidecar
  nothing has been replaced, so that the first complete archive is one of originals; from then on an original that is
  not in the table is in the archive or of a ticker that it was not made for. A ticker's derived rows in the window are
  replaced together, by as many rebuilt ones as there are, or none, so that originals and rebuilt rows are never mixed. `ToolsSpec` interleaves both
  tools; a behaviour of the run follows one of them.
- **Induction without its theorem.** The library's induction theorems take an operator, which the
  installed provers cannot instantiate. What is needed is derived from the well-foundedness of proper
  inclusion of finite sets. A finite set has a greatest element (the newest row, the leading article, the last
  id of a batch), since the set of what lies above an element shrinks with it (`GreatestOf`, `Greatest`). From that
  follows induction for sets of numbers, `InductionOnNat`, used with a set of those for which the claim holds; and
  from induction that a recursive function has the values its equation gives, `RecursionOnNat`, since any two
  of its beginnings agree. That is enough for powers of two and Wilder's averages; sums over sets and `SelectSeq`,
  which are operators of the libraries, stay out of reach.
- **MarketCloses.** A row shows a price from before the close or is the last row of its date.
  That is inductive together with: a bar that was downloaded while it was open is
  stored before any bar of the same date that is final, because a run holds one bar
  at a time; and a final close, once stored, stays in the table. For `ReturnsSpan` the invariant adds what becomes of the newest
  return when the rows change behind it (`ReturnInv`): any later store into the session it starts from, which a
  late bar of the previous day may be, or into one between, is followed by the return it computes itself,
  unless that session is the first.

- **NewsArticles.** The groups a writer holds are connected and disjoint (two parts of one
  pool that meet are the same), which gives `IdsStandForEvents`. For `IdsAreFinal` the
  invariant `Overlap` says what a stale read is still good for: an article in a held group
  has remained without an id or lies where the windows of the two writers overlap.
  It rests on the bound on a run's duration. `CompletedFillsAreScored` follows how far
  a run has brought what it fetched: known or about to be inserted, in the table,
  repaired, and after the last empty read of the backlog scored or blanked. `EventsAreHeard`
  needs that outranking is a strict order on the rivals of an article, whose leader is at least
  as relevant as every one of them.

- **LayerFallback.** The invariant is `Backed`: whenever the copied `as_of` is good enough for the
  fallback, the data behind it are not much older. For the market layer that is a
  statement about closes: an `as_of` from the last stretch of a session stands on data of the same stretch or
  of the market's lookback before it. The lemmas on the calendar (`LastClose`, `FreshAfterClose`, `ClosesAreOver`,
  `CloseInWindow`) say what a session that ends does to what was fresh; they need that a session is
  no shorter than the grace before its close and that the time from a close to the next opening is longer than
  the market's threshold (`CalendarAssumption`). For `AbsenceChargedOnce` the lookbacks of the fallback are at most
  the thresholds of the flags, which `LayerAssumption` states and the code's tables satisfy.
  `LostLayersStay` says that the clock alone makes no row usable: what was too old, or outside its
  window, stays so over the opening and the close of a session (`NoneReturns`). That is where
  `ThresholdAssumption` is needed.

- **The formulas.** That the composite lies among its layers is a matter of signs: redistributed weights are
  multiplied by a common denominator, and the cap replaces the composite by a smaller number that is still at least the
  smallest layer (`CautionHolds`). A tick leaves of the distance to the raw score one part in a power of two, and powers of two multiply
  over a division of the time, so that `EmaIsCadenceFree` is an equation of fractions (`CadenceFree`).
- **RSI and returns.** A raised close changes the last change only, and Wilder's average of the gains rises with it while that of the
  losses falls (`AverageMoves`, `RiseRaises`). Mirrored prices exchange gains and losses (`SameAverages`), and the two
  RSIs add up to 100 unless both averages are 0; that they are not, once any price has moved, needs
  a period of at least 2, since with a period of 1 the average forgets all changes but the last (`MovesCount`). The code calls with 14.
  Returns over one day and four compound to one over five by cross-multiplication.

- **ServedScores.** Three invariants, one on top of the other. `UniverseInv`: the columns of
  retirement say what the snapshot says and lie in the past; whoever was active at a past time is in the
  table from no later than then; and until its transaction a plan is the one that would be made
  now. `AnswerInv`: Redis leads the rows, and a state that is not recorded yet is newer than all
  of them; the two hashes are of one run; and what a request holds is no older than what there was when it
  came in. From the first of them follows `ScoresMoveAsPublished` as well (`LedgerMoves`, `StepLedger`): `ScoringTick` implements
  `ScoreLedger`, and `ServedScores` assumes no more of the tick than that, which is how the two fit together. `SilenceInv`: after a calm run no job has loaded the retired symbol, and the deletion has taken every kind
  of row that its queries select.

- **CrossSection and AnswerFormats.** Percentiles are ordered as the numbers of tickers below (`LowerRank`, on cardinalities),
  and a rounded share is off by half a tenth at most (`TenthsNear`), so that two neighbouring ranks stay apart
  while they are more than a tenth of a percent apart, up to 1000 tickers; from there on they may share a percentile,
  and `PercentilesRank` still says that none is out of order. The forms of a score are compared field by field
  from the one row that a computation leaves (`RowOfState`), and the baseline of a change is one of the newest rows that were
  old enough when the tick asked, by `LatestOf`, as in `AnswerInv`. A history of any window and grouping starts with
  the newest row if that lies in the window (`HistoryStarts`) and is empty if not (`HistoryEmpty`).

- **UpstreamCalls.** The invariant counts. Permits are free or held (`PermitsAdd`); the queue names every
  fetch that waits, once (`QueueNamesWaiters`); the fetches of a run that is over are idle; what the
  provider has counted in this unit of time is still held for the whole delay (`SpendingHeld`), from which the quota
  follows, since who holds a permit is one of at most `Permits`; and the answers of a request are the
  retries it has used plus the one it waits to judge (`Budgets`). A cancelled run takes its
  fetches out of all four counts at once.

- **Retention.** A step deletes nothing that a reader still needs, by the days of each (`DeletedAreOld`).
  `ClearedSoFar` says what the steps behind a run without a failure have cleared, and `CompactSoFar` up to which id its
  batches have compacted; rows that are inserted meanwhile come behind the id up to which the run has to go.
  Unlike in the run, a row has any age, the table any size and a batch any number of rows.

Some definitions changed because of the proofs. `LostLayersStay` was false: a first bar of a session
also makes the influencer layer usable, which `Arrive` did not say. And `AnswersStayCurrent` met
a job that recorded the state of an earlier one, which the code does not do (`wrote`). `Timeout`
had been written with `SelectSeq`, about which nothing can be proved without induction over
sequences; `Without` says the same by the places of what stays. In `compute_percentiles` a tie had been
rounded up, where Python rounds to even (6.25 becomes 6.2); `tenths` does the latter, and the shares of the
overview, which had been cut off, are rounded by it too.

Only model-checked:

- the liveness properties `TickEnds`, `ServedAgain`, `NewsIsScored` and `EveryRunEnds`: liveness under
  fairness is out of reach of the prover;
- `AlarmsAreEarned` and `FailuresAreReported`: their content is the concrete tables of the schedule, and TLC
  goes through all of it at full scale;
- `SignalsKeepTheirDirection` and `DriversAreStrongest`: sums of squares over histories, and a sort that is stable in TLC and
  in Python, whereas the definition of `SortSeq` says nothing about elements that rank alike;
- what `OverviewIsConsistent` says of averages, sorted movers and the summary, beyond `RanksAgree`, and what
  `ValuesAreSound` says of the sources other than prices and of the volume ratio, beyond `MarketValuesAreSound`: sums over sets, and `SelectSeq`;
- `RebuildIsFaithful`: it compares recursive computations over sequences of rows and of bars.

## What is not modelled

- *The shape of the S-curves and the weights by age.* A signal's curve is a straight line,
  and rounding to four digits is left out; what is checked is direction, limits and order.
- *The rest of a bar.* `MarketCloses` follows the closes of one ticker, the rows for which the order of
  writing matters most. What is derived from opens, highs, lows and volumes is in
  `SourceFormulas`, without the writers' interleaving.
- *Whether a run that is recorded as a success did anything.* Upstream failures that are swallowed, and nights on which every
  step of the retention failed, are recorded as the code records them, and no property judges that.
- *A stop inside a transaction.* PostgreSQL undoes it as a whole, so that the models stop before or after: what
  `UniverseIsConsistent` says of the table does not depend on where a transaction is cut off.
- *Several tickers in one FinBERT batch.* The batch of 500 is filled oldest first over all
  tickers; `NewsArticles` has one ticker and a batch smaller than its news. The tone of an
  article, the providers' paging and the purge after a year are left out too.
- *Writes concurrent with an insert of the same row.* The ceilings keep `market_job` and
  `market_eod_job` apart; a backfill run by hand at the same time, or the same tool run twice at a
  time, is not modelled.
- *Changes of season inside a behaviour, and clocks of Redis and PostgreSQL that
  differ from the application's.*
- *Parsing and wording.* URLs, payloads, JSON codecs, names, the text of explanations and summaries.
- *The backfills of price history and the seeding of the universe.* They download and insert through
  the queries that are modelled, in one pass, with nothing beside them.
- *Research and evaluation scripts, operator tools, migrations.* They compute or print
  and share no state with anything that runs.

## Plan

The components of the first plan are modelled. What would add most from here:

1. The schedule of `JobHealth` for any triggers and limits that fit together as the code's do, with the proofs that
   this makes possible.
2. A replay composed with `MarketCloses` and `LayerFallback`, to say for which kinds of rows a
   replayed tick equals the live one.
3. Two operators at a time, with the same tool: `OfflineTools` has both tools beside each other, each run by one operator.
4. Several tickers in one FinBERT batch, with `NewsIsScored` for each.
