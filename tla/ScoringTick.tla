---------------------------- MODULE ScoringTick ----------------------------
(***************************************************************************)
(* The scoring tick of the sentiment pipeline: scoring_tick_job, _score_all*)
(* and its per-ticker workers in pipeline/scheduler.py, _score_and_write in*)
(* pipeline/orchestrator.py, the Redis and PostgreSQL writers in           *)
(* pipeline/persistence, and the end-of-tick publication.                  *)
(*                                                                         *)
(* A run loads the active tickers and scores them under a semaphore.  Each *)
(* worker takes the time, reads the ticker's last state from Redis,        *)
(* computes the next one, writes it to Redis and then to PostgreSQL.  Any  *)
(* call may hang or fail; wait_for cancels a worker after TickerLimit and  *)
(* the whole run after JobLimit; the process may die.  A call cut off in   *)
(* flight may or may not have taken effect on the server.                  *)
(*                                                                         *)
(* Time is a counter of coarse units.  A state is reduced to what the      *)
(* properties tell apart: when it was computed (at), its ema_obs_count (n) *)
(* and the time of the cold start its smoothing chain goes back to (seed). *)
(***************************************************************************)
EXTENDS Naturals, FiniteSets

CONSTANTS
    Tickers,       \* the tickers that ever are in the universe
    Permits,       \* _SCORE_SEM: workers that score at the same time
    TickerLimit,   \* SCORE_TICKER_TIMEOUT_S, in clock units
    JobLimit,      \* JOB_TIMEOUTS_S["scoring_tick"], in clock units
    StateTTL,      \* lifetime of a sentiment:{ticker} key, in clock units
    Quoted,        \* the tickers a close price is known for
    SessionTimes,  \* the times that fall in US market hours
    MaxStart       \* bound: no run starts to score after this time

ASSUME TickAssumption ==
    /\ IsFiniteSet(Tickers) /\ Quoted \subseteq Tickers
    /\ Permits \in Nat \ {0}
    /\ TickerLimit \in Nat \ {0}
    /\ JobLimit \in Nat \ {0}
    /\ StateTTL \in Nat \ {0}
    /\ SessionTimes \subseteq Nat
    /\ MaxStart \in Nat

VARIABLES
    now,        \* the wall clock
    redis,      \* redis[t]: state last written to sentiment:{t}, until exp
    history,    \* history[t]: rows of t in sentiment_history
    prices,     \* rows <<ticker, time>> of price_snapshots
    pct,        \* sentiment:percentiles and the overview: time and tickers
    summary,    \* pipeline:last_tick
    lastStart,  \* pipeline:last_start:scoring_tick
    lastRun,    \* pipeline:last_run:scoring_tick
    stage,      \* where the run is
    started,    \* when the run started
    batch,      \* the tickers the run loaded
    phase,      \* phase[t]: where the worker of t is
    job,        \* job[t]: the state that the worker of t computes
    results     \* the tickers in _score_all's results dict

stores == <<redis, history, prices>>
reports == <<pct, summary, lastStart, lastRun>>
vars == <<now, redis, history, prices, pct, summary, lastStart, lastRun,
          stage, started, batch, phase, job, results>>

State == [at : Nat, n : Nat, seed : Nat]
NoState == [at |-> 0, n |-> 0, seed |-> 0]

Stages == {"idle", "starting", "scoring", "stats", "summary", "record"}
Phases == {"none", "waiting", "writing", "persisting", "done", "skipped"}

\* The types, the workers of the run (one per loaded ticker), and _SCORE_SEM:
\* never more workers past the semaphore than permits, whatever was cancelled.
TypeOK ==
    /\ now \in Nat /\ started \in Nat /\ lastStart \in Nat /\ lastRun \in Nat
    /\ redis \in [Tickers -> [state : State, exp : Nat]]
    /\ history \in [Tickers -> SUBSET State]
    /\ prices \subseteq Tickers \X Nat
    /\ pct \in [at : Nat, tickers : SUBSET Tickers]
    /\ summary \in [at : Nat, scored : Nat, active : Nat]
    /\ stage \in Stages
    /\ batch \in SUBSET Tickers /\ results \in SUBSET Tickers
    /\ phase \in [Tickers -> Phases]
    /\ job \in [Tickers -> State]
    /\ \A t \in Tickers : phase[t] = "none" <=> t \notin batch
    /\ Cardinality({t \in Tickers : phase[t] \in {"writing", "persisting"}}) <= Permits

Init ==
    /\ now = 0 /\ started = 0 /\ lastStart = 0 /\ lastRun = 0
    /\ redis = [t \in Tickers |-> [state |-> NoState, exp |-> 0]]
    /\ history = [t \in Tickers |-> {}]
    /\ prices = {}
    /\ pct = [at |-> 0, tickers |-> {}]
    /\ summary = [at |-> 0, scored |-> 0, active |-> 0]
    /\ stage = "idle"
    /\ batch = {} /\ results = {}
    /\ phase = [t \in Tickers |-> "none"]
    /\ job = [t \in Tickers |-> NoState]

(***************************************************************************)
(* The stores.                                                             *)
(***************************************************************************)

\* Redis still holds the key sentiment:{t}.
Live(t) == now < redis[t].exp

\* Fault: the observation count is carried over without being incremented.
NextStateUncounted(t) ==
    IF Live(t) THEN [redis[t].state EXCEPT !.at = now]
    ELSE [at |-> now, n |-> 1, seed |-> now]

\* What read_scored_state and the arithmetic of ema_obs_count make of the
\* stored state: the chain goes on from a live key and starts over without.
NextState(t) ==
    IF Live(t)
    THEN [at |-> now, n |-> redis[t].state.n + 1, seed |-> redis[t].state.seed]
    ELSE [at |-> now, n |-> 1, seed |-> now]

\* write_scored_state for the tickers in W: SET with a TTL.
Written(W) ==
    [t \in Tickers |-> IF t \in W THEN [state |-> job[t], exp |-> now + StateTTL]
                       ELSE redis[t]]

\* persist_scored_state for the tickers in P: one transaction per ticker.
Recorded(P) ==
    [t \in Tickers |-> IF t \in P THEN history[t] \cup {job[t]} ELSE history[t]]

\* The price_snapshots rows of the same transactions.
Snapshots(P) ==
    prices \cup {<<t, job[t].at>> : t \in {u \in P \cap Quoted : job[u].at \in SessionTimes}}

(***************************************************************************)
(* The run and its workers.                                                *)
(***************************************************************************)
Running == {t \in Tickers : phase[t] \in {"writing", "persisting"}}
Overdue(t) == t \in Running /\ now >= job[t].at + TickerLimit
InWaitFor == stage \notin {"idle", "starting"}
JobOverdue == InWaitFor /\ now >= started + JobLimit

\* The run's coroutine is gone, and its locals and workers with it.
EndRun ==
    /\ stage' = "idle"
    /\ phase' = [t \in Tickers |-> "none"]
    /\ job' = [t \in Tickers |-> NoState]
    /\ batch' = {} /\ results' = {}

\* A trigger fires while no run is active (max_instances = 1).  The clock has
\* moved since the previous run: triggers are minutes apart.  _record_start sets
\* pipeline:last_start, which may fail, and is awaited outside the ceiling.
Trigger ==
    /\ stage = "idle" /\ now < MaxStart
    /\ now' = now + 1
    /\ started' = now + 1
    /\ lastStart' \in {lastStart, now + 1}
    /\ stage' = "starting"
    /\ UNCHANGED <<stores, pct, summary, lastRun, batch, phase, job, results>>

\* _record_start has returned: the job runs under its ceiling from now on and
\* loads the active tickers, which may have changed since the previous run.
StartTick(B) ==
    /\ stage = "starting" /\ now <= MaxStart
    /\ started' = now
    /\ stage' = "scoring"
    /\ batch' = B
    /\ phase' = [t \in Tickers |-> IF t \in B THEN "waiting" ELSE "none"]
    /\ results' = {}
    /\ UNCHANGED <<now, stores, reports, job>>

\* Fault: PostgreSQL is written first.
BeginScorePersistFirst(t) ==
    /\ stage = "scoring" /\ phase[t] = "waiting"
    /\ Cardinality(Running) < Permits
    /\ job' = [job EXCEPT ![t] = NextState(t)]
    /\ phase' = [phase EXCEPT ![t] = "persisting"]
    /\ UNCHANGED <<now, stores, reports, stage, started, batch, results>>

\* The worker of t gets a permit, takes the time and reads its last state.
BeginScore(t) ==
    /\ stage = "scoring" /\ phase[t] = "waiting"
    /\ Cardinality(Running) < Permits
    /\ job' = [job EXCEPT ![t] = NextState(t)]
    /\ phase' = [phase EXCEPT ![t] = "writing"]
    /\ UNCHANGED <<now, stores, reports, stage, started, batch, results>>

\* Fault: a failed SET is tolerated and the worker goes on to PostgreSQL.
WriteStateBestEffort(t) ==
    /\ phase[t] = "writing"
    /\ redis' \in {redis, Written({t})}
    /\ phase' = [phase EXCEPT ![t] = "persisting"]
    /\ UNCHANGED <<now, history, prices, reports, stage, started, batch, job, results>>

\* compute_scored_state returned and the SET is acknowledged.
WriteState(t) ==
    /\ phase[t] = "writing"
    /\ redis' = Written({t})
    /\ phase' = [phase EXCEPT ![t] = "persisting"]
    /\ UNCHANGED <<now, history, prices, reports, stage, started, batch, job, results>>

\* The transaction commits; the worker returns and _bounded records the result.
PersistState(t) ==
    /\ phase[t] = "persisting"
    /\ history' = Recorded({t})
    /\ prices' = Snapshots({t})
    /\ phase' = [phase EXCEPT ![t] = "done"]
    /\ job' = [job EXCEPT ![t] = NoState]
    /\ results' = results \cup {t}
    /\ UNCHANGED <<now, redis, reports, stage, started, batch>>

\* Fault: the two inserts are not one transaction.
StopBetweenInserts(t) ==
    /\ phase[t] = "persisting"
    /\ history' = Recorded({t}) /\ UNCHANGED <<redis, prices>>
    /\ phase' = [phase EXCEPT ![t] = "skipped"]
    /\ job' = [job EXCEPT ![t] = NoState]
    /\ UNCHANGED <<now, reports, stage, started, batch, results>>

\* The worker of t stops where it is.  The call it was waiting for may have
\* taken effect: a SET, or a COMMIT.
Stop(t) ==
    /\ \/ UNCHANGED stores
       \/ /\ phase[t] = "writing"
          /\ redis' = Written({t}) /\ UNCHANGED <<history, prices>>
       \/ /\ phase[t] = "persisting"
          /\ history' = Recorded({t}) /\ prices' = Snapshots({t})
          /\ UNCHANGED redis
    /\ phase' = [phase EXCEPT ![t] = "skipped"]
    /\ job' = [job EXCEPT ![t] = NoState]
    /\ UNCHANGED <<now, reports, stage, started, batch, results>>

\* Reading, computing, writing or persisting raised: logged and skipped.
ScoreFails(t) == t \in Running /\ Stop(t)

\* wait_for cancels a worker that is over SCORE_TICKER_TIMEOUT_S.
TickerTimeout(t) == Overdue(t) /\ Stop(t)

\* gather returns once every worker has ended.
EndScoring ==
    /\ stage = "scoring"
    /\ \A t \in batch : phase[t] \in {"done", "skipped"}
    /\ stage' = "stats"
    /\ UNCHANGED <<now, stores, reports, started, batch, phase, job, results>>

\* _publish_universe_stats: returns early when nothing was scored, otherwise
\* replaces percentiles and overview in one MULTI, best effort.
PublishStats ==
    /\ stage = "stats"
    /\ \/ results # {} /\ pct' = [at |-> now, tickers |-> results]
       \/ UNCHANGED pct
    /\ stage' = "summary"
    /\ UNCHANGED <<now, stores, summary, lastStart, lastRun, started, batch, phase, job, results>>

\* _publish_tick_summary: always, best effort.
PublishSummary ==
    /\ stage = "summary"
    /\ summary' \in {summary, [at |-> now, scored |-> Cardinality(results),
                               active |-> Cardinality(batch)]}
    /\ stage' = "record"
    /\ UNCHANGED <<now, stores, pct, lastStart, lastRun, started, batch, phase, job, results>>

\* Fault: the run is recorded whatever it scored.
RecordRunAlways ==
    /\ stage = "record"
    /\ lastRun' = now
    /\ EndRun
    /\ UNCHANGED <<now, stores, pct, summary, lastStart, started>>

\* The end of scoring_tick_job: the run is recorded if it scored anything.
RecordRun ==
    /\ stage = "record"
    /\ \/ results # {} /\ lastRun' = now
       \/ UNCHANGED lastRun
    /\ EndRun
    /\ UNCHANGED <<now, stores, pct, summary, lastStart, started>>

\* The run is abandoned: every worker is cancelled, nothing more is published,
\* and any subset of the calls in flight has taken effect.
Abandon ==
    /\ stage # "idle"
    /\ \E W \in SUBSET {t \in Tickers : phase[t] = "writing"},
          P \in SUBSET {t \in Tickers : phase[t] = "persisting"} :
          /\ redis' = Written(W)
          /\ history' = Recorded(P)
          /\ prices' = Snapshots(P)
    /\ EndRun
    /\ UNCHANGED <<now, reports, started>>

\* Fault: the ceiling covers the scoring and not the publication.
JobTimeoutWhileScoring == JobOverdue /\ stage = "scoring" /\ Abandon

\* _with_timeout cancels a run that is over its ceiling.
JobTimeout == JobOverdue /\ Abandon

\* The process dies (a deploy, a crash) and comes up with no run active.
Crash == Abandon

\* Redis loses the key sentiment:{t} before its TTL (a flush, an eviction, the
\* deletion of a retired ticker's key).
LoseKey(t) ==
    /\ Live(t)
    /\ redis' = [redis EXCEPT ![t].exp = now]
    /\ UNCHANGED <<now, history, prices, reports, stage, started, batch, phase, job, results>>

\* Time passes; the event loop serves a timer that is due before more passes.
Pass ==
    /\ now < MaxStart + JobLimit
    /\ ~JobOverdue /\ \A t \in Tickers : ~Overdue(t)
    /\ now' = now + 1
    /\ UNCHANGED <<stores, reports, stage, started, batch, phase, job, results>>

Next ==
    \/ Trigger
    \/ \E B \in SUBSET Tickers \ {{}} : StartTick(B)
    \/ \E t \in Tickers :
          \/ BeginScore(t) \/ WriteState(t) \/ PersistState(t)
          \/ ScoreFails(t) \/ TickerTimeout(t) \/ LoseKey(t)
    \/ EndScoring \/ PublishStats \/ PublishSummary \/ RecordRun
    \/ JobTimeout \/ Crash \/ Pass

\* Fairness: the clock runs and asyncio serves the timers.  No call is assumed
\* to return: every await of the job may hang (Redis has no socket timeout).
Fairness ==
    /\ WF_vars(Pass)
    /\ WF_vars(JobTimeout)
    /\ \A t \in Tickers : WF_vars(TickerTimeout(t))

Spec == Init /\ [][Next]_vars
FairSpec == Spec /\ Fairness

(***************************************************************************)
(* Properties.                                                             *)
(***************************************************************************)

\* sentiment:{t} is never older than the newest history row of t: the API, which
\* serves Redis first, never shows an older score than the table it falls back
\* to (_score_and_write writes Redis before PostgreSQL).
RedisNotBehindHistory ==
    \A t \in Tickers : \A r \in history[t] : r.at <= redis[t].state.at

\* Two history rows of a ticker whose EMA chains have the same cold start carry
\* observation counts in the order of their times, and chains do not
\* interleave: a later row never continues an earlier chain (the state that
\* compute_scored_state continues is the one last written to Redis).
ChainsAreOrdered ==
    \A t \in Tickers : \A r, s \in history[t] :
        r.at < s.at => \/ r.seed = s.seed /\ r.n < s.n
                       \/ r.seed < s.seed /\ r.at < s.seed

\* Every ticker in the published percentiles has a history row computed by the
\* run that published them, so not more than JobLimit earlier: a worker that
\* was skipped has no percentile (_score_all's results hold only workers whose
\* PostgreSQL transaction committed).
RowIn(t, from, to) == \E r \in history[t] : from <= r.at /\ r.at <= to
PercentilesAreCommitted ==
    \A t \in pct.tickers : \E from \in 0..pct.at :
        pct.at <= from + JobLimit /\ RowIn(t, from, pct.at)

\* pipeline:last_run:scoring_tick is at least pipeline:last_start only if a
\* ticker's row was committed in between: a run that scored nothing, hung or
\* was cancelled leaves the frozen timestamp that /health/pipeline looks for.
RecordedRunScored ==
    lastRun > 0 /\ lastRun >= lastStart =>
        \E t \in Tickers : RowIn(t, lastStart, lastRun)

\* The tickers_scored of pipeline:last_tick never overstates: as many tickers
\* have a history row from the JobLimit units before the summary.
SummaryDoesNotOverstate ==
    /\ summary.scored <= summary.active
    /\ summary.scored <= Cardinality({t \in Tickers :
           \E r \in history[t] : summary.at <= r.at + JobLimit /\ r.at <= summary.at})

\* What is reported of a run is backed by what it committed: the percentiles, the record
\* that /health/pipeline reads, and the summary of the tick, whatever hung, failed or was
\* cancelled in it.
ReportsAreBacked == PercentilesAreCommitted /\ RecordedRunScored /\ SummaryDoesNotOverstate

\* price_snapshots holds a row exactly for the history rows of quoted tickers
\* computed in market hours: the two inserts of persist_scored_state are one
\* transaction, whatever the worker's fate.
SnapshotsMatchHistory ==
    prices = UNION {{<<t, r.at>> : r \in {x \in history[t] : x.at \in SessionTimes}}
                       : t \in Quoted}

\* Once the job itself has been entered, the run ends, so that the next trigger is
\* not refused (max_instances = 1), even if a call made anywhere in the scoring
\* or the publication never returns.
TickEnds == InWaitFor ~> stage = "idle"

\* The run implements the ledger: scores move forward in time and only the
\* latest published state of a ticker is recorded.
Ledger == INSTANCE ScoreLedger
            WITH published <- [t \in Tickers |-> redis[t].state], ledger <- history
ImplementsLedger == Ledger!Spec
=============================================================================
