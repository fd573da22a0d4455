---------------------------- MODULE ServedScores ----------------------------
(***************************************************************************)
(* What a client is told about a ticker while everything behind the answer *)
(* moves: the request path of GET /v1/sentiment/{ticker} and its history   *)
(* (api/routes, api/response/assembler.py), the jobs that score and fetch  *)
(* the tickers they loaded when they started, and an operator's run of     *)
(* scripts/tools/update_universe.py, which retires symbols, removes the    *)
(* rows that were written under them since, and deletes their Redis keys.  *)
(*                                                                         *)
(* A behaviour follows one symbol, chosen in Init; the table is followed   *)
(* as a whole.  Its scores move as ScoreLedger allows, the specification   *)
(* that ScoringTick implements: a state is published in Redis and then,    *)
(* unless the tick is cut short, recorded.  Every step of a request is an  *)
(* await: anything may happen in between, and any read may fail.           *)
(***************************************************************************)
EXTENDS Universe

CONSTANTS
    MaxTime,   \* bound on the clock
    MaxRuns,   \* bound on the runs of the tool
    DayLength, \* units of time in a day
    Values     \* the prices of a symbol

ASSUME ServingAssumption ==
    {MaxTime, MaxRuns} \subseteq Nat /\ DayLength \in Nat \ {0}

VARIABLES
    symbol,     \* the symbol that this behaviour follows
    constituents, changes, reused,  \* the snapshots and REUSED_SYMBOLS, which never change
    now,        \* the time, from 1
    universe,   \* ticker_universe
    activeAt,   \* activeAt[w]: the active tickers at the end of time w
    rows,       \* the symbol's rows in raw_signals and sentiment_history
    redis,      \* when its state in Redis was computed, and whether the key is there
    pct, xs,    \* the hashes of percentiles and cross-sections: when, with the symbol or not
    batch,      \* the tickers that a running job loaded; {} when none runs
    wrote,      \* what that job has written of the symbol: its state in Redis, then its row
    tool,       \* the run of the tool: stage, plan, queries, due, calm
    runs,       \* how often it was run
    clean,      \* a run met no job that had loaded a symbol it retires
    req         \* the request that is served, or was served last

fixed == <<symbol, constituents, changes, reused>>
table == <<universe, activeAt>>
scores == <<redis, pct, xs, batch, wrote>>
update == <<tool, runs, clean>>
vars == <<fixed, now, table, rows, scores, update, req>>

Never == 0  \* "not there": times are positive

IsRow(r) == r \in IF r.kind = "price" THEN [kind : {"price"}, at : Nat, value : Values]
                  ELSE [kind : {"derived", "score"}, at : Nat, value : {Never}]

QueryKinds == {"reused", "derived", "frozen"}
NoStats == [at |-> Never, has |-> FALSE]
NoRun == [stage |-> "idle", plan |-> NothingToDo, queries |-> {}, due |-> 0, calm |-> FALSE]
NoRequest == [stage |-> "idle", before |-> {}, since |-> Never, at |-> Never,
              pct |-> Never, xs |-> Never, answer |-> "none", failed |-> FALSE]

TypeOK ==
    /\ now \in 1 .. MaxTime + 1 /\ IsTable(universe)
    /\ activeAt \in [1 .. now - 1 -> SUBSET Symbols]
    /\ \A r \in rows : IsRow(r)
    /\ redis \in [at : Nat, live : BOOLEAN]
    /\ {pct, xs} \subseteq [at : Nat, has : BOOLEAN]
    /\ batch \subseteq Symbols /\ wrote \in {"nothing", "state", "row"}
    /\ tool.stage \in {"idle", "planned", "archived", "committed"}
    /\ tool.queries \subseteq QueryKinds /\ tool.due \in Nat
    /\ runs \in 0 .. MaxRuns /\ {clean, tool.calm} \subseteq BOOLEAN
    /\ req.stage \in {"idle", "redis", "fallback", "found", "percentile", "done"}
    /\ req.answer \in {"none", "score", "insufficient_data", "ticker_not_found", "delisted"}

Scores == {r.at : r \in {x \in rows : x.kind = "score"}}
Latest(S) == CHOOSE a \in S : \A b \in S : b <= a

-----------------------------------------------------------------------------
(* The jobs.                                                               *)

\* A job starts and loads the active tickers.  A symbol that the tool is about to
\* retire is among them until its transaction commits.
Load ==
    /\ batch = {} /\ now <= MaxTime
    /\ batch' = get_active_tickers(universe) /\ wrote' = "nothing"
    /\ tool' = [tool EXCEPT !.calm = @ /\ batch' \cap retired(universe, changes) = {}]
    /\ UNCHANGED <<fixed, now, table, rows, redis, pct, xs, runs, clean, req>>

\* The market job inserts what it fetched: a symbol that trades no more has a frozen
\* price, or that of another company, and signals derived from it.
Ingest(v) ==
    /\ symbol \in batch
    /\ \A r \in rows : r.kind = "price" => r.at # now
    /\ rows' = rows \cup {[kind |-> "derived", at |-> now, value |-> Never],
                          [kind |-> "price", at |-> now, value |-> v]}
    /\ UNCHANGED <<fixed, now, table, scores, update, req>>

\* The tick writes a newer state to Redis.
Publish ==
    /\ symbol \in batch /\ wrote = "nothing" /\ redis.at < now
    /\ redis' = [at |-> now, live |-> TRUE] /\ wrote' = "state"
    /\ UNCHANGED <<fixed, now, table, rows, pct, xs, batch, update, req>>

\* Fault: PostgreSQL is written first.
FaultRecord ==
    /\ symbol \in batch /\ wrote = "nothing" /\ now \notin Scores
    /\ rows' = rows \cup {[kind |-> "score", at |-> now, value |-> Never]}
    /\ wrote' = "row"
    /\ UNCHANGED <<fixed, now, table, redis, pct, xs, batch, update, req>>

\* The tick records the state that it published, under the time of that state.
Record ==
    /\ symbol \in batch /\ wrote = "state"
    /\ rows' = rows \cup {[kind |-> "score", at |-> redis.at, value |-> Never]}
    /\ wrote' = "row"
    /\ UNCHANGED <<fixed, now, table, redis, pct, xs, batch, update, req>>

\* The job ends, or is cut short: _publish_universe_stats replaces both hashes in one
\* MULTI with those of the tickers it scored, unless there are none or Redis fails.
Finish ==
    /\ batch # {}
    /\ \/ pct' = [at |-> now, has |-> wrote = "row"] /\ xs' = pct'
       \/ UNCHANGED <<pct, xs>>
    /\ batch' = {} /\ wrote' = "nothing"
    /\ UNCHANGED <<fixed, now, table, rows, redis, update, req>>

\* The key expires or is lost.
LoseKey ==
    /\ redis.live
    /\ redis' = [redis EXCEPT !.live = FALSE]
    /\ UNCHANGED <<fixed, now, table, rows, pct, xs, batch, wrote, update, req>>

-----------------------------------------------------------------------------
(* The tool.                                                               *)

Gone == retired(universe, changes)

\* The symbol's rows from after its last trading day.
After == {r \in rows : symbol \in Gone /\ r.at > changes[symbol].last}

\* _frozen_price_tickers: the prices since then are one repeated value.
IsFrozen == Cardinality({r.value : r \in {x \in After : x.kind = "price"}}) = 1

\* The rows from when the symbol was given to another company.
IsReused == symbol \in DOMAIN reused
OfAnother == {r \in rows : IsReused /\ r.at >= reused[symbol]}

\* What a query of _cleanup_queries selects: of the prices only a reused symbol's.
Selected(q) ==
    CASE q = "reused" -> OfAnother
      [] q = "derived" -> {r \in After \ OfAnother : r.kind = "derived"}
      [] q = "frozen" -> {r \in After : r.kind = "price"}
SelectedBy(Q) == UNION {Selected(q) : q \in Q}

\* Fault: only the symbols that this run retires are cleaned up.
FaultCleanup ==
    IF symbol \notin plan_update(universe, constituents, changes).retire THEN {}
    ELSE {"reused", "derived"} \cup {q \in {"frozen"} : IsFrozen /\ ~IsReused}

\* The queries of a run.
Cleanup == {"reused", "derived"} \cup {q \in {"frozen"} : IsFrozen /\ ~IsReused}

\* The plan is made, and the rows that each query selects are counted; queries that
\* select none are dropped.  The snapshot of the changes lists symbols that have stopped
\* trading.  A sector without an ETF, or --dry-run, ends the run here.
UpdatePlan ==
    LET plan == plan_update(universe, constituents, changes)
        queries == {q \in Cleanup : Selected(q) # {}}
    IN  /\ tool.stage = "idle" /\ runs < MaxRuns
        /\ \A t \in DOMAIN changes : changes[t].last < now
        /\ IsSound(universe, constituents, changes, plan)
        /\ tool' = [stage |-> "planned", plan |-> plan, queries |-> queries,
                    due |-> Cardinality(SelectedBy(queries)), calm |-> batch \cap Gone = {}]
        /\ runs' = runs + 1
        /\ UNCHANGED <<fixed, now, table, rows, scores, clean, req>>

\* The rows are fetched, written to the archive file over what it held, and read back;
\* another number of rows than was counted ends the run.
UpdateArchive ==
    /\ tool.stage = "planned"
    /\ tool' = IF Cardinality(SelectedBy(tool.queries)) = tool.due
               THEN [tool EXCEPT !.stage = "archived"] ELSE NoRun
    /\ UNCHANGED <<fixed, now, table, rows, scores, runs, clean, req>>

\* One transaction: the plan, and the deletion of what the queries select by now.
UpdateCommit ==
    /\ tool.stage = "archived"
    /\ universe' = Applied(universe, constituents, changes, tool.plan, now)
    /\ rows' = rows \ SelectedBy(tool.queries)
    /\ tool' = [tool EXCEPT !.stage = "committed"]
    /\ UNCHANGED <<fixed, now, activeAt, scores, runs, clean, req>>

\* The keys of the retired symbols that the table knew when the run was planned.
UpdateDeleteKeys ==
    /\ tool.stage = "committed"
    /\ redis' = IF symbol \in Gone \ tool.plan.add THEN [redis EXCEPT !.live = FALSE] ELSE redis
    /\ clean' = (clean \/ tool.calm)
    /\ tool' = NoRun
    /\ UNCHANGED <<fixed, now, table, rows, pct, xs, batch, wrote, runs, req>>

\* The run is interrupted; a transaction in progress is rolled back.
UpdateStops ==
    /\ tool.stage # "idle" /\ tool' = NoRun
    /\ UNCHANGED <<fixed, now, table, rows, scores, runs, clean, req>>

-----------------------------------------------------------------------------
(* The request.                                                            *)

\* The route asks the table for the ticker's status.
Begin ==
    LET status == get_ticker_status(universe, symbol)
        asked == [NoRequest EXCEPT !.before = Scores, !.since = pct.at]
    IN  /\ req.stage \in {"idle", "done"}
        /\ req' = IF status = "active" THEN [asked EXCEPT !.stage = "redis"]
                  ELSE [asked EXCEPT !.stage = "done", !.answer = status]
        /\ UNCHANGED <<fixed, now, table, rows, scores, update>>

\* _load_from_redis: a missing key, or an error, leads to the fallback.
ReadState ==
    /\ req.stage = "redis"
    /\ \/ redis.live /\ req' = [req EXCEPT !.stage = "found", !.at = redis.at]
       \/ req' = [req EXCEPT !.stage = "fallback"]
    /\ UNCHANGED <<fixed, now, table, rows, scores, update>>

\* _load_from_db: the newest row; an error is taken for the absence of rows.
ReadRow ==
    /\ req.stage = "fallback"
    /\ \/ /\ Scores # {}
          /\ req' = [req EXCEPT !.stage = "found", !.at = Latest(Scores)]
       \/ /\ Scores = {}
          /\ req' = [req EXCEPT !.stage = "done", !.answer = "insufficient_data"]
       \/ req' = [req EXCEPT !.stage = "done", !.answer = "insufficient_data", !.failed = TRUE]
    /\ UNCHANGED <<fixed, now, table, rows, scores, update>>

\* The free tier and detail=summary are answered with the state alone.
AnswerSummary ==
    /\ req.stage = "found"
    /\ req' = [req EXCEPT !.stage = "done", !.answer = "score"]
    /\ UNCHANGED <<fixed, now, table, rows, scores, update>>

\* What a hash holds for the ticker: None when it is not in it or Redis fails.
Parts(stats) == {Never} \cup {a \in {stats.at} : stats.has}

\* _load_percentile.
ReadPercentile ==
    /\ req.stage = "found"
    /\ \E part \in Parts(pct) : req' = [req EXCEPT !.stage = "percentile", !.pct = part]
    /\ UNCHANGED <<fixed, now, table, rows, scores, update>>

\* _load_xs, and the answer.
ReadXs ==
    /\ req.stage = "percentile"
    /\ \E part \in Parts(xs) :
          req' = [req EXCEPT !.stage = "done", !.answer = "score", !.xs = part]
    /\ UNCHANGED <<fixed, now, table, rows, scores, update>>

\* get_history: of the last days, a year at most, every tick, or the latest of each hour
\* or day.
Since(days) ==
    now - DayLength * (IF days < 1 THEN 1 ELSE IF days > 365 THEN 365 ELSE days)
get_history(days, length) ==
    LET window == {a \in Scores : a >= Since(days)}
    IN  {a \in window : \A b \in window : b \div length = a \div length => b <= a}

-----------------------------------------------------------------------------
Pass ==
    /\ now <= MaxTime
    /\ now' = now + 1
    /\ activeAt' = [w \in 1 .. now |-> IF w = now THEN get_active_tickers(universe) ELSE activeAt[w]]
    /\ UNCHANGED <<fixed, universe, rows, scores, update, req>>

\* What a behaviour starts from: migration 015 adds the columns of retirement empty, and
\* only the tool writes them; a constituent has a sector, and a symbol that stopped
\* trading has the date, and a successor, if any, that trades.
Snapshots ==
    /\ symbol \in Symbols /\ IsTable(universe)
    /\ \A t \in DOMAIN universe :
          universe[t].added <= now /\ universe[t].delisted = Listed /\ universe[t].successor = NoSymbol
    /\ DOMAIN constituents \subseteq Symbols /\ \A t \in DOMAIN constituents : constituents[t] # NoSector
    /\ DOMAIN changes \subseteq Symbols
    /\ \A t \in DOMAIN changes :
          /\ changes[t] \in [last : Nat \ {Listed}, successor : Symbols \cup {NoSymbol}]
          /\ changes[t].successor \notin DOMAIN changes
    /\ \A t \in DOMAIN reused : reused[t] \in Nat

Init ==
    /\ now = 1 /\ Snapshots
    /\ activeAt = <<>> /\ rows = {} /\ batch = {} /\ wrote = "nothing"
    /\ redis = [at |-> Never, live |-> FALSE] /\ pct = NoStats /\ xs = NoStats
    /\ tool = NoRun /\ runs = 0 /\ clean = FALSE /\ req = NoRequest

Jobs == Load \/ Publish \/ Record \/ Finish \/ LoseKey \/ \E v \in Values : Ingest(v)
Tool == UpdatePlan \/ UpdateArchive \/ UpdateCommit \/ UpdateDeleteKeys \/ UpdateStops
Request == Begin \/ ReadState \/ ReadRow \/ AnswerSummary \/ ReadPercentile \/ ReadXs

Next == Jobs \/ Tool \/ Request \/ Pass

Spec == Init /\ [][Next]_vars

-----------------------------------------------------------------------------
(* Properties.                                                             *)

\* The answer is as new as what there was when the request came in: a score is at least
\* as new as every row of then that is still there, the percentile as the publication of
\* then, and the cross-section is never behind the percentile; only the absence of rows,
\* or a failed read, is called insufficient data; and the history of any interval starts
\* with the row that the fallback serves, or is empty where its days do not reach back to it.
AnswersAreCurrent ==
    LET before == req.before \cap Scores
    IN  req.stage = "done" =>
        /\ req.answer = "score" =>
              /\ \A a \in before : a <= req.at
              /\ req.pct # Never => req.since <= req.pct
              /\ req.pct # Never /\ req.xs # Never => req.pct <= req.xs
        /\ req.answer = "insufficient_data" => before = {} \/ req.failed
        /\ \A days \in 1 .. MaxTime, length \in {1, DayLength} :
              LET shown == get_history(days, length)
              IN  IF Scores # {} /\ Latest(Scores) >= Since(days)
                  THEN shown # {} /\ Latest(shown) = Latest(Scores) ELSE shown = {}

\* The tool is idempotent: once its transaction has committed, the same snapshots leave
\* nothing to plan, every constituent is scored with its sector, and every successor that
\* a client is pointed to is served.
UpdateConverges ==
    tool.stage = "committed" =>
        /\ plan_update(universe, constituents, changes) = NothingToDo
        /\ \A t \in DOMAIN constituents \ DOMAIN changes :
              t \in DOMAIN get_ticker_sector_map(universe)
              /\ get_ticker_sector_map(universe)[t] = constituents[t]
        /\ \A t \in DOMAIN universe : universe[t].successor # NoSymbol =>
              /\ universe[t].delisted # Listed
              /\ get_ticker_status(universe, universe[t].successor) = "active"

\* Once a run has met no job that had loaded a symbol it retires, a retired symbol is
\* silent for good: no row is left that the cleanup would remove, no job has it loaded,
\* and its key stays deleted.
RetiredStaySilent ==
    clean /\ symbol \in Gone =>
        SelectedBy({"reused", "derived"} \cup {q \in {"frozen"} : IsFrozen /\ ~IsReused}) = {}
        /\ symbol \notin batch /\ ~redis.live

\* The universe as of a past time is made of tickers that were active then, and leaves
\* out only those whose last trading day had passed: an offline replay scores what the
\* live job could have scored.
AsOfIsWhatWasLive ==
    \A w \in DOMAIN activeAt :
        LET then == get_active_tickers_as_of(universe, w)
        IN  then \subseteq activeAt[w] /\ \A t \in activeAt[w] \ then : universe[t].delisted <= w

\* Table and tool agree: a committed run has nothing left to do, and the past that the
\* offline tools ask for is the past that was live.
UniverseIsConsistent == TypeOK /\ UpdateConverges /\ AsOfIsWhatWasLive
=============================================================================
