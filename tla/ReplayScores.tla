--------------------------- MODULE ReplayScores ---------------------------
(***************************************************************************)
(* The offline replay that fills a gap in sentiment_history                *)
(* (scripts/backfill/replay_scores.py): every ticker is scored as of every *)
(* tick of the gap, in order, each score continuing the previous one kept  *)
(* in memory.  A worker may fail or be cut off by its timeout, and the tool*)
(* may be killed; it is then run again, perhaps for fewer tickers, and     *)
(* resumes from the rows it finds in the table.                            *)
(*                                                                         *)
(* A row is reduced to its tick, the tick of the row it continues and the  *)
(* run of the tool that wrote it.  The --dry-run option, which writes      *)
(* nothing, is left out.                                                   *)
(***************************************************************************)
EXTENDS Naturals, FiniteSets

CONSTANTS
    Tickers,      \* the universe as of the start of the gap
    Seeded,       \* the tickers with a live row before the gap
    LastTick,     \* the ticks of the gap are 2 .. LastTick
    Concurrency,  \* --concurrency
    MaxRuns       \* bound: how often the tool is run

ASSUME ReplayAssumption ==
    /\ IsFiniteSet(Tickers) /\ Seeded \subseteq Tickers
    /\ LastTick \in Nat \ {0, 1} /\ Concurrency \in Nat \ {0} /\ MaxRuns \in Nat

VARIABLES
    rows,    \* the rows tagged with this replay_run
    run,     \* how often the tool has been started
    stage,   \* "idle", "ready" to begin a tick, or in the middle of a "tick"
    want,    \* the tickers of this run
    done,    \* done[t]: ticks of t that were stored when the run started
    todo,    \* incomplete ticks that the run has not finished
    states,  \* states[t]: the tick of the state of t in memory
    phase,   \* phase[t]: where the worker of t is in the current tick
    clean    \* no worker of this run has failed: "yes" or "no"

vars == <<rows, run, stage, want, done, todo, states, phase, clean>>

Nothing == 0            \* no state: a cold start
Before == 1             \* the last live row before the gap
After == LastTick + 1   \* the first live row after it
Ticks == 2 .. LastTick

Row == [ticker : Tickers, tick : Ticks, prev : 0 .. After, run : Nat]

\* The types; a worker past the semaphore holds one of its permits, and only
\* workers of an incomplete pair of ticker and tick are scored.
TypeOK ==
    /\ rows \subseteq Row /\ run \in Nat
    /\ stage \in {"idle", "ready", "tick"}
    /\ want \subseteq Tickers /\ todo \subseteq Ticks
    /\ done \in [Tickers -> SUBSET Ticks]
    /\ states \in [Tickers -> 0 .. After]
    /\ phase \in [Tickers -> {"none", "waiting", "scoring", "ended"}]
    /\ clean \in {"yes", "no"}
    /\ Cardinality({t \in Tickers : phase[t] = "scoring"}) <= Concurrency

Init ==
    /\ rows = {} /\ run = 0 /\ stage = "idle" /\ clean = "no"
    /\ want = {} /\ todo = {}
    /\ done = [t \in Tickers |-> {}]
    /\ states = [t \in Tickers |-> Nothing]
    /\ phase = [t \in Tickers |-> "none"]

Stored(t) == {r.tick : r \in {q \in rows : q.ticker = t}}

\* All rows of t in sentiment_history, live ones included.
History(t) == Stored(t) \cup {After} \cup (IF t \in Seeded THEN {Before} ELSE {})

Latest(S) == IF S = {} THEN Nothing ELSE CHOOSE i \in S : \A j \in S : j <= i
First(S) == CHOOSE i \in S : \A j \in S : i <= j

\* Fault: the seed is the latest row there is.
SeedUnbounded(t, before) == Latest(History(t))

\* _seed_states: the latest stored row before a tick.
Seed(t, before) == Latest({i \in History(t) : i < before})

\* Fault: a tick that any ticker has completed is taken for complete.
IncompleteIfEmpty(W) == {i \in Ticks : \A t \in W : i \notin Stored(t)}

\* The ticks that not every wanted ticker has completed.
Incomplete(W) == {i \in Ticks : \E t \in W : i \notin Stored(t)}

\* The tool starts for the tickers in W; without incomplete ticks it returns.
StartRun(W) ==
    /\ stage = "idle" /\ run < MaxRuns
    /\ Incomplete(W) # {}
    /\ run' = run + 1 /\ want' = W /\ clean' = "yes"
    /\ done' = [t \in Tickers |-> Stored(t)]
    /\ todo' = Incomplete(W)
    /\ states' = [t \in Tickers |->
                    IF t \in W THEN Seed(t, First(Incomplete(W))) ELSE Nothing]
    /\ stage' = "ready"
    /\ UNCHANGED <<rows, phase>>

\* Fault: nothing is skipped.
BeginTickUnskipped ==
    /\ stage = "ready" /\ todo # {}
    /\ phase' = [t \in Tickers |-> IF t \in want THEN "waiting" ELSE "ended"]
    /\ stage' = "tick"
    /\ UNCHANGED <<rows, run, want, done, todo, states, clean>>

\* replay_tick starts a worker per ticker; completed tickers are skipped.
BeginTick ==
    /\ stage = "ready" /\ todo # {}
    /\ phase' = [t \in Tickers |->
                   IF t \in want /\ First(todo) \notin done[t] THEN "waiting" ELSE "ended"]
    /\ stage' = "tick"
    /\ UNCHANGED <<rows, run, want, done, todo, states, clean>>

BeginScore(t) ==
    /\ phase[t] = "waiting"
    /\ Cardinality({u \in Tickers : phase[u] = "scoring"}) < Concurrency
    /\ phase' = [phase EXCEPT ![t] = "scoring"]
    /\ UNCHANGED <<rows, run, stage, want, done, todo, states, clean>>

\* The row that the worker of t writes.
RowOf(t) == [ticker |-> t, tick |-> First(todo), prev |-> states[t], run |-> run]

\* The worker of t computed its state, stored the row and keeps the state.
Persist(t) ==
    /\ phase[t] = "scoring"
    /\ rows' = rows \cup {RowOf(t)}
    /\ states' = [states EXCEPT ![t] = First(todo)]
    /\ phase' = [phase EXCEPT ![t] = "ended"]
    /\ UNCHANGED <<run, stage, want, done, todo, clean>>

\* The worker of t raised or was cut off by its timeout; its insert may have
\* taken effect.  The tick goes on without it.
WorkerFails(t) ==
    /\ phase[t] = "scoring"
    /\ rows' \in {rows, rows \cup {RowOf(t)}}
    /\ phase' = [phase EXCEPT ![t] = "ended"] /\ clean' = "no"
    /\ UNCHANGED <<run, stage, want, done, todo, states>>

\* All workers have ended: on to the next tick.
EndTick ==
    /\ stage = "tick" /\ \A t \in Tickers : phase[t] = "ended"
    /\ phase' = [t \in Tickers |-> "none"]
    /\ todo' = todo \ {First(todo)} /\ stage' = "ready"
    /\ UNCHANGED <<rows, run, want, done, states, clean>>

\* The last tick is complete: the tool returns.
EndRun ==
    /\ stage = "ready" /\ todo = {}
    /\ stage' = "idle"
    /\ UNCHANGED <<rows, run, want, done, todo, states, phase, clean>>

\* The tool is killed; inserts in flight may have taken effect.
Kill ==
    /\ stage # "idle"
    /\ \E S \in SUBSET {t \in Tickers : phase[t] = "scoring"} :
          rows' = rows \cup {RowOf(t) : t \in S}
    /\ stage' = "idle" /\ clean' = "no" /\ todo' = {}
    /\ phase' = [t \in Tickers |-> "none"]
    /\ UNCHANGED <<run, want, done, states>>

Next ==
    \/ \E W \in SUBSET Tickers \ {{}} : StartRun(W)
    \/ BeginTick \/ EndTick \/ EndRun \/ Kill
    \/ \E t \in Tickers : BeginScore(t) \/ Persist(t) \/ WorkerFails(t)

Spec == Init /\ [][Next]_vars

---------------------------------------------------------------------------
(* Properties.                                                             *)

\* However often the tool fails, is killed and resumes, a ticker gets at most one
\* row per tick (completed rows are skipped).
NoRowTwice ==
    \A r, s \in rows : r.ticker = s.ticker /\ r.tick = s.tick => r = s

\* Every replayed row continues a row that is stored, older than itself and of the
\* same ticker; only a ticker without any earlier row starts cold.
ChainsAreStored ==
    \A r \in rows :
        /\ r.prev < r.tick
        /\ r.prev = Nothing => r.ticker \notin Seeded
        /\ r.prev \in {Nothing} \cup History(r.ticker)

\* A run in which nothing failed leaves no gap for the tickers it was asked for.
CleanRunFillsTheGap ==
    stage = "idle" /\ clean = "yes" => \A t \in want : Stored(t) = Ticks
=============================================================================
