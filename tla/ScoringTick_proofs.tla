------------------------ MODULE ScoringTick_proofs ------------------------
(***************************************************************************)
(* Proofs about ScoringTick, for every value of its constants.             *)
(***************************************************************************)
EXTENDS ScoringTick, FiniteSetTheorems, TLAPS

\* The tickers of a finite universe that are in some set can be counted.
LEMMA Counted ==
    ASSUME NEW S \in SUBSET Tickers
    PROVE  IsFiniteSet(S) /\ Cardinality(S) \in Nat
BY TickAssumption, FS_Subset, FS_CardinalityType

\* Fewer tickers never count for more.
LEMMA CountedSubset ==
    ASSUME NEW S \in SUBSET Tickers, NEW R \in SUBSET S
    PROVE  Cardinality(R) <= Cardinality(S)
BY TickAssumption, FS_Subset

---------------------------------------------------------------------------
(***************************************************************************)
(* Types, and the semaphore.                                               *)
(***************************************************************************)

\* The states and maps that the stores' operators build have their types.
LEMMA StoreTypes ==
    ASSUME TypeOK, NEW W \in SUBSET Tickers
    PROVE  /\ Written(W) \in [Tickers -> [state : State, exp : Nat]]
           /\ Recorded(W) \in [Tickers -> SUBSET State]
           /\ Snapshots(W) \subseteq Tickers \X Nat
           /\ \A t \in Tickers : NextState(t) \in State
<1> USE TickAssumption DEF TypeOK
<1>1. Written(W) \in [Tickers -> [state : State, exp : Nat]]
  BY DEF Written
<1>2. Recorded(W) \in [Tickers -> SUBSET State]
  BY DEF Recorded
<1>3. Snapshots(W) \subseteq Tickers \X Nat
  BY DEF Snapshots, State
<1>4. \A t \in Tickers : NextState(t) \in State
  BY DEF NextState, State
<1> QED BY <1>1, <1>2, <1>3, <1>4

\* A worker that starts takes one of the free permits.
LEMMA PermitTaken ==
    ASSUME NEW t \in Tickers, NEW S \in SUBSET Tickers, Cardinality(S) < Permits
    PROVE  Cardinality(S \cup {t}) <= Permits
<1>1. IsFiniteSet(S) /\ Cardinality(S) \in Nat
  BY Counted
<1>2. Cardinality(S \cup {t}) <= Cardinality(S) + 1
  BY <1>1, FS_AddElement
<1>3. Cardinality(S \cup {t}) \in Nat
  BY Counted
<1> QED BY <1>1, <1>2, <1>3, TickAssumption

\* The types hold before the first run.
LEMMA TypeInit == Init => TypeOK
<1> SUFFICES ASSUME Init PROVE TypeOK
  OBVIOUS
<1>1. {t \in Tickers : phase[t] \in {"writing", "persisting"}} = {}
  BY DEF Init
<1>2. Cardinality({}) = 0
  BY FS_EmptySet
<1>3. Cardinality({t \in Tickers : phase[t] \in {"writing", "persisting"}}) <= Permits
  BY <1>1, <1>2, TickAssumption
<1>4. NoState \in State
  BY DEF NoState, State
<1> QED BY <1>3, <1>4, TickAssumption DEF Init, TypeOK, Stages, Phases

\* A step that puts no new worker past the semaphore keeps the permit bound.
LEMMA PermitsKept ==
    ASSUME TypeOK, Running' \subseteq Running
    PROVE  Cardinality(Running') <= Permits
<1>1. Running \in SUBSET Tickers
  BY DEF Running
<1>2. /\ Cardinality(Running') <= Cardinality(Running)
      /\ Cardinality(Running) \in Nat /\ Cardinality(Running') \in Nat
  BY <1>1, Counted, CountedSubset
<1>3. Cardinality(Running) <= Permits
  BY DEF TypeOK, Running
<1> QED BY <1>2, <1>3, TickAssumption

\* Every step of the run, its workers, the timers and the clock keeps the types.
LEMMA TypeStep == TypeOK /\ [Next]_vars => TypeOK'
<1> SUFFICES ASSUME TypeOK, [Next]_vars PROVE TypeOK'
  OBVIOUS
<1> USE TickAssumption
<1>e. EndRun => /\ stage' \in Stages /\ phase' \in [Tickers -> Phases]
                /\ job' \in [Tickers -> State]
                /\ batch' \in SUBSET Tickers /\ results' \in SUBSET Tickers
                /\ \A t \in Tickers : phase'[t] = "none" <=> t \notin batch'
                /\ Running' \subseteq Running
  BY DEF EndRun, Stages, Phases, State, NoState, Running
<1>0. CASE Trigger
  BY <1>0 DEF Trigger, stores, TypeOK, Running, Stages
<1>1. ASSUME NEW B \in SUBSET Tickers \ {{}}, StartTick(B) PROVE TypeOK'
  <2>1. Running' \subseteq Running
    BY <1>1 DEF StartTick, Running
  <2>2. Cardinality(Running') <= Permits
    BY <2>1, PermitsKept
  <2> QED BY <1>1, <2>2 DEF StartTick, stores, reports, TypeOK, Running, Stages, Phases
<1>2. ASSUME NEW t \in Tickers, BeginScore(t) PROVE TypeOK'
  <2>1. Running' \subseteq Running \cup {t}
    BY <1>2 DEF BeginScore, Running, TypeOK
  <2>2. Cardinality(Running \cup {t}) <= Permits
    BY <1>2, PermitTaken DEF BeginScore, Running
  <2>3. /\ Cardinality(Running') <= Cardinality(Running \cup {t})
        /\ Cardinality(Running') \in Nat /\ Cardinality(Running \cup {t}) \in Nat
    BY <2>1, Counted, CountedSubset DEF Running
  <2>4. Cardinality(Running') <= Permits
    BY <2>2, <2>3
  <2> QED BY <1>2, <2>4, StoreTypes
          DEF BeginScore, stores, reports, TypeOK, Running, Phases
<1>3. ASSUME NEW t \in Tickers, WriteState(t) PROVE TypeOK'
  <2>1. Cardinality(Running') <= Permits
    BY <1>3, PermitsKept DEF WriteState, Running, TypeOK
  <2> QED BY <1>3, <2>1, StoreTypes DEF WriteState, reports, TypeOK, Running, Phases
<1>4. ASSUME NEW t \in Tickers, PersistState(t) PROVE TypeOK'
  <2>1. Cardinality(Running') <= Permits
    BY <1>4, PermitsKept DEF PersistState, Running, TypeOK
  <2> QED BY <1>4, <2>1, StoreTypes
          DEF PersistState, reports, TypeOK, Running, Phases, NoState, State
<1>5. ASSUME NEW t \in Running, Stop(t) PROVE TypeOK'
  <2>0. t \in Tickers /\ {t} \in SUBSET Tickers
    BY DEF Running
  <2>1. Cardinality(Running') <= Permits
    BY <1>5, <2>0, PermitsKept DEF Stop, Running, TypeOK
  <2>2. /\ redis' \in [Tickers -> [state : State, exp : Nat]]
        /\ history' \in [Tickers -> SUBSET State]
        /\ prices' \subseteq Tickers \X Nat
    BY <1>5, <2>0, StoreTypes DEF Stop, stores, TypeOK
  <2> QED BY <1>5, <2>0, <2>1, <2>2
          DEF Stop, reports, TypeOK, Running, Phases, NoState, State
<1>6. CASE EndScoring
  BY <1>6 DEF EndScoring, stores, reports, TypeOK, Stages
<1>7. CASE PublishStats
  BY <1>7 DEF PublishStats, stores, TypeOK, Stages
<1>8. CASE PublishSummary
  BY <1>8, Counted DEF PublishSummary, stores, TypeOK, Stages
<1>9. CASE RecordRun
  <2>1. Cardinality(Running') <= Permits
    BY <1>9, <1>e, PermitsKept DEF RecordRun
  <2> QED BY <1>9, <1>e, <2>1 DEF RecordRun, stores, TypeOK, Running
<1>10. CASE Abandon
  <2>1. Cardinality(Running') <= Permits
    BY <1>10, <1>e, PermitsKept DEF Abandon
  <2>2. /\ redis' \in [Tickers -> [state : State, exp : Nat]]
        /\ history' \in [Tickers -> SUBSET State]
        /\ prices' \subseteq Tickers \X Nat
    BY <1>10, StoreTypes DEF Abandon
  <2> QED BY <1>10, <1>e, <2>1, <2>2 DEF Abandon, reports, TypeOK, Running
<1>11. ASSUME NEW t \in Tickers, LoseKey(t) PROVE TypeOK'
  BY <1>11 DEF LoseKey, reports, TypeOK
<1>12. CASE Pass
  BY <1>12 DEF Pass, stores, reports, TypeOK
<1>13. CASE UNCHANGED vars
  BY <1>13 DEF vars, TypeOK
<1> QED
  BY <1>0, <1>1, <1>2, <1>3, <1>4, <1>5, <1>6, <1>7, <1>8, <1>9, <1>10, <1>11, <1>12, <1>13
  DEF Next, ScoreFails, TickerTimeout, Overdue, JobTimeout, Crash

\* The state of the tick is well typed and no more than Permits workers are
\* past the semaphore, for any universe, limits and interleaving.
THEOREM TypeCorrect == Spec => []TypeOK
BY TypeInit, TypeStep, PTL DEF Spec

---------------------------------------------------------------------------
(***************************************************************************)
(* The times of the run: workers hold times of this run, and nothing that  *)
(* was published carries a time of the future.                             *)
(***************************************************************************)
ClockInv ==
    /\ started <= now /\ lastStart <= started
    /\ lastRun <= now /\ pct.at <= now /\ summary.at <= now
    /\ InWaitFor => now <= started + JobLimit
    /\ ~InWaitFor => batch = {} /\ results = {}
    /\ results \subseteq batch
    /\ \A t \in Running : started <= job[t].at /\ job[t].at <= now

\* Before the first run nothing has a time.
LEMMA ClockInit == Init => ClockInv
BY TickAssumption DEF Init, ClockInv, Running, NoState, InWaitFor

\* The times stay ordered: a run ends within its ceiling, and its workers'
\* times are cut from the clock after it started.
LEMMA ClockStep == TypeOK /\ ClockInv /\ [Next]_vars => ClockInv'
<1> SUFFICES ASSUME TypeOK, ClockInv, [Next]_vars PROVE ClockInv'
  OBVIOUS
<1> USE TickAssumption DEF InWaitFor
<1>0. CASE Trigger
  BY <1>0 DEF Trigger, stores, TypeOK, ClockInv, Running
<1>1. ASSUME NEW B \in SUBSET Tickers \ {{}}, StartTick(B) PROVE ClockInv'
  BY <1>1 DEF StartTick, stores, reports, TypeOK, ClockInv, Running
<1>2. ASSUME NEW t \in Tickers, BeginScore(t) PROVE ClockInv'
  BY <1>2 DEF BeginScore, NextState, stores, reports, TypeOK, ClockInv, Running
<1>3. ASSUME NEW t \in Tickers, WriteState(t) PROVE ClockInv'
  BY <1>3 DEF WriteState, reports, TypeOK, ClockInv, Running
<1>4. ASSUME NEW t \in Tickers, PersistState(t) PROVE ClockInv'
  BY <1>4 DEF PersistState, reports, TypeOK, ClockInv, Running
<1>5. ASSUME NEW t \in Running, Stop(t) PROVE ClockInv'
  BY <1>5 DEF Stop, reports, TypeOK, ClockInv, Running
<1>6. CASE EndScoring
  BY <1>6 DEF EndScoring, stores, reports, TypeOK, ClockInv, Running
<1>7. CASE PublishStats
  BY <1>7 DEF PublishStats, stores, TypeOK, ClockInv, Running
<1>8. CASE PublishSummary
  BY <1>8 DEF PublishSummary, stores, TypeOK, ClockInv, Running
<1>9. CASE RecordRun
  BY <1>9 DEF RecordRun, EndRun, stores, TypeOK, ClockInv, Running
<1>10. CASE Abandon
  BY <1>10 DEF Abandon, EndRun, reports, TypeOK, ClockInv, Running
<1>11. ASSUME NEW t \in Tickers, LoseKey(t) PROVE ClockInv'
  BY <1>11 DEF LoseKey, reports, TypeOK, ClockInv, Running
<1>12. CASE Pass
  <2>1. InWaitFor => now' <= started + JobLimit
    <3>1. InWaitFor => ~(now >= started + JobLimit)
      BY <1>12 DEF Pass, JobOverdue
    <3> QED BY <1>12, <3>1 DEF Pass, TypeOK
  <2>2. now \in Nat /\ now' = now + 1
    BY <1>12 DEF Pass, TypeOK
  <2> QED BY <1>12, <2>1, <2>2 DEF Pass, stores, reports, TypeOK, State, ClockInv, Running
<1>13. CASE UNCHANGED vars
  BY <1>13 DEF vars, ClockInv, Running
<1> QED
  BY <1>0, <1>1, <1>2, <1>3, <1>4, <1>5, <1>6, <1>7, <1>8, <1>9, <1>10, <1>11, <1>12, <1>13
  DEF Next, ScoreFails, TickerTimeout, Overdue, JobTimeout, Crash

---------------------------------------------------------------------------
(***************************************************************************)
(* The two stores.  A key that this run has not written yet is from before *)
(* the run; between its two writes a worker's state is the one in Redis,   *)
(* and newer than every row.                                               *)
(***************************************************************************)

\* s comes after r in the observations of a ticker.
Follows(r, s) ==
    /\ r.at < s.at
    /\ \/ r.seed = s.seed /\ r.n < s.n
       \/ r.seed < s.seed /\ r.at < s.seed

LedgerAt(t) ==
    /\ redis[t].state.at <= now
    /\ redis[t].state.seed <= redis[t].state.at
    /\ stage = "starting" \/ phase[t] \in {"waiting", "writing"} =>
          redis[t].state.at < started
    /\ phase[t] = "writing" =>
          job[t].seed <= job[t].at /\ \A r \in history[t] : Follows(r, job[t])
    /\ phase[t] = "persisting" =>
          redis[t].state = job[t] /\ \A r \in history[t] : Follows(r, job[t])
    /\ \A r \in history[t] : r = redis[t].state \/ Follows(r, redis[t].state)
    /\ \A r, s \in history[t] : r.at < s.at => Follows(r, s)
LedgerInv == \A t \in Tickers : LedgerAt(t)

\* The behaviour starts without states and rows.
LEMMA LedgerInit == Init => LedgerInv
BY DEF Init, LedgerInv, LedgerAt, NoState

\* What a worker begins with follows everything recorded of its ticker.
LEMMA NextFollows ==
    ASSUME TypeOK, ClockInv, LedgerInv, NEW t \in Tickers,
           redis[t].state.at < now
    PROVE  /\ NextState(t).at = now /\ NextState(t).seed <= now
           /\ \A r \in history[t] : Follows(r, NextState(t))
<1>1. \A r \in history[t] : r.at <= redis[t].state.at /\ r.seed <= redis[t].state.seed
  BY DEF LedgerInv, LedgerAt, Follows, TypeOK, State
<1>2. CASE Live(t)
  BY <1>1, <1>2 DEF NextState, LedgerInv, LedgerAt, Follows, TypeOK, State
<1>3. CASE ~Live(t)
  BY <1>1, <1>3 DEF NextState, LedgerInv, LedgerAt, Follows, TypeOK, State
<1> QED BY <1>2, <1>3

\* A ticker whose stores, phase and job a step leaves alone keeps its part of
\* the invariant; the clock only moves forward, and a run does not change its
\* start while workers wait.
LEMMA LedgerKept ==
    ASSUME TypeOK, NEW t \in Tickers, LedgerAt(t), now' \in {now, now + 1},
           redis'[t].state = redis[t].state, history'[t] = history[t],
           stage' = "starting" => stage = "starting" /\ started' = started,
           \/ phase'[t] = phase[t] /\ job'[t] = job[t] /\ started' = started
           \/ phase'[t] \in {"none", "done", "skipped"}
    PROVE  LedgerAt(t)'
BY DEF LedgerAt, TypeOK, State

\* The SET of a worker takes effect, whatever becomes of the worker.
LEMMA LedgerWritten ==
    ASSUME TypeOK, ClockInv, NEW t \in Tickers, LedgerAt(t),
           stage' = stage \/ stage' = "idle",
           phase[t] = "writing", now' = now, started' = started,
           redis'[t].state = job[t], history'[t] = history[t],
           \/ phase'[t] = "persisting" /\ job'[t] = job[t]
           \/ phase'[t] \in {"none", "done", "skipped"}
    PROVE  LedgerAt(t)'
<1>1. started <= job[t].at /\ job[t].at <= now
  BY DEF ClockInv, Running
<1>2. stage' # "starting"
  BY DEF ClockInv, TypeOK, InWaitFor
<1> QED BY <1>1, <1>2 DEF LedgerAt, TypeOK, State

\* The transaction of a worker commits, whatever becomes of the worker.
LEMMA LedgerCommitted ==
    ASSUME TypeOK, ClockInv, NEW t \in Tickers, LedgerAt(t),
           stage' = stage \/ stage' = "idle",
           phase[t] = "persisting", now' = now,
           redis'[t].state = redis[t].state, history'[t] = history[t] \cup {job[t]},
           phase'[t] \in {"none", "done", "skipped"}
    PROVE  LedgerAt(t)'
<1>1. \A r, s \in history'[t] : r.at < s.at => Follows(r, s)
  BY DEF LedgerAt, Follows, TypeOK, State
<1>2. \A r \in history'[t] : r = redis'[t].state \/ Follows(r, redis'[t].state)
  BY DEF LedgerAt
<1>3. stage' # "starting"
  BY DEF ClockInv, TypeOK, InWaitFor
<1> QED BY <1>1, <1>2, <1>3 DEF LedgerAt

\* Every step keeps both stores in order, for every ticker.
LEMMA LedgerStep == TypeOK /\ ClockInv /\ LedgerInv /\ [Next]_vars => LedgerInv'
<1> SUFFICES ASSUME TypeOK, ClockInv, LedgerInv, [Next]_vars, NEW u \in Tickers
             PROVE  LedgerAt(u)'
  BY DEF LedgerInv
<1>0. LedgerAt(u) /\ now \in Nat /\ started \in Nat
  BY DEF LedgerInv, TypeOK
<1>1. ASSUME NEW B \in SUBSET Tickers \ {{}}, StartTick(B) PROVE LedgerAt(u)'
  <2>1. /\ redis'[u] = redis[u] /\ history'[u] = history[u] /\ now' = now /\ stage' = "scoring"
        /\ phase'[u] \in {"waiting", "none"} /\ started' = now /\ stage = "starting"
    BY <1>1 DEF StartTick, stores
  <2>2. redis[u].state.at \in Nat /\ started <= now
    BY DEF TypeOK, State, ClockInv
  <2> QED BY <1>0, <2>1, <2>2 DEF LedgerAt
<1>14. CASE Trigger
  <2>1. /\ redis' = redis /\ history' = history /\ now' = now + 1 /\ started' = now + 1
        /\ phase' = phase /\ phase[u] = "none"
    BY <1>14 DEF Trigger, stores, ClockInv, TypeOK, InWaitFor
  <2>2. redis[u].state.at \in Nat
    BY DEF TypeOK, State
  <2> QED BY <1>0, <2>1, <2>2 DEF LedgerAt
<1>2. ASSUME NEW t \in Tickers, BeginScore(t) PROVE LedgerAt(u)'
  <2>1. /\ redis' = redis /\ history' = history /\ now' = now /\ started' = started /\ stage' = stage
        /\ job' = [job EXCEPT ![t] = NextState(t)]
        /\ phase' = [phase EXCEPT ![t] = "writing"] /\ phase[t] = "waiting"
    BY <1>2 DEF BeginScore, stores
  <2>2. CASE u = t
    <3>1. job'[u] = NextState(u) /\ phase'[u] = "writing"
      BY <2>1, <2>2 DEF TypeOK
    <3>2. redis[u].state.at < started /\ redis[u].state.at < now
      BY <1>0, <2>1, <2>2 DEF LedgerAt, ClockInv, TypeOK, State
    <3>3. /\ NextState(u).at = now /\ NextState(u).seed <= now
          /\ \A r \in history[u] : Follows(r, NextState(u))
      BY <3>2, NextFollows
    <3> QED BY <1>0, <2>1, <3>1, <3>2, <3>3 DEF LedgerAt
  <2>3. CASE u # t
    BY <1>0, <2>1, <2>3, LedgerKept DEF TypeOK
  <2> QED BY <2>2, <2>3
<1>3. ASSUME NEW t \in Tickers, WriteState(t) PROVE LedgerAt(u)'
  <2>1. /\ redis' = Written({t}) /\ history' = history /\ now' = now /\ started' = started /\ stage' = stage
        /\ job' = job /\ phase' = [phase EXCEPT ![t] = "persisting"] /\ phase[t] = "writing"
    BY <1>3 DEF WriteState
  <2>2. CASE u = t
    BY <1>0, <2>1, <2>2, LedgerWritten DEF Written, TypeOK
  <2>3. CASE u # t
    BY <1>0, <2>1, <2>3, LedgerKept DEF Written, TypeOK
  <2> QED BY <2>2, <2>3
<1>4. ASSUME NEW t \in Tickers, PersistState(t) PROVE LedgerAt(u)'
  <2>1. /\ redis' = redis /\ history' = Recorded({t}) /\ now' = now /\ started' = started /\ stage' = stage
        /\ job' = [job EXCEPT ![t] = NoState]
        /\ phase' = [phase EXCEPT ![t] = "done"] /\ phase[t] = "persisting"
    BY <1>4 DEF PersistState
  <2>2. CASE u = t
    BY <1>0, <2>1, <2>2, LedgerCommitted DEF Recorded, TypeOK
  <2>3. CASE u # t
    BY <1>0, <2>1, <2>3, LedgerKept DEF Recorded, TypeOK
  <2> QED BY <2>2, <2>3
<1>5. ASSUME NEW t \in Running, Stop(t) PROVE LedgerAt(u)'
  <2>0. t \in Tickers
    BY DEF Running
  <2>1. /\ now' = now /\ started' = started /\ stage' = stage
        /\ job' = [job EXCEPT ![t] = NoState] /\ phase' = [phase EXCEPT ![t] = "skipped"]
    BY <1>5 DEF Stop
  <2>2. CASE UNCHANGED stores
    BY <1>0, <2>0, <2>1, <2>2, LedgerKept DEF stores, TypeOK
  <2>3. CASE phase[t] = "writing" /\ redis' = Written({t}) /\ UNCHANGED <<history, prices>>
    <3>1. CASE u = t
      BY <1>0, <2>0, <2>1, <2>3, <3>1, LedgerWritten DEF Written, TypeOK
    <3>2. CASE u # t
      BY <1>0, <2>0, <2>1, <2>3, <3>2, LedgerKept DEF Written, TypeOK
    <3> QED BY <3>1, <3>2
  <2>4. CASE phase[t] = "persisting" /\ history' = Recorded({t}) /\ UNCHANGED redis
    <3>1. CASE u = t
      BY <1>0, <2>0, <2>1, <2>4, <3>1, LedgerCommitted DEF Recorded, TypeOK
    <3>2. CASE u # t
      BY <1>0, <2>0, <2>1, <2>4, <3>2, LedgerKept DEF Recorded, TypeOK
    <3> QED BY <3>1, <3>2
  <2> QED BY <1>5, <2>2, <2>3, <2>4 DEF Stop
<1>6. CASE EndScoring
  BY <1>0, <1>6, LedgerKept DEF EndScoring, stores
<1>7. CASE PublishStats
  BY <1>0, <1>7, LedgerKept DEF PublishStats, stores
<1>8. CASE PublishSummary
  BY <1>0, <1>8, LedgerKept DEF PublishSummary, stores
<1>9. CASE RecordRun
  BY <1>0, <1>9, LedgerKept DEF RecordRun, EndRun, stores
<1>10. CASE Abandon
  <2>1. now' = now /\ started' = started /\ phase'[u] = "none" /\ stage' = "idle"
    BY <1>10 DEF Abandon, EndRun
  <2>2. PICK W \in SUBSET {t \in Tickers : phase[t] = "writing"},
             P \in SUBSET {t \in Tickers : phase[t] = "persisting"} :
             redis' = Written(W) /\ history' = Recorded(P)
    BY <1>10 DEF Abandon
  <2>3. CASE u \in W
    <3>1. u \notin P /\ phase[u] = "writing"
      BY <2>3
    <3> QED BY <1>0, <2>1, <2>2, <2>3, <3>1, LedgerWritten DEF Written, Recorded
  <2>4. CASE u \in P
    <3>1. u \notin W /\ phase[u] = "persisting"
      BY <2>4
    <3> QED BY <1>0, <2>1, <2>2, <2>4, <3>1, LedgerCommitted DEF Written, Recorded
  <2>5. CASE u \notin W /\ u \notin P
    BY <1>0, <2>1, <2>2, <2>5, LedgerKept DEF Written, Recorded
  <2> QED BY <2>3, <2>4, <2>5
<1>11. ASSUME NEW t \in Tickers, LoseKey(t) PROVE LedgerAt(u)'
  <2>1. redis'[u].state = redis[u].state
    BY <1>11 DEF LoseKey, TypeOK
  <2> QED BY <1>0, <1>11, <2>1, LedgerKept DEF LoseKey
<1>12. CASE Pass
  BY <1>0, <1>12, LedgerKept DEF Pass, stores
<1>13. CASE UNCHANGED vars
  BY <1>0, <1>13, LedgerKept DEF vars
<1> QED
  BY <1>14, <1>1, <1>2, <1>3, <1>4, <1>5, <1>6, <1>7, <1>8, <1>9, <1>10, <1>11, <1>12, <1>13
  DEF Next, ScoreFails, TickerTimeout, Overdue, JobTimeout, Crash

\* The three invariants together are inductive.
LEMMA LedgerAlways == Spec => [](TypeOK /\ ClockInv /\ LedgerInv)
<1>1. Init => TypeOK /\ ClockInv /\ LedgerInv
  BY TypeInit, ClockInit, LedgerInit
<1>2. TypeOK /\ ClockInv /\ LedgerInv /\ [Next]_vars => (TypeOK /\ ClockInv /\ LedgerInv)'
  BY TypeStep, ClockStep, LedgerStep
<1> QED BY <1>1, <1>2, PTL DEF Spec

\* Redis is never behind the history it is served before, for any interleaving
\* of workers, failures, cancellations, crashes and lost keys.
THEOREM RedisLeads == Spec => []RedisNotBehindHistory
<1>1. TypeOK /\ LedgerInv => RedisNotBehindHistory
  BY DEF LedgerInv, LedgerAt, RedisNotBehindHistory, Follows, TypeOK, State
<1> QED BY <1>1, LedgerAlways, PTL

\* The observation counts order a ticker's rows within one EMA chain, and no
\* row continues a chain that a later cold start had ended.
THEOREM ChainsOrdered == Spec => []ChainsAreOrdered
<1>1. LedgerInv => ChainsAreOrdered
  BY DEF LedgerInv, LedgerAt, ChainsAreOrdered, Follows
<1> QED BY <1>1, LedgerAlways, PTL

---------------------------------------------------------------------------
(***************************************************************************)
(* The run implements the ledger.                                          *)
(***************************************************************************)

\* Whatever a step does to the stores of a ticker, it is one of: nothing, the
\* SET of its worker, or the commit of its worker; rows are never removed.
Moves(t) ==
    \/ redis'[t].state = redis[t].state /\ history'[t] = history[t]
    \/ /\ phase[t] = "writing"
       /\ redis'[t].state = job[t] /\ history'[t] = history[t]
    \/ /\ phase[t] = "persisting"
       /\ redis'[t].state = redis[t].state /\ history'[t] = history[t] \cup {job[t]}

\* What a step makes of the state and the rows of one ticker.
LEMMA StoreMoves ==
    ASSUME TypeOK, [Next]_vars, NEW u \in Tickers
    PROVE  Moves(u)
<1>1. ASSUME NEW B \in SUBSET Tickers \ {{}}, StartTick(B) PROVE Moves(u)
  BY <1>1 DEF StartTick, stores, Moves
<1>2. ASSUME NEW t \in Tickers, BeginScore(t) PROVE Moves(u)
  BY <1>2 DEF BeginScore, stores, Moves
<1>3. ASSUME NEW t \in Tickers, WriteState(t) PROVE Moves(u)
  BY <1>3 DEF WriteState, Written, Moves, TypeOK
<1>4. ASSUME NEW t \in Tickers, PersistState(t) PROVE Moves(u)
  BY <1>4 DEF PersistState, Recorded, Moves, TypeOK
<1>5. ASSUME NEW t \in Running, Stop(t) PROVE Moves(u)
  BY <1>5 DEF Stop, stores, Written, Recorded, Moves, TypeOK, Running
<1>6. CASE Abandon
  <2>1. PICK W \in SUBSET {t \in Tickers : phase[t] = "writing"},
             P \in SUBSET {t \in Tickers : phase[t] = "persisting"} :
             redis' = Written(W) /\ history' = Recorded(P)
    BY <1>6 DEF Abandon
  <2>2. CASE u \in W
    BY <2>1, <2>2 DEF Written, Recorded, Moves
  <2>3. CASE u \notin W
    BY <2>1, <2>3 DEF Written, Recorded, Moves
  <2> QED BY <2>2, <2>3
<1>7. ASSUME NEW t \in Tickers, LoseKey(t) PROVE Moves(u)
  BY <1>7 DEF LoseKey, Moves, TypeOK
<1>8. CASE Trigger \/ EndScoring \/ PublishStats \/ PublishSummary \/ RecordRun \/ Pass \/ UNCHANGED vars
  BY <1>8 DEF Trigger, EndScoring, PublishStats, PublishSummary, RecordRun, Pass, vars, stores, Moves
<1> QED
  BY <1>1, <1>2, <1>3, <1>4, <1>5, <1>6, <1>7, <1>8
  DEF Next, ScoreFails, TickerTimeout, Overdue, JobTimeout, Crash

\* A SET moves the published state forward in time, and a commit adds the
\* published state to rows that are all older.
LEMMA LedgerRefined ==
    ASSUME TypeOK, ClockInv, LedgerInv, [Next]_vars
    PROVE  [Ledger!Next]_(Ledger!vars)
<1> SUFFICES ASSUME NEW u \in Tickers
             PROVE  Ledger!Publish(u) \/ Ledger!Record(u) \/ Ledger!Idle(u)
  BY DEF Ledger!Next
<1>0. LedgerAt(u) /\ Moves(u)
  BY StoreMoves DEF LedgerInv
<1>1. CASE redis'[u].state = redis[u].state /\ history'[u] = history[u]
  BY <1>1 DEF Ledger!Idle
<1>2. CASE phase[u] = "writing" /\ redis'[u].state = job[u] /\ history'[u] = history[u]
  <2>1. redis[u].state.at < job[u].at
    BY <1>0, <1>2 DEF LedgerAt, ClockInv, Running, TypeOK, State
  <2> QED BY <1>2, <2>1 DEF Ledger!Publish
<1>3. CASE /\ phase[u] = "persisting"
           /\ redis'[u].state = redis[u].state /\ history'[u] = history[u] \cup {job[u]}
  BY <1>0, <1>3 DEF LedgerAt, Follows, Ledger!Record
<1> QED BY <1>0, <1>1, <1>2, <1>3 DEF Moves

\* Scores of a ticker only move forward in time, and only the latest published
\* state of a ticker is recorded, whatever fails or is cancelled.
THEOREM LedgerImplemented == Spec => ImplementsLedger
<1>1. Init => Ledger!Init
  BY DEF Init, Ledger!Init, NoState
<1>2. TypeOK /\ ClockInv /\ LedgerInv /\ [Next]_vars => [Ledger!Next]_(Ledger!vars)
  BY LedgerRefined
<1> QED BY <1>1, <1>2, LedgerAlways, PTL DEF Spec, ImplementsLedger, Ledger!Spec

---------------------------------------------------------------------------
(***************************************************************************)
(* What the run publishes about itself.                                    *)
(***************************************************************************)
ResultsAreCommitted == \A t \in results : RowIn(t, started, now)
ReportInv ==
    /\ ResultsAreCommitted
    /\ PercentilesAreCommitted /\ RecordedRunScored /\ SummaryDoesNotOverstate

\* Before the first run nothing is reported.
LEMMA ReportInit == Init => ReportInv
<1> SUFFICES ASSUME Init PROVE ReportInv
  OBVIOUS
<1>1. summary.scored = 0 /\ summary.active = 0
  BY DEF Init
<1>2. SummaryDoesNotOverstate
  BY <1>1, Counted DEF SummaryDoesNotOverstate
<1> QED BY <1>2 DEF Init, ReportInv, ResultsAreCommitted, PercentilesAreCommitted,
                 RecordedRunScored

\* No step removes a history row.
LEMMA HistoryGrows ==
    ASSUME TypeOK, [Next]_vars
    PROVE  \A t \in Tickers : history[t] \subseteq history'[t]
BY StoreMoves DEF Moves

\* While a report keeps its value it stays true, because history grows.
LEMMA ReportsKept ==
    ASSUME TypeOK, TypeOK', [Next]_vars, ReportInv
    PROVE  /\ UNCHANGED pct => PercentilesAreCommitted'
           /\ UNCHANGED <<lastStart, lastRun>> => RecordedRunScored'
           /\ UNCHANGED summary => SummaryDoesNotOverstate'
<1>1. UNCHANGED pct => PercentilesAreCommitted'
  BY HistoryGrows DEF ReportInv, PercentilesAreCommitted, RowIn, TypeOK
<1>2. UNCHANGED <<lastStart, lastRun>> => RecordedRunScored'
  BY HistoryGrows DEF ReportInv, RecordedRunScored, RowIn
<1>3. ASSUME UNCHANGED summary PROVE SummaryDoesNotOverstate'
  <2> DEFINE S == {t \in Tickers :
                     \E r \in history[t] : summary.at <= r.at + JobLimit /\ r.at <= summary.at}
             T == {t \in Tickers :
                     \E r \in history'[t] : summary.at <= r.at + JobLimit /\ r.at <= summary.at}
  <2>1. S \in SUBSET T /\ T \in SUBSET Tickers /\ S \in SUBSET Tickers
    BY HistoryGrows
  <2> HIDE DEF S, T
  <2>2. Cardinality(S) <= Cardinality(T) /\ Cardinality(S) \in Nat /\ Cardinality(T) \in Nat
    BY <2>1, Counted, CountedSubset
  <2>3. summary.scored <= summary.active /\ summary.scored <= Cardinality(S)
    BY DEF S, ReportInv, SummaryDoesNotOverstate
  <2>4. summary.scored \in Nat
    BY DEF TypeOK
  <2>5. summary.scored <= Cardinality(T)
    BY <2>2, <2>3, <2>4
  <2> QED BY <1>3, <2>3, <2>5 DEF T, SummaryDoesNotOverstate
<1> QED BY <1>1, <1>2, <1>3

\* The results dict holds committed rows of this run, so long as results and
\* start do not change and the clock does not go back.
LEMMA ResultsKept ==
    ASSUME TypeOK, [Next]_vars, ReportInv,
           started' = started, results' \subseteq results, now' \in {now, now + 1}
    PROVE  ResultsAreCommitted'
BY HistoryGrows DEF ReportInv, ResultsAreCommitted, RowIn, TypeOK, State

\* Publication: each report is written from results that are committed rows of
\* the run, within its ceiling.
LEMMA ReportStep ==
    TypeOK /\ TypeOK' /\ ClockInv /\ ReportInv /\ [Next]_vars => ReportInv'
<1> SUFFICES ASSUME TypeOK, TypeOK', ClockInv, ReportInv, [Next]_vars
             PROVE  ReportInv'
  OBVIOUS
<1> USE TickAssumption
<1>0. /\ UNCHANGED pct => PercentilesAreCommitted'
      /\ UNCHANGED <<lastStart, lastRun>> => RecordedRunScored'
      /\ UNCHANGED summary => SummaryDoesNotOverstate'
  BY ReportsKept
<1>1. ASSUME NEW B \in SUBSET Tickers \ {{}}, StartTick(B) PROVE ReportInv'
  BY <1>0, <1>1 DEF StartTick, reports, ResultsAreCommitted, ReportInv
<1>14. CASE Trigger
  <2>1. ResultsAreCommitted'
    BY <1>14 DEF Trigger, ClockInv, InWaitFor, ResultsAreCommitted
  <2>2. CASE UNCHANGED lastStart
    BY <1>0, <1>14, <2>1, <2>2 DEF Trigger, ReportInv
  <2>3. CASE lastStart' = now + 1
    <3>1. RecordedRunScored'
      BY <1>14, <2>3 DEF Trigger, ClockInv, RecordedRunScored, TypeOK
    <3> QED BY <1>0, <1>14, <2>1, <3>1 DEF Trigger, ReportInv
  <2> QED BY <1>14, <2>2, <2>3 DEF Trigger
<1>2. ASSUME NEW t \in Tickers, BeginScore(t) PROVE ReportInv'
  BY <1>0, <1>2, ResultsKept DEF BeginScore, reports, ReportInv
<1>3. ASSUME NEW t \in Tickers, WriteState(t) PROVE ReportInv'
  BY <1>0, <1>3, ResultsKept DEF WriteState, reports, ReportInv
<1>4. ASSUME NEW t \in Tickers, PersistState(t) PROVE ReportInv'
  <2>1. started <= job[t].at /\ job[t].at <= now
    BY <1>4 DEF PersistState, ClockInv, Running
  <2>2. RowIn(t, started, now)'
    BY <1>4, <2>1 DEF PersistState, Recorded, RowIn, TypeOK
  <2>3. \A u \in results : RowIn(u, started, now)'
    BY <1>4, HistoryGrows DEF PersistState, ReportInv, ResultsAreCommitted, RowIn, TypeOK
  <2>4. ResultsAreCommitted'
    BY <1>4, <2>2, <2>3 DEF PersistState, ResultsAreCommitted
  <2> QED BY <1>0, <1>4, <2>4 DEF PersistState, reports, ReportInv
<1>5. ASSUME NEW t \in Running, Stop(t) PROVE ReportInv'
  BY <1>0, <1>5, ResultsKept DEF Stop, reports, ReportInv
<1>6. CASE EndScoring
  BY <1>0, <1>6, ResultsKept DEF EndScoring, reports, ReportInv
<1>7. CASE PublishStats
  <2>1. ResultsAreCommitted'
    BY <1>7, ResultsKept DEF PublishStats
  <2>2. CASE pct' = [at |-> now, tickers |-> results]
    <3>1. now \in Nat /\ started \in 0..now /\ now <= started + JobLimit
      BY <1>7 DEF PublishStats, ClockInv, TypeOK, InWaitFor
    <3>2. \A t \in results : RowIn(t, started, now)'
      BY <1>7, HistoryGrows DEF PublishStats, stores, ReportInv, ResultsAreCommitted, RowIn, TypeOK
    <3>3. PercentilesAreCommitted'
      BY <1>7, <2>2, <3>1, <3>2 DEF PublishStats, PercentilesAreCommitted, RowIn
    <3> QED BY <1>0, <1>7, <2>1, <3>3 DEF PublishStats, ReportInv
  <2>3. CASE UNCHANGED pct
    BY <1>0, <1>7, <2>1, <2>3 DEF PublishStats, ReportInv
  <2> QED BY <1>7, <2>2, <2>3 DEF PublishStats
<1>8. CASE PublishSummary
  <2>1. ResultsAreCommitted'
    BY <1>8, ResultsKept DEF PublishSummary
  <2>2. CASE summary' = [at |-> now, scored |-> Cardinality(results), active |-> Cardinality(batch)]
    <3> DEFINE S == {t \in Tickers : \E r \in history[t] : now <= r.at + JobLimit /\ r.at <= now}
    <3>1. results \in SUBSET S
      BY <1>8 DEF PublishSummary, ReportInv, ResultsAreCommitted, RowIn, ClockInv, TypeOK, State
    <3>2. Cardinality(results) <= Cardinality(S)
      BY <3>1, CountedSubset
    <3>3. Cardinality(results) <= Cardinality(batch)
      BY CountedSubset DEF ClockInv, TypeOK
    <3>4. SummaryDoesNotOverstate'
      BY <1>8, <2>2, <3>2, <3>3 DEF PublishSummary, stores, SummaryDoesNotOverstate
    <3> QED BY <1>0, <1>8, <2>1, <3>4 DEF PublishSummary, ReportInv
  <2>3. CASE UNCHANGED summary
    BY <1>0, <1>8, <2>1, <2>3 DEF PublishSummary, ReportInv
  <2> QED BY <1>8, <2>2, <2>3 DEF PublishSummary
<1>9. CASE RecordRun
  <2>1. ResultsAreCommitted'
    BY <1>9 DEF RecordRun, EndRun, ResultsAreCommitted
  <2>2. CASE results # {} /\ lastRun' = now
    <3>1. PICK t \in results : RowIn(t, started, now)
      BY <2>2 DEF ReportInv, ResultsAreCommitted
    <3>2. RowIn(t, lastStart, now)'
      BY <1>9, <3>1 DEF RecordRun, stores, RowIn, ClockInv, TypeOK, State
    <3>3. RecordedRunScored'
      BY <1>9, <2>2, <3>2 DEF RecordRun, RecordedRunScored, RowIn, TypeOK
    <3> QED BY <1>0, <1>9, <2>1, <3>3 DEF RecordRun, ReportInv
  <2>3. CASE UNCHANGED lastRun
    BY <1>0, <1>9, <2>1, <2>3 DEF RecordRun, ReportInv
  <2> QED BY <1>9, <2>2, <2>3 DEF RecordRun
<1>10. CASE Abandon
  BY <1>0, <1>10, ResultsKept DEF Abandon, EndRun, reports, ReportInv
<1>11. ASSUME NEW t \in Tickers, LoseKey(t) PROVE ReportInv'
  BY <1>0, <1>11, ResultsKept DEF LoseKey, reports, ReportInv
<1>12. CASE Pass
  BY <1>0, <1>12, ResultsKept DEF Pass, reports, ReportInv
<1>13. CASE UNCHANGED vars
  BY <1>0, <1>13, ResultsKept DEF vars, ReportInv
<1> QED
  BY <1>14, <1>1, <1>2, <1>3, <1>4, <1>5, <1>6, <1>7, <1>8, <1>9, <1>10, <1>11, <1>12, <1>13
  DEF Next, ScoreFails, TickerTimeout, Overdue, JobTimeout, Crash

\* Percentiles, run record and tick summary are backed by committed history rows,
\* for any universe and limits: a worker that was skipped, timed out or was
\* cancelled is in none of them.
THEOREM ReportsBacked == Spec => []ReportsAreBacked
<1>1. Init => ReportInv
  BY ReportInit
<1>2. TypeOK /\ ClockInv /\ LedgerInv /\ ReportInv /\ TypeOK' /\ [Next]_vars => ReportInv'
  BY ReportStep
<1>3. ReportInv => ReportsAreBacked
  BY DEF ReportInv, ReportsAreBacked
<1> QED BY <1>1, <1>2, <1>3, LedgerAlways, PTL DEF Spec
---------------------------------------------------------------------------
(***************************************************************************)
(* The two inserts of a worker's transaction.                              *)
(***************************************************************************)

\* The transactions of any set of workers add the same rows to both tables.
LEMMA InsertedTogether ==
    ASSUME TypeOK, SnapshotsMatchHistory, NEW P \in SUBSET Tickers,
           history' = Recorded(P), prices' = Snapshots(P)
    PROVE  SnapshotsMatchHistory'
<1> DEFINE RowsOf(t) == {<<t, r.at>> : r \in {x \in history[t] : x.at \in SessionTimes}}
           Owed(t) == {<<t, r.at>> : r \in {x \in history'[t] : x.at \in SessionTimes}}
           Added(t) == IF t \in P /\ job[t].at \in SessionTimes THEN {<<t, job[t].at>>} ELSE {}
<1>1. \A t \in Quoted : Owed(t) = RowsOf(t) \cup Added(t)
  BY TickAssumption DEF Recorded
<1>2. Snapshots(P) = prices \cup UNION {Added(t) : t \in Quoted}
  BY TickAssumption DEF Snapshots
<1>3. prices = UNION {RowsOf(t) : t \in Quoted}
  BY DEF SnapshotsMatchHistory
<1> HIDE DEF RowsOf, Added
<1>4. prices' = UNION {Owed(t) : t \in Quoted}
  <2> HIDE DEF Owed
  <2> QED BY <1>1, <1>2, <1>3
<1> QED BY <1>4 DEF SnapshotsMatchHistory

\* A step that touches neither table keeps them matched.
LEMMA TablesKept ==
    ASSUME SnapshotsMatchHistory, UNCHANGED <<history, prices>>
    PROVE  SnapshotsMatchHistory'
BY DEF SnapshotsMatchHistory

\* A step inserts for a set of workers, in both tables, or in neither.
LEMMA InsertsAreOne ==
    ASSUME TypeOK, [Next]_vars
    PROVE  \/ UNCHANGED <<history, prices>>
           \/ \E P \in SUBSET Tickers : history' = Recorded(P) /\ prices' = Snapshots(P)
<1>1. ASSUME NEW t \in Tickers, PersistState(t)
      PROVE  history' = Recorded({t}) /\ prices' = Snapshots({t}) /\ {t} \in SUBSET Tickers
  BY <1>1 DEF PersistState
<1>2. ASSUME NEW t \in Running, Stop(t)
      PROVE  \/ UNCHANGED <<history, prices>>
             \/ \E P \in SUBSET Tickers : history' = Recorded(P) /\ prices' = Snapshots(P)
  <2>1. {t} \in SUBSET Tickers
    BY DEF Running
  <2> QED BY <1>2, <2>1 DEF Stop, stores
<1>3. CASE Abandon
  <2>1. PICK P \in SUBSET {t \in Tickers : phase[t] = "persisting"} :
             history' = Recorded(P) /\ prices' = Snapshots(P)
    BY <1>3 DEF Abandon
  <2> QED BY <2>1
<1>4. ASSUME NEW B \in SUBSET Tickers \ {{}}, StartTick(B) PROVE UNCHANGED <<history, prices>>
  BY <1>4 DEF StartTick, stores
<1>5. ASSUME NEW t \in Tickers, BeginScore(t) \/ WriteState(t) \/ LoseKey(t)
      PROVE  UNCHANGED <<history, prices>>
  BY <1>5 DEF BeginScore, WriteState, LoseKey, stores
<1>6. CASE Trigger \/ EndScoring \/ PublishStats \/ PublishSummary \/ RecordRun \/ Pass \/ UNCHANGED vars
  BY <1>6 DEF Trigger, EndScoring, PublishStats, PublishSummary, RecordRun, Pass, vars, stores
<1> QED
  BY <1>1, <1>2, <1>3, <1>4, <1>5, <1>6
  DEF Next, ScoreFails, TickerTimeout, Overdue, JobTimeout, Crash

\* price_snapshots holds exactly the quoted, in-session rows of sentiment_history,
\* whichever workers were cut off, cancelled or killed while committing.
THEOREM SnapshotsMatched == Spec => []SnapshotsMatchHistory
<1>1. Init => SnapshotsMatchHistory
  BY TickAssumption DEF Init, SnapshotsMatchHistory
<1>2. TypeOK /\ SnapshotsMatchHistory /\ [Next]_vars => SnapshotsMatchHistory'
  BY InsertedTogether, TablesKept, InsertsAreOne
<1> QED BY <1>1, <1>2, TypeCorrect, PTL DEF Spec
=============================================================================
