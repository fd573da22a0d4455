----------------------- MODULE LayerFallback_proofs -----------------------
(***************************************************************************)
(* Proofs about LayerFallback for any calendar, thresholds, windows and    *)
(* feeds: what a published layer stands on is of bounded age, one absence  *)
(* is charged once, and a layer that was lost does not come back out of    *)
(* old rows.  The invariant relates the timestamp that is copied from      *)
(* state to state to the data behind it: whenever the timestamp is good    *)
(* enough for the fallback, the data are not much older.  For lost layers  *)
(* it says that the rows do not make them, which time cannot change: no    *)
(* row becomes usable again (NoneReturns).  About the formulas: the        *)
(* composite and the smoothing of its score, and the RSI, returns, spread  *)
(* and order flow that the market layer is made of, for any inputs.        *)
(***************************************************************************)
EXTENDS LayerFallback, ScoreHonesty, Sequences, FiniteSetTheorems, TLAPS

---------------------------------------------------------------------------
(* Newest and oldest rows.                                                 *)

\* The clock counts up from 0.
LEMMA TimesAreNaturals == Times \subseteq Nat
BY LayersAssumed DEF LayerAssumption, Times

\* A kind belongs to a layer.
LEMMA LayerOfKind ==
    ASSUME NEW k \in Kinds PROVE LayerOf(k) \in Layers /\ k \in KindsOf[LayerOf(k)]
<1>1. \E l \in Layers : k \in KindsOf[l]
    BY DEF Kinds, KindsOf, Layers
<1> QED BY <1>1 DEF LayerOf

\* A function on a finite set has a greatest value: what lies above a member shrinks as
\* the value grows, and proper inclusion is well-founded on the subsets of a finite set.
LEMMA GreatestOf ==
    ASSUME NEW S, IsFiniteSet(S), S # {}, NEW f \in [S -> Int]
    PROVE  \E a \in S : \A b \in S : f[b] <= f[a]
<1> DEFINE Above(a) == {b \in S : f[a] < f[b]}
           T == {Above(a) : a \in S}
<1>1. T \subseteq SUBSET S /\ \E x : x \in T
    <2>1. PICK a \in S : TRUE OBVIOUS
    <2> QED BY <2>1
<1> HIDE DEF T
<1>2. PICK x \in T : \A y \in T : ~ (<<y, x>> \in StrictSubsetOrdering(S))
    <2>1. IsWellFoundedOn(StrictSubsetOrdering(S), SUBSET S)
        BY FS_StrictSubsetOrderingWellFounded, FS_FiniteSubsetsOfFinite
    <2>2. T \subseteq SUBSET S /\ T # {} BY <1>1
    <2> QED BY <2>1, <2>2, WFMin
<1>3. PICK a \in S : x = Above(a) BY DEF T
<1>4. ASSUME NEW b \in S, f[a] < f[b] PROVE FALSE
    <2>1. Above(b) \in T BY DEF T
    <2>2. Above(b) \subseteq Above(a) /\ b \in Above(a) /\ b \notin Above(b) BY <1>4
    <2> QED BY <1>1, <1>2, <1>3, <2>1, <2>2 DEF StrictSubsetOrdering
<1> QED BY <1>4

\* A nonempty bounded set of naturals has a greatest and a least element.
LEMMA Extremes ==
    ASSUME NEW n \in Nat, NEW S \in SUBSET (0 .. n), S # {}
    PROVE  /\ \E i \in S : \A j \in S : j <= i
           /\ \E i \in S : \A j \in S : i <= j
<1>1. IsFiniteSet(S)
    <2>1. S \in SUBSET Nat /\ \A i \in S : i <= n OBVIOUS
    <2> QED BY <2>1, FS_BoundedSetOfNaturals
<1> DEFINE same == [i \in S |-> i]
           negated == [i \in S |-> 0 - i]
<1>2. \E i \in S : \A j \in S : j <= i
    <2>1. same \in [S -> Int] /\ \A i \in S : same[i] = i OBVIOUS
    <2> HIDE DEF same
    <2>2. \E i \in S : \A j \in S : same[j] <= same[i] BY <1>1, <2>1, GreatestOf
    <2> QED BY <2>1, <2>2
<1>3. \E i \in S : \A j \in S : i <= j
    <2>1. negated \in [S -> Int] /\ \A i \in S : i \in Int /\ negated[i] = 0 - i OBVIOUS
    <2> HIDE DEF negated
    <2>2. \E i \in S : \A j \in S : negated[j] <= negated[i] BY <1>1, <2>1, GreatestOf
    <2> QED BY <2>1, <2>2
<1> QED BY <1>2, <1>3

\* The newest and the oldest of some rows are rows among them.
LEMMA NewestOldest ==
    ASSUME rows \in [Kinds -> Stamp], NEW K \in SUBSET Kinds, K # {}, None \notin {rows[k] : k \in K}
    PROVE  /\ Newest(K) \in Times /\ Oldest(K) \in Times
           /\ \E k \in K : rows[k] = Newest(K)
           /\ \E k \in K : rows[k] = Oldest(K)
           /\ \A k \in K : Oldest(K) <= rows[k] /\ rows[k] <= Newest(K)
<1> DEFINE S == {rows[k] : k \in K}
<1>0. Horizon \in Nat BY LayersAssumed DEF LayerAssumption
<1>1. S \subseteq 0 .. Horizon /\ S # {} BY DEF Stamp, Times
<1>2. \E i \in S : \A j \in S : j <= i
    <2> HIDE DEF S
    <2> QED BY <1>0, <1>1, Extremes
<1>3. \E i \in S : \A j \in S : i <= j
    <2> HIDE DEF S
    <2> QED BY <1>0, <1>1, Extremes
<1>4. Newest(K) = CHOOSE ts \in S : \A k \in K : rows[k] <= ts BY DEF Newest
<1>5. Oldest(K) = CHOOSE ts \in S : \A k \in K : ts <= rows[k] BY DEF Oldest
<1>6. Newest(K) \in S /\ \A k \in K : rows[k] <= Newest(K)
    <2>1. \E ts \in S : \A k \in K : rows[k] <= ts BY <1>2
    <2> QED BY <1>4, <2>1
<1>7. Oldest(K) \in S /\ \A k \in K : Oldest(K) <= rows[k]
    <2>1. \E ts \in S : \A k \in K : ts <= rows[k] BY <1>3
    <2> QED BY <1>5, <2>1
<1> QED BY <1>1, <1>6, <1>7 DEF Times

\* The newest of any rows is a timestamp or nothing.
LEMMA NewestTyped ==
    ASSUME rows \in [Kinds -> Stamp], NEW K \in SUBSET Kinds, None \notin {rows[k] : k \in K}
    PROVE  Newest(K) \in Stamp
<1>1. CASE K = {} BY <1>1 DEF Newest, Stamp
<1>2. CASE K # {} BY <1>2, NewestOldest DEF Stamp
<1> QED BY <1>1, <1>2

---------------------------------------------------------------------------
(* The calendar.                                                           *)

\* The last close is the latest close that is not after t.
LEMMA LastClose ==
    ASSUME NEW t \in Times
    PROVE  /\ last_close(t) \in Closes /\ last_close(t) \in Int /\ last_close(t) <= t
           /\ \A c \in Closes : c <= t => c <= last_close(t)
<1>1. \E c \in Closes : c <= t /\ \A x \in Closes : x <= t => x <= c
    BY CalendarAssumed DEF CalendarAssumption
<1>2. last_close(t) \in Closes /\ last_close(t) <= t
      /\ \A c \in Closes : c <= t => c <= last_close(t)
    BY <1>1 DEF last_close
<1>3. Closes \subseteq Int BY LayersAssumed DEF LayerAssumption, Closes
<1> QED BY <1>2, <1>3

\* What is fresh enough for the fallback in a session is later than the close before it.
LEMMA FreshAfterClose ==
    ASSUME NEW t \in Times, NEW ts \in Times, ~_market_stale(ts, t)
    PROVE  ts >= last_close(t) - EOD_GRACE
<1> DEFINE L == last_close(t)
<1>1. L \in Closes /\ L \in Int /\ L <= t BY LastClose
<1>2. EOD_GRACE \in Nat /\ STALENESS_THRESHOLDS["market"] \in Nat /\ t \in Int /\ ts \in Int
    BY LayersAssumed DEF LayerAssumption, Sources, Times
<1>3. CASE is_market_hours(t)
    <2>1. PICK s \in Sessions : s.open <= t /\ t < s.close BY <1>3 DEF is_market_hours
    <2>2. s.open \in Int /\ s.close \in Int BY LayersAssumed DEF LayerAssumption
    <2>3. L < s.close BY <1>1, <1>2, <2>1, <2>2
    <2>4. L + STALENESS_THRESHOLDS["market"] < s.open
        BY <1>1, <2>3, CalendarAssumed DEF CalendarAssumption
    <2>5. ~(t - ts > STALENESS_THRESHOLDS["market"]) BY <1>3 DEF _market_stale
    <2> HIDE DEF L
    <2>6. ts >= L - EOD_GRACE BY <1>1, <1>2, <2>1, <2>2, <2>4, <2>5
    <2> QED BY <2>6 DEF L
<1>4. CASE ~is_market_hours(t)
    <2>1. ~(ts < L - EOD_GRACE) BY <1>4 DEF _market_stale
    <2> HIDE DEF L
    <2>2. ts >= L - EOD_GRACE BY <1>1, <1>2, <2>1
    <2> QED BY <2>2 DEF L
<1> QED BY <1>3, <1>4

\* Outside the sessions the closes within reach of a row that has arrived are over.
LEMMA ClosesAreOver ==
    ASSUME NEW t \in Times, ~is_market_hours(t), NEW c \in Closes, t >= c - EOD_GRACE
    PROVE  c <= last_close(t)
<1>1. PICK s \in Sessions : c = s.close BY DEF Closes
<1>2. s.open \in Int /\ s.close \in Int /\ EOD_GRACE \in Nat /\ t \in Int
    BY LayersAssumed DEF LayerAssumption, Times
<1>3. s.open + EOD_GRACE <= s.close BY CalendarAssumed DEF CalendarAssumption
<1>4. ~(s.open <= t /\ t < s.close) BY DEF is_market_hours
<1>5. c <= t BY <1>1, <1>2, <1>3, <1>4
<1> QED BY <1>5, LastClose

\* A close inside the window that is read after a session is the close of that session.
LEMMA CloseInWindow ==
    ASSUME NEW t \in Times, NEW c \in Closes, open_of(last_close(t)) <= c
    PROVE  c >= last_close(t)
<1> DEFINE L == last_close(t)
           s == CHOOSE s \in Sessions : s.close = L
<1>1. L \in Closes /\ L \in Int BY LastClose
<1>2. s \in Sessions /\ s.close = L
    <2>1. \E x \in Sessions : x.close = L BY <1>1 DEF Closes
    <2> QED BY <2>1
<1>3. s.open = open_of(L) BY DEF open_of
<1>4. c \in Int /\ s.open \in Int /\ STALENESS_THRESHOLDS["market"] \in Nat
    BY <1>2, LayersAssumed DEF LayerAssumption, Closes, Sources
<1>5. c < L => c + STALENESS_THRESHOLDS["market"] < s.open
    BY <1>2, CalendarAssumed DEF CalendarAssumption
<1>6. s.open <= c BY <1>3
<1> HIDE DEF L, s
<1>7. c >= L BY <1>1, <1>4, <1>5, <1>6
<1> QED BY <1>7 DEF L
\* A day begins before it ends, and no day begins before the one it follows.
LEMMA DayStarts ==
    ASSUME NEW t \in Nat, NEW d \in Nat \ {0}
    PROVE  /\ (t \div d) * d \in Nat /\ (t \div d) * d <= t
           /\ (t \div d) * d <= ((t + 1) \div d) * d
<1> DEFINE q == t \div d
           p == (t + 1) \div d
<1>1. q \in Nat /\ p \in Nat /\ q * d \in Nat /\ q * d <= t /\ t + 1 < (p + 1) * d
    OBVIOUS
<1> HIDE DEF q, p
<1>2. q <= p
    <2> SUFFICES ASSUME p + 1 <= q PROVE FALSE
        BY <1>1
    <2>1. (p + 1) * d <= q * d BY <1>1
    <2> QED BY <1>1, <2>1
<1>3. q * d <= p * d BY <1>1, <1>2
<1> QED BY <1>1, <1>3 DEF q, p

\* With time the last close only becomes a later one, at the moment that it comes.
LEMMA NextClose ==
    ASSUME NEW t \in Times, t + 1 \in Times
    PROVE  \/ last_close(t + 1) = last_close(t)
           \/ last_close(t + 1) = t + 1
<1> DEFINE u == t + 1
           L == last_close(t)
           M == last_close(u)
<1>1. L \in Closes /\ L \in Int /\ L <= t /\ \A c \in Closes : c <= t => c <= L BY LastClose
<1>2. M \in Closes /\ M \in Int /\ M <= u /\ \A c \in Closes : c <= u => c <= M
    <2>1. u \in Times OBVIOUS
    <2> HIDE DEF u
    <2> QED BY <2>1, LastClose
<1>3. t \in Int /\ u = t + 1 BY LayersAssumed DEF LayerAssumption, Times
<1> HIDE DEF L, M, u
<1>4. M <= t => M = L BY <1>1, <1>2, <1>3
<1>5. M = L \/ M = u BY <1>2, <1>3, <1>4
<1> QED BY <1>5 DEF L, M, u

\* A later instant has no earlier last close.
LEMMA ClosesOnly ==
    ASSUME NEW t \in Times, NEW u \in Times, t <= u
    PROVE  last_close(t) <= last_close(u)
<1>1. last_close(t) \in Closes /\ last_close(t) <= t /\ last_close(t) \in Int BY LastClose
<1>2. last_close(t) <= u BY <1>1, LayersAssumed DEF LayerAssumption, Times
<1> QED BY <1>1, <1>2, LastClose

\* A session ends when it is no longer in progress, which is its close.
LEMMA SessionEnds ==
    ASSUME NEW t \in Times, t + 1 \in Times, is_market_hours(t), ~is_market_hours(t + 1)
    PROVE  last_close(t + 1) = t + 1
<1> DEFINE u == t + 1
<1>1. PICK s \in Sessions : s.open <= t /\ t < s.close BY DEF is_market_hours
<1>2. s.open \in Int /\ s.close \in Int /\ t \in Int
    BY LayersAssumed DEF LayerAssumption, Times
<1>3. ~(s.open <= u /\ u < s.close) BY DEF is_market_hours
<1>4. s.close = u BY <1>1, <1>2, <1>3
<1>5. u \in Closes /\ u <= u BY <1>2, <1>4 DEF Closes
<1>6. u \in Times /\ u \in Int BY <1>2
<1> HIDE DEF u
<1>7. u <= last_close(u) /\ last_close(u) <= u /\ last_close(u) \in Int BY <1>5, <1>6, LastClose
<1>8. last_close(u) = u BY <1>6, <1>7
<1> QED BY <1>8 DEF u

\* Between two sessions everything that was traded is from before the last close.
LEMMA TradedBefore ==
    ASSUME NEW t \in Times, ~is_market_hours(t), NEW ts \in Times, ts <= t, is_market_hours(ts)
    PROVE  ts < last_close(t)
<1>1. PICK s \in Sessions : s.open <= ts /\ ts < s.close BY DEF is_market_hours
<1>2. s.open \in Int /\ s.close \in Int /\ t \in Int /\ ts \in Int
    BY LayersAssumed DEF LayerAssumption, Times
<1>3. ~(s.open <= t /\ t < s.close) BY DEF is_market_hours
<1>4. s.close <= t /\ s.close \in Closes BY <1>1, <1>2, <1>3 DEF Closes
<1>5. s.close <= last_close(t) /\ last_close(t) \in Int BY <1>4, LastClose
<1> QED BY <1>1, <1>2, <1>5

\* Nor does anything of the last session, or of one before, matter in the next.
LEMMA NewSession ==
    ASSUME NEW t \in Times, t + 1 \in Times, ~is_market_hours(t), is_market_hours(t + 1)
    PROVE  last_close(t) + STALENESS_THRESHOLDS["market"] < t + 1
<1>1. PICK s \in Sessions : s.open <= t + 1 /\ t + 1 < s.close BY DEF is_market_hours
<1>2. s.open \in Int /\ s.close \in Int /\ t \in Int /\ STALENESS_THRESHOLDS["market"] \in Nat
    BY LayersAssumed DEF LayerAssumption, Times, Sources
<1>3. last_close(t) \in Closes /\ last_close(t) \in Int /\ last_close(t) <= t BY LastClose
<1>4. last_close(t) < s.close BY <1>1, <1>2, <1>3
<1>5. last_close(t) + STALENESS_THRESHOLDS["market"] < s.open
    BY <1>3, <1>4, CalendarAssumed DEF CalendarAssumption
<1> QED BY <1>1, <1>2, <1>3, <1>5

\* The file of short volumes that is missing stays missing.
LEMMA ShortVolumeAges ==
    ASSUME NEW t \in Times, t + 1 \in Times, NEW ts \in Times, ~_short_volume_stale(ts, t + 1)
    PROVE  ~_short_volume_stale(ts, t)
<1> DEFINE d == (t \div Day) * Day
           e == ((t + 1) \div Day) * Day
<1>1. Day \in Nat \ {0} /\ Horizon \in Nat /\ EOD_GRACE \in Nat BY LayersAssumed DEF LayerAssumption
<1>2. t \in Nat /\ t + 1 \in Nat /\ t <= Horizon /\ t + 1 <= Horizon /\ ts \in Nat
    BY <1>1 DEF Times
<1>3. d \in Nat /\ d <= t /\ d <= e BY <1>1, <1>2, DayStarts
<1>4. e \in Nat /\ e <= t + 1
    <2> DEFINE u == t + 1
    <2>1. u \in Nat BY <1>2
    <2> HIDE DEF u
    <2>2. (u \div Day) * Day \in Nat /\ (u \div Day) * Day <= u BY <1>1, <2>1, DayStarts
    <2> QED BY <2>2 DEF u
<1>5. ~(ts < last_close(e) - EOD_GRACE) BY DEF _short_volume_stale
<1> HIDE DEF d, e
<1>6. d \in Times /\ e \in Times BY <1>1, <1>2, <1>3, <1>4 DEF Times
<1>7. last_close(d) <= last_close(e) /\ last_close(d) \in Int /\ last_close(e) \in Int
    BY <1>3, <1>6, ClosesOnly, LastClose
<1>8. ~(ts < last_close(d) - EOD_GRACE) BY <1>1, <1>2, <1>5, <1>7
<1> QED BY <1>8 DEF d, _short_volume_stale

\* A row that can be used now could be used a moment ago, whatever begins or ends now.
LEMMA NoneReturns ==
    ASSUME NEW t \in Times, t + 1 \in Times, NEW k \in Components, NEW ts \in Times, ts <= t,
           k = "short_volume" => ts \in Closes, k = "liquidity" => is_market_hours(ts),
           market_lookback_since(t + 1) <= ts, ~signal_is_stale(k, ts, t + 1)
    PROVE  market_lookback_since(t) <= ts /\ ~signal_is_stale(k, ts, t)
<1> DEFINE u == t + 1
           L == last_close(t)
           M == last_close(u)
           h == STALENESS_THRESHOLDS["market"]
<1>1. /\ t \in Int /\ ts \in Int /\ u = t + 1 /\ u \in Times
      /\ EOD_GRACE \in Nat /\ MARKET_LOOKBACK \in Nat /\ h \in Nat /\ SignalAge[k] \in Nat
    BY LayersAssumed DEF LayerAssumption, Times, Sources
<1>2. /\ k # "short_volume" => EOD_GRACE <= SignalAge[k] /\ SignalAge[k] <= h
      /\ EOD_GRACE <= MARKET_LOOKBACK /\ MARKET_LOOKBACK <= h
    BY ThresholdsAssumed DEF ThresholdAssumption
<1>3. L \in Closes /\ L \in Int /\ L <= t /\ \A c \in Closes : c <= t => c <= L BY LastClose
<1>4. k = "short_volume" => ~_short_volume_stale(ts, u) /\ ~_short_volume_stale(ts, t)
    BY ShortVolumeAges DEF signal_is_stale
<1>5. market_lookback_since(u) <= ts /\ ~signal_is_stale(k, ts, u) OBVIOUS
<1>6. M = L \/ M = u BY NextClose
<1>7. is_market_hours(t) /\ ~is_market_hours(u) => M = u BY SessionEnds
<1>8. ~is_market_hours(t) /\ is_market_hours(u) => L + h < u BY NewSession
<1> HIDE DEF u, L, M, h
<1>9. CASE is_market_hours(u) /\ is_market_hours(t)
    <2>1. u - MARKET_LOOKBACK <= ts /\ (k # "short_volume" => ~(u - ts > SignalAge[k]))
        BY <1>5, <1>9 DEF market_lookback_since, signal_is_stale
    <2>2. t - MARKET_LOOKBACK <= ts /\ (k # "short_volume" => ~(t - ts > SignalAge[k]))
        BY <1>1, <2>1
    <2> QED BY <1>4, <1>9, <2>2 DEF market_lookback_since, signal_is_stale
<1>10. CASE is_market_hours(u) /\ ~is_market_hours(t)
    <2>1. u - MARKET_LOOKBACK <= ts /\ (k # "short_volume" => ~(u - ts > SignalAge[k]))
        BY <1>5, <1>10 DEF market_lookback_since, signal_is_stale
    <2>2. L < ts BY <1>1, <1>2, <1>3, <1>8, <1>10, <2>1
    <2>3. k # "short_volume" BY <1>1, <1>3, <2>2
    <2>4. k # "liquidity"
        <3>1. is_market_hours(ts) => ts < L BY <1>10, TradedBefore DEF L
        <3> QED BY <1>1, <1>3, <2>2, <3>1
    <2>5. open_of(L) <= ts
        <3> DEFINE s == CHOOSE s \in Sessions : s.close = L
        <3>1. s \in Sessions /\ s.close = L
            <4>1. \E x \in Sessions : x.close = L BY <1>3 DEF Closes
            <4> QED BY <4>1
        <3>2. s.open = open_of(L) BY DEF open_of
        <3>3. s.open \in Int /\ s.open + EOD_GRACE <= L
            BY <3>1, LayersAssumed, CalendarAssumed DEF LayerAssumption, CalendarAssumption
        <3> HIDE DEF s
        <3>4. s.open <= ts BY <1>1, <1>3, <2>2, <3>3
        <3> QED BY <3>2, <3>4
    <2>6. ~(ts < L - EOD_GRACE) BY <1>1, <1>3, <2>2
    <2> QED BY <1>10, <2>3, <2>4, <2>5, <2>6 DEF market_lookback_since, signal_is_stale, L
<1>11. CASE ~is_market_hours(u) /\ M = u
    <2>1. open_of(M) <= ts BY <1>5, <1>11 DEF market_lookback_since, M
    <2>2. k # "short_volume"
        <3>1. ts \in Closes => ts >= M BY <1>1, <2>1, CloseInWindow DEF M
        <3> QED BY <1>1, <1>11, <3>1
    <2>3. k # "liquidity" /\ ~(ts < M - EOD_GRACE)
        BY <1>5, <1>11, <2>2 DEF signal_is_stale, M
    <2>4. u - EOD_GRACE <= ts BY <1>1, <1>11, <2>3
    <2>5. CASE is_market_hours(t)
        <3>1. t - MARKET_LOOKBACK <= ts /\ ~(t - ts > SignalAge[k]) BY <1>1, <1>2, <2>2, <2>4
        <3> QED BY <2>2, <2>3, <2>5, <3>1 DEF market_lookback_since, signal_is_stale
    <2>6. CASE ~is_market_hours(t)
        <3>1. u \in Closes
            <4>1. M \in Closes BY <1>1, LastClose DEF M
            <4> QED BY <4>1, <1>11
        <3>2. t >= u - EOD_GRACE BY <1>1, <2>4
        <3>3. u <= L BY <2>6, <3>1, <3>2, ClosesAreOver DEF L
        <3> QED BY <1>1, <1>3, <3>3
    <2> QED BY <2>5, <2>6
<1>12. CASE ~is_market_hours(u) /\ M = L /\ M # u
    <2>1. ~is_market_hours(t) BY <1>7, <1>12
    <2>2. open_of(L) <= ts BY <1>5, <1>12 DEF market_lookback_since, M
    <2>3. k # "short_volume" => k # "liquidity" /\ ~(ts < L - EOD_GRACE)
        BY <1>5, <1>12 DEF signal_is_stale, M
    <2> QED BY <1>4, <2>1, <2>2, <2>3 DEF market_lookback_since, signal_is_stale, L
<1> QED BY <1>6, <1>9, <1>10, <1>11, <1>12

---------------------------------------------------------------------------
(* The invariant.                                                          *)

RowsTyped ==
    /\ now \in Times /\ rows \in [Kinds -> Stamp]
    /\ \A k \in Kinds : rows[k] <= now
    /\ rows["short_volume"] \in Closes \cup {None}

\* What the fallback may conclude from a timestamp about the data behind it.
Reach(l, asOf, data) ==
    IF l = "market"
    THEN \A c \in Closes : asOf >= c - EOD_GRACE => data >= c - EOD_GRACE - MARKET_LOOKBACK
    ELSE asOf - data <= SCORE_LOOKBACK[l]

\* How old the data of a layer may be when it is published at t.
Recent(l, data, t) ==
    IF l = "market" THEN data >= last_close(t) - EOD_GRACE - MARKET_LOOKBACK
    ELSE t - data <= SCORE_LOOKBACK[l] + LAYER_LOOKBACK[l]

Sound(l, r) == r = Nothing \/ (r.asOf \in Times /\ r.data \in Times /\ Reach(l, r.asOf, r.data))

Backed(st) == \A l \in Layers : Sound(l, [asOf |-> st.asOf[l], data |-> st.data[l]])

LayersInv == TypeOK /\ RowsTyped /\ Backed(last) /\ ValuesRunOut /\ AbsenceIsChargedOnce

\* Nothing is the record that has no data.
LEMMA NothingHasNone == ASSUME NEW a, NEW d, d # None PROVE [asOf |-> a, data |-> d] # Nothing
<1> DEFINE r == [asOf |-> a, data |-> d]
<1>1. r.data = d /\ Nothing.data = None BY DEF Nothing
<1> QED BY <1>1

\* A layer that its own rows make is sound, and its data are within the window.
LEMMA OthersSound ==
    ASSUME RowsTyped, NEW l \in EXO_LAYERS, Fresh[l] # Nothing
    PROVE  /\ Sound(l, Fresh[l]) /\ Recent(l, Fresh[l].data, now)
           /\ Fresh[l].asOf \in Times /\ Fresh[l].data \in Times
<1> DEFINE read == InWindow(l)
           used == CASE l = "narrative" -> {"usable_article"}
                     [] l = "influencer" -> UsableInfluence
                     [] l = "macro" -> InWindow("macro")
<1>0. l \in {"narrative", "influencer", "macro"} /\ l # "market" BY DEF EXO_LAYERS, Layers
<1>1. Fresh[l] = Made(read, used) /\ used # {} /\ used \subseteq read
    <2>1. CASE l = "narrative"
        <3>1. Fresh[l] = _score_narrative BY <2>1 DEF Fresh
        <3> QED BY <2>1, <3>1 DEF _score_narrative
    <2>2. CASE l = "influencer"
        <3>1. Fresh[l] = _score_influencer BY <2>2 DEF Fresh
        <3> QED BY <2>2, <3>1 DEF _score_influencer, UsableInfluence
    <2>3. CASE l = "macro"
        <3>1. Fresh[l] = _score_macro BY <2>3 DEF Fresh
        <3> QED BY <2>3, <3>1 DEF _score_macro
    <2> QED BY <1>0, <2>1, <2>2, <2>3
<1>2. read \subseteq Kinds
      /\ \A k \in read : rows[k] # None /\ now - SCORE_LOOKBACK[l] <= rows[k] /\ rows[k] <= now
    BY <1>0 DEF InWindow, Since, KindsOf, Kinds, RowsTyped, EXO_LAYERS, Layers
<1>3. rows \in [Kinds -> Stamp] BY DEF RowsTyped
<1> HIDE DEF read, used
<1>4. Newest(read) \in Times /\ \E k \in read : rows[k] = Newest(read)
    BY <1>1, <1>2, <1>3, NewestOldest
<1>5. Oldest(used) \in Times /\ \E k \in used : rows[k] = Oldest(used)
    BY <1>1, <1>2, <1>3, NewestOldest
<1>6. Newest(read) <= now /\ now - SCORE_LOOKBACK[l] <= Oldest(used)
    BY <1>1, <1>2, <1>4, <1>5
<1>7. SCORE_LOOKBACK[l] \in Nat /\ LAYER_LOOKBACK[l] \in Nat /\ Horizon \in Nat
    BY <1>0, LayersAssumed DEF LayerAssumption, Layers
<1>8. Fresh[l].asOf = Newest(read) /\ Fresh[l].data = Oldest(used) BY <1>1 DEF Made
<1>9. Newest(read) - Oldest(used) <= SCORE_LOOKBACK[l]
      /\ now - Oldest(used) <= SCORE_LOOKBACK[l] + LAYER_LOOKBACK[l]
    BY <1>4, <1>5, <1>6, <1>7 DEF Times, RowsTyped
<1> QED BY <1>0, <1>4, <1>5, <1>8, <1>9 DEF Sound, Reach, Recent

\* The same for the market layer: in a session its rows are in the window before now,
\* and outside of one they are from the last stretch of the session.
LEMMA MarketSound ==
    ASSUME RowsTyped, Fresh["market"] # Nothing
    PROVE  /\ Sound("market", Fresh["market"]) /\ Recent("market", Fresh["market"].data, now)
           /\ Fresh["market"].asOf \in Times /\ Fresh["market"].data \in Times
<1> DEFINE F == FreshComponents
           L == last_close(now)
<1>1. Fresh["market"] = Made(F, F) /\ F # {}
    <2>1. Fresh["market"] = _score_market BY DEF Fresh
    <2>2. Fresh["market"] = Made(F, F) /\ ~(Cardinality(F) <= 1) BY <2>1 DEF _score_market
    <2>3. F # {} BY <2>2, FS_EmptySet
    <2> QED BY <2>2, <2>3
<1>2. F \subseteq Kinds /\ F \subseteq Components
      /\ \A k \in F : /\ rows[k] # None /\ market_lookback_since(now) <= rows[k] /\ rows[k] <= now
                      /\ ~signal_is_stale(k, rows[k], now)
    BY DEF FreshComponents, Since, Kinds, RowsTyped
<1>3. rows \in [Kinds -> Stamp] /\ now \in Times BY DEF RowsTyped
<1>4. /\ Newest(F) \in Times /\ Oldest(F) \in Times
      /\ \E k \in F : rows[k] = Newest(F)
      /\ \E k \in F : rows[k] = Oldest(F)
    <2> HIDE DEF F
    <2> QED BY <1>1, <1>2, <1>3, NewestOldest
<1>5. L \in Closes /\ L \in Int /\ L <= now BY <1>3, LastClose
<1>6. /\ EOD_GRACE \in Nat /\ MARKET_LOOKBACK \in Nat /\ Closes \subseteq Int /\ now \in Int
      /\ Newest(F) \in Int /\ Oldest(F) \in Int
    BY <1>3, <1>4, LayersAssumed DEF LayerAssumption, Closes, Times
<1>7. Newest(F) <= now BY <1>2, <1>4
<1>8. Fresh["market"].asOf = Newest(F) /\ Fresh["market"].data = Oldest(F) BY <1>1 DEF Made
<1>9. CASE is_market_hours(now)
    <2>1. Oldest(F) >= now - MARKET_LOOKBACK BY <1>2, <1>4, <1>6, <1>9 DEF market_lookback_since
    <2> HIDE DEF L, F
    <2>2. Oldest(F) >= L - EOD_GRACE - MARKET_LOOKBACK BY <1>5, <1>6, <2>1
    <2>3. \A c \in Closes : Newest(F) >= c - EOD_GRACE => Oldest(F) >= c - EOD_GRACE - MARKET_LOOKBACK
        BY <1>6, <1>7, <2>1
    <2> QED BY <1>4, <1>8, <2>2, <2>3 DEF Sound, Reach, Recent, L
<1>10. CASE ~is_market_hours(now)
    <2>1. ASSUME NEW k \in F PROVE rows[k] >= L - EOD_GRACE
        <3>1. rows[k] \in Int BY <1>2, <1>3 DEF Stamp, Times
        <3>2. CASE k = "short_volume"
            <4>1. rows[k] \in Closes /\ open_of(L) <= rows[k]
                BY <1>2, <1>10, <3>2 DEF RowsTyped, market_lookback_since
            <4>2. rows[k] >= L BY <1>3, <4>1, CloseInWindow
            <4> HIDE DEF L
            <4> QED BY <1>5, <1>6, <3>1, <4>2
        <3>3. CASE k # "short_volume"
            <4>1. ~(rows[k] < L - EOD_GRACE)
                <5>1. ~signal_is_stale(k, rows[k], now) BY <1>2
                <5>2. k # "liquidity" BY <1>10, <3>3, <5>1 DEF signal_is_stale
                <5> QED BY <1>10, <3>3, <5>1, <5>2 DEF signal_is_stale
            <4> HIDE DEF L
            <4> QED BY <1>5, <1>6, <3>1, <4>1
        <3> QED BY <3>2, <3>3
    <2>2. Oldest(F) >= L - EOD_GRACE BY <1>4, <2>1
    <2>3. ASSUME NEW c \in Closes, Newest(F) >= c - EOD_GRACE
          PROVE  Oldest(F) >= c - EOD_GRACE - MARKET_LOOKBACK
        <3>1. now >= c - EOD_GRACE /\ c \in Int BY <1>6, <1>7, <2>3
        <3>2. c <= L BY <1>3, <1>10, <3>1, ClosesAreOver
        <3> HIDE DEF L, F
        <3> QED BY <1>5, <1>6, <2>2, <3>1, <3>2
    <2> HIDE DEF L, F
    <2>4. Oldest(F) >= L - EOD_GRACE - MARKET_LOOKBACK BY <1>5, <1>6, <2>2
    <2> QED BY <1>4, <1>8, <2>3, <2>4 DEF Sound, Reach, Recent, L
<1> QED BY <1>9, <1>10

\* A layer that the fallback carries over is sound, and its data are still recent enough.
LEMMA CarriedSound ==
    ASSUME RowsTyped, Backed(last), NEW l \in Layers, _fallback_subindex(l) # Nothing
    PROVE  /\ Sound(l, _fallback_subindex(l)) /\ Recent(l, _fallback_subindex(l).data, now)
           /\ _fallback_subindex(l).asOf \in Times /\ _fallback_subindex(l).data \in Times
<1> DEFINE r == [asOf |-> last.asOf[l], data |-> last.data[l]]
<1>1. _fallback_subindex(l) = r /\ last.asOf[l] # None /\ ~Expired(l, last.asOf[l])
    BY DEF _fallback_subindex
<1>2. Sound(l, r) BY DEF Backed
<1>3. r # Nothing
    <2>1. r.asOf # Nothing.asOf BY <1>1 DEF Nothing
    <2> QED BY <2>1
<1>4. last.asOf[l] \in Times /\ last.data[l] \in Times /\ Reach(l, last.asOf[l], last.data[l])
    BY <1>2, <1>3 DEF Sound
<1>5. now \in Times /\ Horizon \in Nat BY LayersAssumed DEF RowsTyped, LayerAssumption
<1>6. Recent(l, last.data[l], now)
    <2>1. CASE l = "market"
        <3>1. ~_market_stale(last.asOf[l], now) BY <1>1, <2>1 DEF Expired
        <3>2. last.asOf[l] >= last_close(now) - EOD_GRACE BY <1>4, <1>5, <3>1, FreshAfterClose
        <3>3. last_close(now) \in Closes BY <1>5, LastClose
        <3> QED BY <1>4, <2>1, <3>2, <3>3 DEF Reach, Recent
    <2>2. CASE l # "market"
        <3>1. ~(now - last.asOf[l] > LAYER_LOOKBACK[l]) BY <1>1, <2>2 DEF Expired
        <3>2. last.asOf[l] - last.data[l] <= SCORE_LOOKBACK[l] BY <1>4, <2>2 DEF Reach
        <3>3. SCORE_LOOKBACK[l] \in Nat /\ LAYER_LOOKBACK[l] \in Nat
            BY <2>2, LayersAssumed DEF LayerAssumption
        <3>4. now - last.data[l] <= SCORE_LOOKBACK[l] + LAYER_LOOKBACK[l]
            BY <1>4, <1>5, <3>1, <3>2, <3>3 DEF Times
        <3> QED BY <2>2, <3>4 DEF Recent
    <2> QED BY <2>1, <2>2
<1> QED BY <1>1, <1>2, <1>4, <1>6

\* So is every layer that a tick publishes.
LEMMA ResultSound ==
    ASSUME RowsTyped, Backed(last), NEW l \in Layers
    PROVE  /\ Sound(l, LayerResult(l))
           /\ LayerResult(l) # Nothing =>
                 /\ LayerResult(l).asOf \in Times /\ LayerResult(l).data \in Times
                 /\ Recent(l, LayerResult(l).data, now)
<1>1. CASE Fresh[l] # Nothing
    <2>1. LayerResult(l) = Fresh[l] BY <1>1 DEF LayerResult
    <2>2. l = "market" \/ l \in EXO_LAYERS BY DEF EXO_LAYERS
    <2> QED BY <1>1, <2>1, <2>2, OthersSound, MarketSound
<1>2. CASE Fresh[l] = Nothing
    <2>1. LayerResult(l) = _fallback_subindex(l) BY <1>2 DEF LayerResult
    <2>2. CASE _fallback_subindex(l) = Nothing BY <2>1, <2>2 DEF Sound
    <2> QED BY <2>1, <2>2, CarriedSound
<1> QED BY <1>1, <1>2

\* A layer is without data exactly when it is missing.
LEMMA MissingHasNone ==
    ASSUME RowsTyped, Backed(last), NEW l \in Layers
    PROVE  /\ LayerResult(l) = [asOf |-> LayerResult(l).asOf, data |-> LayerResult(l).data]
           /\ LayerResult(l).data = None <=> LayerResult(l) = Nothing
<1>1. CASE LayerResult(l) = Nothing BY <1>1 DEF Nothing
<1>2. CASE LayerResult(l) # Nothing
    <2>1. LayerResult(l).data \in Times BY <1>2, ResultSound
    <2>2. LayerResult(l).data # None
        BY <2>1, LayersAssumed DEF LayerAssumption, Times, None
    <2>3. \/ LayerResult(l) = Fresh[l]
          \/ LayerResult(l) = [asOf |-> last.asOf[l], data |-> last.data[l]]
        BY <1>2 DEF LayerResult, _fallback_subindex
    <2>4. \E x, y : Fresh[l] = [asOf |-> x, data |-> y]
        <3>1. Fresh["market"] = _score_market /\ Fresh["narrative"] = _score_narrative
              /\ Fresh["influencer"] = _score_influencer /\ Fresh["macro"] = _score_macro
            BY DEF Fresh
        <3>2. l \in {"market", "narrative", "influencer", "macro"} BY DEF Layers
        <3> QED BY <3>1, <3>2 DEF _score_market, _score_narrative, _score_influencer,
                                  _score_macro, Made, Nothing
    <2> QED BY <1>2, <2>2, <2>3, <2>4
<1> QED BY <1>1, <1>2
---------------------------------------------------------------------------
(* What a tick publishes.                                                  *)

\* The published state is well typed.
LEMMA StateTyped ==
    ASSUME RowsTyped, Backed(last)
    PROVE  State \in [at : Stamp, asOf : [Layers -> Stamp], data : [Layers -> Stamp],
                      carried : SUBSET Layers, flagged : SUBSET Sources]
<1>1. now \in Stamp BY DEF RowsTyped, Stamp
<1>2. ASSUME NEW l \in Layers PROVE LayerResult(l).asOf \in Stamp /\ LayerResult(l).data \in Stamp
    <2>1. CASE LayerResult(l) = Nothing BY <2>1 DEF Nothing, Stamp
    <2>2. CASE LayerResult(l) # Nothing BY <2>2, ResultSound DEF Stamp
    <2> QED BY <2>1, <2>2
<1>3. Carried \subseteq Layers /\ Flagged \subseteq Sources BY DEF Carried, Flagged
<1>4. [l \in Layers |-> LayerResult(l).asOf] \in [Layers -> Stamp]
      /\ [l \in Layers |-> LayerResult(l).data] \in [Layers -> Stamp]
    BY <1>2
<1> QED BY <1>1, <1>3, <1>4 DEF State

\* A tick's state is backed by its data again.
LEMMA StateBacked == ASSUME RowsTyped, Backed(last) PROVE Backed(State)
<1> SUFFICES ASSUME NEW l \in Layers
             PROVE  Sound(l, [asOf |-> State.asOf[l], data |-> State.data[l]])
    BY DEF Backed
<1>1. State.asOf[l] = LayerResult(l).asOf /\ State.data[l] = LayerResult(l).data BY DEF State
<1>2. LayerResult(l) = [asOf |-> LayerResult(l).asOf, data |-> LayerResult(l).data]
    BY MissingHasNone
<1> QED BY <1>1, <1>2, ResultSound

\* A layer that has data in the state was recent when it was published.
LEMMA StateRecent ==
    ASSUME RowsTyped, Backed(last), NEW l \in Layers, State.data[l] # None
    PROVE  Recent(l, State.data[l], State.at)
<1>1. State.at = now /\ State.data[l] = LayerResult(l).data BY DEF State
<1>2. LayerResult(l) # Nothing BY <1>1, MissingHasNone
<1> QED BY <1>1, <1>2, ResultSound

\* The source of a layer that the fallback accepts is not flagged.
LEMMA CarriedNotFlagged ==
    ASSUME RowsTyped, Backed(last), NEW l \in Carried, NEW s \in _LAYER_SOURCES[l]
    PROVE  s \notin Flagged
<1>1. l \in Layers /\ Fresh[l] = Nothing /\ _fallback_subindex(l) # Nothing BY DEF Carried
<1>2. last.asOf[l] # None /\ ~Expired(l, last.asOf[l])
      /\ LayerResult(l) = [asOf |-> last.asOf[l], data |-> last.data[l]]
    BY <1>1 DEF _fallback_subindex, LayerResult
<1>3. SourceAsOf(s) = last.asOf[l]
    <2>1. CASE l = "market"
        <3>1. s = "market" BY <2>1 DEF _LAYER_SOURCES
        <3> QED BY <1>2, <2>1, <3>1 DEF SourceAsOf
    <2>2. CASE l = "narrative"
        <3>1. s = "news" BY <2>2 DEF _LAYER_SOURCES
        <3> QED BY <1>2, <2>2, <3>1 DEF SourceAsOf
    <2>3. CASE l = "macro"
        <3>1. s = "macro" BY <2>3 DEF _LAYER_SOURCES
        <3> QED BY <1>2, <2>3, <3>1 DEF SourceAsOf
    <2>4. CASE l = "influencer"
        <3>1. s \in {"analyst", "insider"} BY <2>4 DEF _LAYER_SOURCES
        <3> QED BY <1>1, <2>4, <3>1 DEF SourceAsOf
    <2> QED BY <1>1, <2>1, <2>2, <2>3, <2>4 DEF Layers
<1>4. ~check_staleness(s)
    <2>1. CASE l = "market"
        <3>1. s = "market" BY <2>1 DEF _LAYER_SOURCES
        <3> QED BY <1>2, <1>3, <2>1, <3>1 DEF check_staleness, Expired
    <2>2. CASE l # "market"
        <3>1. s # "market" /\ s \in Sources
            BY <1>1, <2>2 DEF _LAYER_SOURCES, Sources, Layers
        <3>2. ~(now - last.asOf[l] > LAYER_LOOKBACK[l]) BY <1>2, <2>2 DEF Expired
        <3>3. LAYER_LOOKBACK[l] <= STALENESS_THRESHOLDS[s]
              /\ LAYER_LOOKBACK[l] \in Nat /\ STALENESS_THRESHOLDS[s] \in Nat
            BY <1>1, <2>2, <3>1, LayersAssumed DEF LayerAssumption
        <3>4. last.asOf[l] \in Int /\ now \in Int
            <4>1. _fallback_subindex(l).asOf \in Times BY <1>1, CarriedSound
            <4>2. _fallback_subindex(l).asOf = last.asOf[l] BY <1>1, <1>2 DEF _fallback_subindex
            <4>3. now \in Times BY DEF RowsTyped
            <4>4. last.asOf[l] \in Times BY <4>1, <4>2
            <4>5. \A x \in Times : x \in Nat BY TimesAreNaturals
            <4>6. last.asOf[l] \in Nat /\ now \in Nat BY <4>3, <4>4, <4>5
            <4> QED BY <4>6
        <3>5. ~(now - last.asOf[l] > STALENESS_THRESHOLDS[s]) BY <3>2, <3>3, <3>4
        <3> QED BY <1>2, <1>3, <3>1, <3>5 DEF check_staleness
    <2> QED BY <2>1, <2>2
<1> QED BY <1>4 DEF Flagged

\* So one absence is charged once in the state that a tick publishes.
LEMMA StateChargesOnce ==
    ASSUME RowsTyped, Backed(last), NEW l \in Layers,
           State.data[l] = None \/ l \in State.carried
    PROVE  State.flagged \cap _LAYER_SOURCES[l] = {}
<1>1. State.data[l] = LayerResult(l).data /\ State.carried = Carried /\ State.flagged = Flagged
    BY DEF State
<1>2. CASE State.data[l] = None
    <2>1. LayerResult(l) = Nothing BY <1>1, <1>2, MissingHasNone
    <2>2. l \in Missing BY <2>1 DEF Missing
    <2> QED BY <1>1, <2>2 DEF Flagged
<1>3. CASE l \in State.carried BY <1>1, <1>3, CarriedNotFlagged
<1> QED BY <1>2, <1>3

---------------------------------------------------------------------------
(* The steps.                                                              *)

\* The initial state satisfies the invariant.
LEMMA InitLayers == Init => LayersInv
<1> SUFFICES ASSUME Init PROVE LayersInv
    OBVIOUS
<1>1. now \in Times /\ fed \subseteq Kinds BY LayersAssumed DEF Init, LayerAssumption
<1>2. rows = [k \in Kinds |-> None] /\ None \in Stamp BY DEF Init, Stamp
<1>3. RowsTyped
    <2>1. None <= now BY <1>1, TimesAreNaturals DEF None
    <2>2. "short_volume" \in Kinds BY DEF Kinds, Components
    <2> QED BY <1>1, <1>2, <2>1, <2>2 DEF RowsTyped
<1>4. last = NoState BY DEF Init
<1>5. NoState \in [at : Stamp, asOf : [Layers -> Stamp], data : [Layers -> Stamp],
                   carried : SUBSET Layers, flagged : SUBSET Sources]
    BY <1>2 DEF NoState
<1>6. TypeOK BY <1>1, <1>2, <1>4, <1>5 DEF TypeOK, Init
<1>7. Backed(last) BY <1>4 DEF Backed, Sound, NoState, Nothing
<1>8. ValuesRunOut
    <2>1. \A l \in Layers : last.data[l] = None BY <1>4 DEF NoState
    <2>2. "market" \in Layers BY DEF Layers
    <2> QED BY <2>1, <2>2 DEF ValuesRunOut
<1>9. AbsenceIsChargedOnce BY <1>4 DEF AbsenceIsChargedOnce, NoState
<1> QED BY <1>3, <1>6, <1>7, <1>8, <1>9 DEF LayersInv

\* An arrival leaves the rows well typed.
LEMMA ArriveRows ==
    ASSUME LayersInv, NEW K, NEW ts \in Times, NEW others \in SUBSET Layers, ts <= now, Arrive(K, ts, others),
           "short_volume" \in K => ts \in Closes
    PROVE  RowsTyped' /\ heard' \subseteq Layers
<1> USE DEF LayersInv, TypeOK, RowsTyped
<1>1. K \subseteq Kinds BY DEF Arrive
<1>2. rows' = [k \in Kinds |-> IF k \in K /\ rows[k] < ts THEN ts ELSE rows[k]] /\ now' = now
    BY DEF Arrive
<1>3. rows' \in [Kinds -> Stamp] BY <1>2 DEF Stamp
<1>4. \A k \in Kinds : rows'[k] <= now BY <1>2
<1>5. rows'["short_volume"] \in Closes \cup {None}
    <2>1. "short_volume" \in Kinds BY DEF Kinds, Components
    <2> QED BY <1>2, <2>1
<1>6. heard' \subseteq Layers BY <1>1, LayerOfKind DEF Arrive
<1> QED BY <1>2, <1>3, <1>4, <1>5, <1>6

\* What reads the published state only is not disturbed when it stays the same.
LEMMA SameState ==
    ASSUME LayersInv, last' = last PROVE Backed(last)' /\ ValuesRunOut' /\ AbsenceIsChargedOnce'
BY DEF LayersInv, Backed, Sound, Reach, Nothing, ValuesRunOut, AbsenceIsChargedOnce, last_close

\* An arrival preserves the invariant.
LEMMA ArriveLayers ==
    ASSUME LayersInv, NEW K, NEW ts \in Times, NEW others \in SUBSET Layers, ts <= now, Arrive(K, ts, others),
           "short_volume" \in K => ts \in Closes, priced' \in BOOLEAN
    PROVE  LayersInv'
<1>1. RowsTyped' /\ heard' \subseteq Layers BY ArriveRows
<1>2. fed' = fed /\ last' = last BY DEF Arrive
<1>3. TypeOK' BY <1>1, <1>2 DEF LayersInv, TypeOK, RowsTyped
<1> QED BY <1>1, <1>2, <1>3, SameState DEF LayersInv

\* Every step preserves the invariant.
LEMMA StepLayers == LayersInv /\ [Next]_vars => LayersInv'
<1> SUFFICES ASSUME LayersInv, [Next]_vars PROVE LayersInv'
    OBVIOUS
<1>0. now \in Times /\ Times \subseteq Nat BY TimesAreNaturals DEF LayersInv, RowsTyped
<1>1. CASE _run_market
    <2>1. PICK K \in SUBSET Kinds, others \in SUBSET Layers :
             Arrive(K, now, others) /\ "short_volume" \notin K /\ priced' \in BOOLEAN
        <3>1. PICK bar, quote \in BOOLEAN :
                 /\ Arrive(fed \cap ((IF bar THEN {"order_flow", "returns", "volume", "momentum"}
                                      ELSE IF priced THEN {"momentum"} ELSE {})
                                     \cup IF quote THEN {"liquidity"} ELSE {}), now,
                        IF bar /\ ~priced THEN {"influencer"} ELSE {})
                 /\ priced' = (priced \/ bar)
            BY <1>1 DEF _run_market
        <3> DEFINE K == fed \cap ((IF bar THEN {"order_flow", "returns", "volume", "momentum"}
                                      ELSE IF priced THEN {"momentum"} ELSE {})
                                     \cup IF quote THEN {"liquidity"} ELSE {})
                   others == IF bar /\ ~priced THEN {"influencer"} ELSE {}
        <3>2. Arrive(K, now, others) /\ priced' \in BOOLEAN BY <3>1
        <3>3. K \subseteq Kinds BY DEF LayersInv, TypeOK
        <3>4. "short_volume" \notin K /\ others \in SUBSET Layers BY DEF Layers
        <3> HIDE DEF K, others
        <3> QED BY <3>2, <3>3, <3>4
    <2>2. now <= now BY <1>0
    <2> QED BY <1>0, <2>1, <2>2, ArriveLayers
<1>2. CASE ingest_short_volume
    <2>1. PICK c \in Closes \cap Times : c <= now /\ Arrive({"short_volume"}, c, {})
        BY <1>2 DEF ingest_short_volume
    <2>2. priced' \in BOOLEAN BY <1>2 DEF ingest_short_volume, LayersInv, TypeOK
    <2> QED BY <2>1, <2>2, ArriveLayers
<1>3. CASE LoadCloses
    <2>1. UNCHANGED <<now, fed, rows, last>> /\ priced' = TRUE /\ heard' = heard \cup {"influencer"}
        BY <1>3 DEF LoadCloses
    <2>2. TypeOK' BY <2>1 DEF LayersInv, TypeOK, Layers
    <2>3. RowsTyped' BY <2>1 DEF LayersInv, RowsTyped
    <2> QED BY <2>1, <2>2, <2>3, SameState DEF LayersInv
<1>4. CASE \E k \in Kinds : Deliver(k)
    <2>1. PICK k \in Kinds : Deliver(k) BY <1>4
    <2>2. PICK ts \in Times : ts <= now /\ Arrive({k}, ts, {}) BY <2>1 DEF Deliver
    <2>3. k # "short_volume" /\ priced' = priced BY <2>1 DEF Deliver, Components
    <2>4. priced' \in BOOLEAN BY <2>3 DEF LayersInv, TypeOK
    <2> QED BY <2>2, <2>3, <2>4, ArriveLayers
<1>5. CASE compute_scored_state
    <2>1. last' = State /\ heard' = {} /\ UNCHANGED <<now, fed, rows, priced>>
        BY <1>5 DEF compute_scored_state
    <2>2. RowsTyped /\ Backed(last) BY DEF LayersInv
    <2>3. RowsTyped' BY <2>1, <2>2 DEF RowsTyped
    <2>4. TypeOK' BY <2>1, <2>2, StateTyped DEF LayersInv, TypeOK
    <2>5. Backed(last)'
        <3>1. Backed(State) BY <2>2, StateBacked
        <3> QED BY <2>1, <3>1 DEF Backed, Sound, Reach, Nothing
    <2>6. ValuesRunOut'
        <3>1. \A l \in Layers : last'.data[l] # None => Recent(l, last'.data[l], last'.at)
            BY <2>1, <2>2, StateRecent
        <3>2. "market" \in Layers BY DEF Layers
        <3> QED BY <3>1, <3>2 DEF ValuesRunOut, Recent, last_close
    <2>7. AbsenceIsChargedOnce' BY <2>1, <2>2, StateChargesOnce DEF AbsenceIsChargedOnce
    <2> QED BY <2>3, <2>4, <2>5, <2>6, <2>7 DEF LayersInv
<1>6. CASE LoseState
    <2>1. last' = NoState /\ UNCHANGED <<now, fed, rows, priced, heard>> BY <1>6 DEF LoseState
    <2>2. RowsTyped' BY <2>1 DEF LayersInv, RowsTyped
    <2>3. NoState \in [at : Stamp, asOf : [Layers -> Stamp], data : [Layers -> Stamp],
                       carried : SUBSET Layers, flagged : SUBSET Sources]
        BY DEF NoState, Stamp
    <2>4. TypeOK' BY <2>1, <2>3 DEF LayersInv, TypeOK
    <2>5. Backed(last)' BY <2>1 DEF Backed, Sound, NoState, Nothing
    <2>6. ValuesRunOut'
        <3>1. \A l \in Layers : last'.data[l] = None BY <2>1 DEF NoState
        <3>2. "market" \in Layers BY DEF Layers
        <3> QED BY <3>1, <3>2 DEF ValuesRunOut
    <2>7. AbsenceIsChargedOnce' BY <2>1 DEF AbsenceIsChargedOnce, NoState
    <2> QED BY <2>2, <2>4, <2>5, <2>6, <2>7 DEF LayersInv
<1>7. CASE Pass
    <2>1. now < Horizon /\ now' = now + 1 /\ UNCHANGED <<fed, priced, last, heard>>
          /\ rows' = [k \in Kinds |-> IF rows[k] # None /\ Behind(k, now + 1) THEN None ELSE rows[k]]
        BY <1>7 DEF Pass
    <2>2. rows' \in [Kinds -> Stamp] BY <2>1 DEF LayersInv, TypeOK, Stamp
    <2>3. now' \in Times BY <1>0, <2>1, LayersAssumed DEF LayerAssumption, Times
    <2>4. \A k \in Kinds : rows'[k] <= now'
        <3> SUFFICES ASSUME NEW k \in Kinds PROVE rows'[k] <= now'
            OBVIOUS
        <3>1. rows'[k] = None \/ rows'[k] = rows[k] BY <2>1
        <3>2. rows[k] <= now /\ rows[k] \in Times \cup {None} BY DEF LayersInv, RowsTyped, Stamp
        <3>3. now \in Nat /\ now' = now + 1 BY <1>0, <2>1
        <3>4. CASE rows[k] = None
            <4>1. rows'[k] = -1 BY <3>1, <3>4 DEF None
            <4> QED BY <3>3, <4>1
        <3>5. CASE rows[k] \in Times
            <4>1. rows[k] \in Nat BY <1>0, <3>5
            <4>2. CASE rows'[k] = None
                <5>1. rows'[k] = -1 BY <4>2 DEF None
                <5> QED BY <3>3, <5>1
            <4>3. CASE rows'[k] = rows[k] BY <3>2, <3>3, <4>1, <4>3
            <4> QED BY <3>1, <4>2, <4>3
        <3> QED BY <3>2, <3>4, <3>5
    <2>5. rows'["short_volume"] \in Closes \cup {None}
        <3>1. "short_volume" \in Kinds BY DEF Kinds, Components
        <3> QED BY <2>1, <3>1 DEF LayersInv, RowsTyped
    <2>6. RowsTyped' BY <2>2, <2>3, <2>4, <2>5 DEF RowsTyped
    <2>7. TypeOK' BY <2>1, <2>2, <2>3 DEF LayersInv, TypeOK
    <2> QED BY <2>1, <2>6, <2>7, SameState DEF LayersInv
<1>8. CASE UNCHANGED vars
    <2>1. UNCHANGED <<now, fed, rows, priced, last, heard>> BY <1>8 DEF vars
    <2>2. TypeOK' /\ RowsTyped' BY <2>1 DEF LayersInv, TypeOK, RowsTyped
    <2> QED BY <2>1, <2>2, SameState DEF LayersInv
<1> QED BY <1>1, <1>2, <1>3, <1>4, <1>5, <1>6, <1>7, <1>8 DEF Next

---------------------------------------------------------------------------
(* What a tick has lost.                                                   *)

\* A quote is taken in a session; and a layer that the last state lacks, and for which
\* nothing has arrived since, cannot be made from the rows either.
LostStaysLost ==
    /\ rows["liquidity"] = None \/ is_market_hours(rows["liquidity"])
    /\ last.at # None => \A l \in Layers : last.data[l] = None /\ l \notin heard => Fresh[l] = Nothing

\* A layer that is made of rows has data.
LEMMA MadeOfRows ==
    ASSUME RowsTyped, NEW read, NEW K \in SUBSET Kinds, K # {}, None \notin {rows[k] : k \in K}
    PROVE  Made(read, K) # Nothing
<1>1. Oldest(K) \in Times BY NewestOldest DEF RowsTyped
<1>2. Oldest(K) # None BY <1>1, TimesAreNaturals DEF None
<1> QED BY <1>2, NothingHasNone DEF Made

\* A layer that its rows do not make lacks the rows for it.
LEMMA NothingLacksRows ==
    ASSUME RowsTyped
    PROVE  /\ Fresh["market"] = Nothing => Cardinality(FreshComponents) <= 1
           /\ Fresh["narrative"] = Nothing => "usable_article" \notin InWindow("narrative")
           /\ Fresh["influencer"] = Nothing => UsableInfluence = {}
           /\ Fresh["macro"] = Nothing => InWindow("macro") = {}
<1>1. Fresh["market"] = _score_market /\ Fresh["narrative"] = _score_narrative
      /\ Fresh["influencer"] = _score_influencer /\ Fresh["macro"] = _score_macro
    BY DEF Fresh
<1>2. ASSUME NEW l \in {"narrative", "influencer", "macro"}
      PROVE  InWindow(l) \subseteq Kinds /\ \A k \in InWindow(l) : rows[k] # None
    BY DEF InWindow, Since, KindsOf, Kinds
<1>3. Fresh["market"] = Nothing => Cardinality(FreshComponents) <= 1
    <2> SUFFICES ASSUME ~(Cardinality(FreshComponents) <= 1) PROVE Fresh["market"] # Nothing
        OBVIOUS
    <2>1. FreshComponents # {} BY FS_EmptySet
    <2>2. FreshComponents \subseteq Kinds /\ None \notin {rows[k] : k \in FreshComponents}
        BY DEF FreshComponents, Since, Kinds
    <2>3. Made(FreshComponents, FreshComponents) # Nothing BY <2>1, <2>2, MadeOfRows
    <2> QED BY <1>1, <2>3 DEF _score_market
<1>4. Fresh["narrative"] = Nothing => "usable_article" \notin InWindow("narrative")
    <2> SUFFICES ASSUME "usable_article" \in InWindow("narrative") PROVE Fresh["narrative"] # Nothing
        OBVIOUS
    <2>1. rows["usable_article"] # None /\ "usable_article" \in Kinds BY <1>2
    <2>2. Made(InWindow("narrative"), {"usable_article"}) # Nothing BY <2>1, MadeOfRows
    <2> QED BY <1>1, <2>2 DEF _score_narrative
<1>5. Fresh["influencer"] = Nothing => UsableInfluence = {}
    <2> SUFFICES ASSUME UsableInfluence # {} PROVE Fresh["influencer"] # Nothing
        OBVIOUS
    <2>1. UsableInfluence \subseteq Kinds /\ None \notin {rows[k] : k \in UsableInfluence}
        BY <1>2 DEF UsableInfluence
    <2>2. Made(InWindow("influencer"), UsableInfluence) # Nothing BY <2>1, MadeOfRows
    <2> QED BY <1>1, <2>2 DEF _score_influencer
<1>6. Fresh["macro"] = Nothing => InWindow("macro") = {}
    <2> SUFFICES ASSUME InWindow("macro") # {} PROVE Fresh["macro"] # Nothing
        OBVIOUS
    <2>1. InWindow("macro") \subseteq Kinds /\ None \notin {rows[k] : k \in InWindow("macro")}
        BY <1>2
    <2>2. Made(InWindow("macro"), InWindow("macro")) # Nothing BY <2>1, MadeOfRows
    <2> QED BY <1>1, <2>2 DEF _score_macro
<1> QED BY <1>3, <1>4, <1>5, <1>6

\* Few components have few among them.
LEMMA FewComponents ==
    ASSUME NEW S \in SUBSET Components, NEW R \in SUBSET S, Cardinality(S) <= 1
    PROVE  Cardinality(R) <= 1
<1>1. ASSUME NEW A, IsFiniteSet(A), NEW a PROVE IsFiniteSet(A \cup {a})
    BY <1>1, FS_AddElement
<1>2. IsFiniteSet({} \cup {"returns"} \cup {"momentum"} \cup {"order_flow"} \cup {"liquidity"}
                  \cup {"short_volume"} \cup {"volume"})
    BY <1>1, FS_EmptySet
<1>3. Components = {} \cup {"returns"} \cup {"momentum"} \cup {"order_flow"} \cup {"liquidity"}
                   \cup {"short_volume"} \cup {"volume"}
    BY DEF Components
<1>4. IsFiniteSet(S) BY <1>2, <1>3, FS_Subset
<1>5. Cardinality(R) \in Nat /\ Cardinality(S) \in Nat /\ Cardinality(R) <= Cardinality(S)
    BY <1>4, FS_Subset, FS_CardinalityType
<1> QED BY <1>5

\* With no more rows to use than before, a layer that could not be made cannot be made.
LEMMA FewerRows ==
    ASSUME RowsTyped, NEW l \in Layers, Fresh[l] = Nothing,
           l = "market" => FreshComponents' \subseteq FreshComponents,
           l # "market" => InWindow(l)' \subseteq InWindow(l),
           l = "influencer" => priced' = priced
    PROVE  (Fresh[l])' = Nothing
<1>1. Nothing' = Nothing BY DEF Nothing
<1>2. CASE l = "market"
    <2>1. Cardinality(FreshComponents) <= 1 BY <1>2, NothingLacksRows
    <2>2. FreshComponents \subseteq Components BY DEF FreshComponents, Since
    <2>3. Cardinality(FreshComponents') <= 1 BY <1>2, <2>1, <2>2, FewComponents
    <2>4. Cardinality(FreshComponents)' <= 1 BY <2>3
    <2>5. (_score_market)' = Nothing' BY <2>4 DEF _score_market
    <2>6. (Fresh["market"])' = (_score_market)' BY DEF Fresh
    <2> QED BY <1>1, <1>2, <2>5, <2>6
<1>3. CASE l = "narrative"
    <2>1. "usable_article" \notin InWindow("narrative") BY <1>3, NothingLacksRows
    <2>2. "usable_article" \notin InWindow("narrative")' BY <1>3, <2>1
    <2>3. (_score_narrative)' = Nothing' BY <2>2 DEF _score_narrative
    <2>4. (Fresh["narrative"])' = (_score_narrative)' BY DEF Fresh
    <2> QED BY <1>1, <1>3, <2>3, <2>4
<1>4. CASE l = "influencer"
    <2>1. UsableInfluence = {} BY <1>4, NothingLacksRows
    <2>2. UsableInfluence' \subseteq UsableInfluence BY <1>4 DEF UsableInfluence
    <2>3. (_score_influencer)' = Nothing' BY <2>1, <2>2 DEF _score_influencer
    <2>4. (Fresh["influencer"])' = (_score_influencer)' BY DEF Fresh
    <2> QED BY <1>1, <1>4, <2>3, <2>4
<1>5. CASE l = "macro"
    <2>1. InWindow("macro") = {} BY <1>5, NothingLacksRows
    <2>2. InWindow("macro")' = {} BY <1>5, <2>1
    <2>3. (_score_macro)' = Nothing' BY <2>2 DEF _score_macro
    <2>4. (Fresh["macro"])' = (_score_macro)' BY DEF Fresh
    <2> QED BY <1>1, <1>5, <2>3, <2>4
<1> QED BY <1>2, <1>3, <1>4, <1>5 DEF Layers

\* The rows of a layer are of the kinds that belong to it alone.
LEMMA KindsApart ==
    ASSUME NEW l \in Layers, NEW k \in KindsOf[l]
    PROVE  k \in Kinds /\ LayerOf(k) = l
<1>1. k \in Kinds BY DEF Kinds, KindsOf, Layers
<1>2. \A m \in Layers : k \in KindsOf[m] => m = l
    BY DEF KindsOf, Layers, Components, Articles, Influence, Opinions, Indicators
<1> QED BY <1>1, <1>2, LayerOfKind

\* At the same time, with the same rows of its own, a layer is made of the same.
LEMMA SameRows ==
    ASSUME RowsTyped, NEW l \in Layers, Fresh[l] = Nothing, now' = now,
           \A k \in KindsOf[l] : rows'[k] = rows[k], l = "influencer" => priced' = priced
    PROVE  (Fresh[l])' = Nothing
<1>1. InWindow(l)' \subseteq InWindow(l) BY DEF InWindow, Since
<1>2. l = "market" => FreshComponents' \subseteq FreshComponents
    <2> SUFFICES ASSUME l = "market" PROVE FreshComponents' \subseteq FreshComponents
        OBVIOUS
    <2>1. \A k \in Components : rows'[k] = rows[k] BY DEF KindsOf
    <2> QED BY <2>1 DEF FreshComponents, Since
<1> QED BY <1>1, <1>2, FewerRows

\* After an arrival only the layers that it is heard by can be made that could not be before.
LEMMA ArriveLost ==
    ASSUME LayersInv, LostStaysLost, NEW K \in SUBSET Kinds, NEW ts \in Times,
           NEW others \in SUBSET Layers, Arrive(K, ts, others),
           "liquidity" \in K => is_market_hours(ts), "influencer" \in others \/ priced' = priced
    PROVE  LostStaysLost'
<1>1. /\ rows' = [k \in Kinds |-> IF k \in K /\ rows[k] < ts THEN ts ELSE rows[k]]
      /\ heard' = heard \cup {LayerOf(k) : k \in K} \cup others /\ now' = now /\ last' = last
    BY DEF Arrive
<1>2. rows'["liquidity"] = None \/ is_market_hours(rows'["liquidity"])
    <2>1. "liquidity" \in Kinds BY DEF Kinds, Components
    <2>2. \/ "liquidity" \in K /\ rows'["liquidity"] = ts
          \/ rows'["liquidity"] = rows["liquidity"]
        BY <1>1, <2>1
    <2> QED BY <2>2 DEF LostStaysLost
<1>3. ASSUME last.at # None, NEW l \in Layers, last.data[l] = None, l \notin heard'
      PROVE  (Fresh[l])' = Nothing
    <2>1. Fresh[l] = Nothing BY <1>1, <1>3 DEF LostStaysLost
    <2>2. ASSUME NEW k \in KindsOf[l] PROVE rows'[k] = rows[k]
        <3>1. k \in Kinds /\ LayerOf(k) = l BY KindsApart
        <3>2. k \notin K BY <1>1, <1>3, <3>1
        <3> QED BY <1>1, <3>1, <3>2
    <2>3. l = "influencer" => priced' = priced BY <1>1, <1>3
    <2>4. RowsTyped BY DEF LayersInv
    <2> QED BY <1>1, <2>1, <2>2, <2>3, <2>4, SameRows
<1>4. (rows["liquidity"] = None \/ is_market_hours(rows["liquidity"]))'
    BY <1>2 DEF is_market_hours
<1> QED BY <1>1, <1>3, <1>4 DEF LostStaysLost, Nothing

\* With time rows only fall out of the windows, and become stale.
LEMMA PassLost == ASSUME LayersInv, LayersInv', LostStaysLost, Pass PROVE LostStaysLost'
<1>1. now < Horizon /\ now' = now + 1 /\ UNCHANGED <<fed, priced, last, heard>>
      /\ rows' = [k \in Kinds |-> IF rows[k] # None /\ Behind(k, now + 1) THEN None ELSE rows[k]]
    BY DEF Pass
<1>2. now \in Times /\ now + 1 \in Times /\ rows \in [Kinds -> Stamp] BY <1>1 DEF LayersInv, RowsTyped
<1>3. \A k \in Kinds : rows'[k] # None => rows'[k] = rows[k] /\ rows[k] \in Times /\ rows[k] <= now
    BY <1>1, <1>2 DEF LayersInv, RowsTyped, Stamp
<1>4. "liquidity" \in Kinds /\ "short_volume" \in Kinds BY DEF Kinds, Components
<1>5. ASSUME NEW l \in EXO_LAYERS PROVE InWindow(l)' \subseteq InWindow(l)
    <2> SUFFICES ASSUME NEW k \in InWindow(l)' PROVE k \in InWindow(l)
        OBVIOUS
    <2> DEFINE u == now + 1
    <2>1. l \in Layers \ {"market"} BY DEF EXO_LAYERS
    <2>2. k \in KindsOf[l] /\ k \in Kinds BY DEF InWindow, Since, EXO_LAYERS, Layers, KindsOf, Kinds
    <2>3. rows'[k] # None /\ u - SCORE_LOOKBACK[l] <= rows'[k] BY <1>1 DEF InWindow, Since
    <2>4. rows[k] # None /\ rows[k] \in Times /\ u - SCORE_LOOKBACK[l] <= rows[k]
        BY <1>3, <2>2, <2>3
    <2>5. SCORE_LOOKBACK[l] \in Nat /\ Horizon \in Nat BY <2>1, LayersAssumed DEF LayerAssumption
    <2>6. now - SCORE_LOOKBACK[l] <= rows[k] BY <1>2, <2>4, <2>5 DEF Times
    <2> QED BY <2>2, <2>4, <2>6 DEF InWindow, Since
<1>6. FreshComponents' \subseteq FreshComponents
    <2> SUFFICES ASSUME NEW k \in FreshComponents' PROVE k \in FreshComponents
        OBVIOUS
    <2>1. k \in Components /\ k \in Kinds BY DEF FreshComponents, Since, Kinds
    <2>2. rows'[k] # None /\ market_lookback_since(now') <= rows'[k]
          /\ ~signal_is_stale(k, rows'[k], now')
        BY DEF FreshComponents, Since, market_lookback_since, signal_is_stale, is_market_hours,
               last_close, open_of, _short_volume_stale
    <2>3. rows[k] \in Times /\ rows[k] <= now /\ rows[k] # None
          /\ market_lookback_since(now + 1) <= rows[k] /\ ~signal_is_stale(k, rows[k], now + 1)
        BY <1>1, <1>3, <2>1, <2>2
    <2>4. k = "short_volume" => rows[k] \in Closes
        BY <2>3 DEF LayersInv, RowsTyped
    <2>5. k = "liquidity" => is_market_hours(rows[k]) BY <2>3 DEF LostStaysLost
    <2>6. market_lookback_since(now) <= rows[k] /\ ~signal_is_stale(k, rows[k], now)
        BY <1>2, <2>1, <2>3, <2>4, <2>5, NoneReturns
    <2> QED BY <2>1, <2>3, <2>6 DEF FreshComponents, Since
<1>7. ASSUME last.at # None, NEW l \in Layers, last.data[l] = None, l \notin heard
      PROVE  (Fresh[l])' = Nothing
    <2>1. Fresh[l] = Nothing BY <1>7 DEF LostStaysLost
    <2>2. RowsTyped BY DEF LayersInv
    <2>3. l # "market" => InWindow(l)' \subseteq InWindow(l) BY <1>5 DEF EXO_LAYERS
    <2> QED BY <1>1, <1>6, <2>1, <2>2, <2>3, FewerRows
<1>8. rows'["liquidity"] = None \/ is_market_hours(rows'["liquidity"])
    BY <1>3, <1>4 DEF LostStaysLost
<1>9. (rows["liquidity"] = None \/ is_market_hours(rows["liquidity"]))'
    BY <1>8 DEF is_market_hours
<1> QED BY <1>1, <1>7, <1>9 DEF LostStaysLost, Nothing

\* A tick loses exactly the layers that it cannot make.
LEMMA TickLost ==
    ASSUME LayersInv, LostStaysLost, compute_scored_state PROVE LostStaysLost'
<1>1. last' = State /\ heard' = {} /\ UNCHANGED <<now, fed, rows, priced>> BY DEF compute_scored_state
<1>2. RowsTyped /\ Backed(last) BY DEF LayersInv
<1>3. ASSUME NEW l \in Layers, last'.data[l] = None PROVE (Fresh[l])' = Nothing
    <2>1. LayerResult(l).data = None BY <1>1, <1>3 DEF State
    <2>2. LayerResult(l) = Nothing BY <1>2, <2>1, MissingHasNone
    <2>3. Fresh[l] = Nothing BY <2>2 DEF LayerResult
    <2> QED BY <1>1, <1>2, <2>3, SameRows
<1>4. (rows["liquidity"] = None \/ is_market_hours(rows["liquidity"]))'
    BY <1>1 DEF LostStaysLost, is_market_hours
<1> QED BY <1>3, <1>4 DEF LostStaysLost, Nothing

\* No step finds again what is lost.
LEMMA StepLost == LayersInv /\ LayersInv' /\ LostStaysLost /\ [Next]_vars => LostStaysLost'
<1> SUFFICES ASSUME LayersInv, LayersInv', LostStaysLost, [Next]_vars PROVE LostStaysLost'
    OBVIOUS
<1>0. now \in Times /\ priced \in BOOLEAN BY DEF LayersInv, RowsTyped, TypeOK
<1>1. CASE _run_market
    <2>1. PICK bar, quote \in BOOLEAN :
             /\ quote => is_market_hours(now)
             /\ Arrive(fed \cap ((IF bar THEN {"order_flow", "returns", "volume", "momentum"}
                                  ELSE IF priced THEN {"momentum"} ELSE {})
                                 \cup IF quote THEN {"liquidity"} ELSE {}), now,
                       IF bar /\ ~priced THEN {"influencer"} ELSE {})
             /\ priced' = (priced \/ bar)
        BY <1>1 DEF _run_market
    <2> DEFINE K == fed \cap ((IF bar THEN {"order_flow", "returns", "volume", "momentum"}
                               ELSE IF priced THEN {"momentum"} ELSE {})
                              \cup IF quote THEN {"liquidity"} ELSE {})
               others == IF bar /\ ~priced THEN {"influencer"} ELSE {}
    <2>2. Arrive(K, now, others) BY <2>1
    <2>3. K \subseteq Kinds BY DEF LayersInv, TypeOK
    <2>4. others \in SUBSET Layers BY DEF Layers
    <2>5. "liquidity" \in K => is_market_hours(now) BY <2>1
    <2>6. "influencer" \in others \/ priced' = priced BY <1>0, <2>1
    <2> HIDE DEF K, others
    <2> QED BY <1>0, <2>2, <2>3, <2>4, <2>5, <2>6, ArriveLost
<1>2. CASE ingest_short_volume
    <2>1. PICK c \in Closes \cap Times : Arrive({"short_volume"}, c, {})
        BY <1>2 DEF ingest_short_volume
    <2>2. priced' = priced BY <1>2 DEF ingest_short_volume
    <2>3. "short_volume" \in Kinds BY DEF Kinds, Components
    <2> QED BY <2>1, <2>2, <2>3, ArriveLost
<1>3. CASE LoadCloses
    <2>1. UNCHANGED <<now, fed, rows, last>> /\ heard' = heard \cup {"influencer"}
        BY <1>3 DEF LoadCloses
    <2>2. ASSUME last.at # None, NEW l \in Layers, last.data[l] = None, l \notin heard'
          PROVE  (Fresh[l])' = Nothing
        <3>1. Fresh[l] = Nothing BY <2>1, <2>2 DEF LostStaysLost
        <3>2. l # "influencer" /\ RowsTyped BY <2>1, <2>2 DEF LayersInv
        <3> QED BY <2>1, <3>1, <3>2, SameRows
    <2>3. (rows["liquidity"] = None \/ is_market_hours(rows["liquidity"]))'
        BY <2>1 DEF LostStaysLost, is_market_hours
    <2> QED BY <2>1, <2>2, <2>3 DEF LostStaysLost, Nothing
<1>4. CASE \E k \in Kinds : Deliver(k)
    <2>1. PICK k \in Kinds : Deliver(k) BY <1>4
    <2>2. PICK ts \in Times : Arrive({k}, ts, {}) BY <2>1 DEF Deliver
    <2>3. k # "liquidity" /\ priced' = priced BY <2>1 DEF Deliver, Components
    <2> QED BY <2>2, <2>3, ArriveLost
<1>5. CASE compute_scored_state BY <1>5, TickLost
<1>6. CASE LoseState
    <2>1. last' = NoState /\ UNCHANGED <<now, fed, rows, priced, heard>> BY <1>6 DEF LoseState
    <2>2. last'.at = None BY <2>1 DEF NoState
    <2>3. (rows["liquidity"] = None \/ is_market_hours(rows["liquidity"]))'
        BY <2>1 DEF LostStaysLost, is_market_hours
    <2> QED BY <2>2, <2>3 DEF LostStaysLost
<1>7. CASE Pass BY <1>7, PassLost
<1>8. CASE UNCHANGED vars
    <2>1. UNCHANGED <<now, fed, rows, priced, last, heard>> BY <1>8 DEF vars
    <2>2. ASSUME last.at # None, NEW l \in Layers, last.data[l] = None, l \notin heard
          PROVE  (Fresh[l])' = Nothing
        <3>1. Fresh[l] = Nothing /\ RowsTyped BY <2>2 DEF LostStaysLost, LayersInv
        <3> QED BY <2>1, <3>1, SameRows
    <2>3. (rows["liquidity"] = None \/ is_market_hours(rows["liquidity"]))'
        BY <2>1 DEF LostStaysLost, is_market_hours
    <2> QED BY <2>1, <2>2, <2>3 DEF LostStaysLost, Nothing
<1> QED BY <1>1, <1>2, <1>3, <1>4, <1>5, <1>6, <1>7, <1>8 DEF Next

\* What is lost is not in the next state unless something has arrived for it.
LEMMA LostIsNotPublished ==
    ASSUME LayersInv, LostStaysLost, [Next]_vars, last.at # None, last'.at # None,
           NEW l \in Layers, last.data[l] = None, last'.data[l] # None
    PROVE  l \in heard
<1> SUFFICES ASSUME l \notin heard PROVE FALSE
    OBVIOUS
<1>1. CASE last' = last BY <1>1
<1>2. CASE LoseState BY <1>2 DEF LoseState, NoState
<1>3. CASE compute_scored_state
    <2>1. last'.data[l] = LayerResult(l).data BY <1>3 DEF compute_scored_state, State
    <2>2. Fresh[l] = Nothing BY DEF LostStaysLost
    <2>3. Sound(l, [asOf |-> last.asOf[l], data |-> last.data[l]]) BY DEF LayersInv, Backed
    <2>4. last.data[l] \notin Times BY TimesAreNaturals DEF None
    <2>5. [asOf |-> last.asOf[l], data |-> last.data[l]] = Nothing BY <2>3, <2>4 DEF Sound
    <2>6. last.asOf[l] = None BY <2>5 DEF Nothing
    <2>7. LayerResult(l) = Nothing BY <2>2, <2>6 DEF LayerResult, _fallback_subindex
    <2> QED BY <2>1, <2>7 DEF Nothing
<1>4. CASE UNCHANGED vars BY <1>1, <1>4 DEF vars
<1>5. CASE _run_market \/ ingest_short_volume \/ LoadCloses \/ (\E k \in Kinds : Deliver(k)) \/ Pass
    <2>1. last' = last
        BY <1>5 DEF _run_market, ingest_short_volume, LoadCloses, Deliver, Pass, Arrive
    <2> QED BY <1>1, <2>1
<1> QED BY <1>2, <1>3, <1>4, <1>5 DEF Next

---------------------------------------------------------------------------
(* The theorems.                                                           *)

\* The invariant holds throughout.
LEMMA LayersInvariant == Spec => []LayersInv
<1>1. Init => LayersInv BY InitLayers
<1>2. LayersInv /\ [Next]_vars => LayersInv' BY StepLayers
<1> QED BY <1>1, <1>2, PTL DEF Spec

\* The clock, the rows and the published state are what they should be, whatever arrives.
THEOREM LayersTyped == Spec => []TypeOK
<1>1. LayersInv => TypeOK BY DEF LayersInv
<1> QED BY <1>1, LayersInvariant, PTL

\* However long layers are carried from tick to tick (orchestrator._fallback_subindex), what
\* a published layer stands on is of bounded age.
THEOREM LayersRunOut == Spec => []ValuesRunOut
<1>1. LayersInv => ValuesRunOut BY DEF LayersInv
<1> QED BY <1>1, LayersInvariant, PTL

\* The flags of staleness never repeat what a missing or carried layer already costs
\* (orchestrator.compute_scored_state).
THEOREM AbsenceChargedOnce == Spec => []AbsenceIsChargedOnce
<1>1. LayersInv => AbsenceIsChargedOnce BY DEF LayersInv
<1> QED BY <1>1, LayersInvariant, PTL

\* No layer that a tick has lost comes back out of rows that were there before: whatever
\* session begins or ends, no row becomes usable again (staleness.signal_is_stale,
\* market_lookback_since and the windows of the orchestrator).
THEOREM LostLayersStay == Spec => StaleStaysMissing
<1>1. Init => LostStaysLost
    <2> SUFFICES ASSUME Init PROVE LostStaysLost
        OBVIOUS
    <2>1. "liquidity" \in Kinds BY DEF Kinds, Components
    <2>2. rows["liquidity"] = None /\ last.at = None BY <2>1 DEF Init, NoState
    <2> QED BY <2>2 DEF LostStaysLost
<1>2. LayersInv /\ LostStaysLost /\ [Next]_vars
      => (last.at # None /\ last'.at # None =>
              \A l \in Layers : last.data[l] = None /\ last'.data[l] # None => l \in heard)
    BY LostIsNotPublished
<1> QED BY <1>1, <1>2, LayersInvariant, StepLost, PTL DEF Spec, StaleStaysMissing

---------------------------------------------------------------------------
(* Recursion on the naturals, without an operator for a parameter.         *)

\* Induction over the naturals, for a set instead of a predicate: a set that contains 0
\* and with a number its successor leaves out no least number, and so none.
LEMMA InductionOnNat ==
    ASSUME NEW S \in SUBSET Nat, 0 \in S, \A n \in S : n + 1 \in S
    PROVE  \A n \in Nat : n \in S
<1> SUFFICES ASSUME NEW n \in Nat, n \notin S PROVE FALSE OBVIOUS
<1> DEFINE T == {i \in 0 .. n : i \notin S}
<1>1. T \in SUBSET (0 .. n) /\ T # {} OBVIOUS
<1>2. PICK m \in T : \A j \in T : m <= j
    <2> HIDE DEF T
    <2> QED BY <1>1, Extremes
<1>3. m # 0 /\ m \in Nat /\ m - 1 \in 0 .. n /\ m - 1 \notin T BY <1>2
<1>4. m - 1 \in S BY <1>3
<1>5. (m - 1) + 1 \in S BY <1>4
<1> QED BY <1>2, <1>3, <1>5

\* f goes from v0 by a step to the next number.
Follows(f, v0, step) == f[0] = v0 /\ \A n \in Nat : f[n + 1] = step[<<n, f[n]>>]

\* A function may be defined by recursion on the naturals: its value at n is what every
\* sequence of n steps from the start leads to, and there is one such value.
LEMMA RecursionOnNat ==
    ASSUME NEW V, NEW v0 \in V, NEW step \in [Nat \X V -> V]
    PROVE  \E f \in [Nat -> V] : Follows(f, v0, step)
<1> DEFINE Steps(n, g) == g[0] = v0 /\ \A i \in 0 .. n - 1 : g[i + 1] = step[<<i, g[i]>>]
           Reaches(n, v) == \E g \in [Nat -> V] : Steps(n, g) /\ g[n] = v
           S == {n \in Nat : \E v \in V : Reaches(n, v) /\ \A w \in V : Reaches(n, w) => w = v}
<1>1. 0 \in S
    <2> DEFINE g == [i \in Nat |-> v0]
    <2>1. g \in [Nat -> V] /\ Steps(0, g) /\ g[0] = v0 OBVIOUS
    <2>2. Reaches(0, v0) BY <2>1
    <2>3. \A w \in V : Reaches(0, w) => w = v0 OBVIOUS
    <2> QED BY <2>2, <2>3
<1>2. ASSUME NEW n \in S PROVE n + 1 \in S
    <2>1. PICK v \in V : Reaches(n, v) /\ \A w \in V : Reaches(n, w) => w = v OBVIOUS
    <2>2. n \in Nat /\ n + 1 \in Nat OBVIOUS
    <2> DEFINE u == step[<<n, v>>]
    <2>3. u \in V BY <2>2
    <2>4. Reaches(n + 1, u)
        <3>1. PICK g \in [Nat -> V] : Steps(n, g) /\ g[n] = v BY <2>1
        <3> DEFINE h == [i \in Nat |-> IF i = n + 1 THEN u ELSE g[i]]
        <3>2. h \in [Nat -> V] BY <2>3
        <3>3. \A i \in 0 .. n : h[i] = g[i] BY <2>2
        <3>4. h[n + 1] = u BY <2>2
        <3>5. Steps(n + 1, h)
            <4>1. h[0] = v0 BY <2>2, <3>1, <3>3
            <4>2. ASSUME NEW i \in 0 .. n PROVE h[i + 1] = step[<<i, h[i]>>]
                <5>1. CASE i = n BY <2>2, <3>1, <3>3, <3>4, <5>1
                <5>2. CASE i # n
                    <6>1. i \in 0 .. n - 1 /\ i + 1 \in 0 .. n BY <2>2, <5>2
                    <6>2. g[i + 1] = step[<<i, g[i]>>] BY <3>1, <6>1
                    <6> QED BY <3>3, <6>1, <6>2
                <5> QED BY <5>1, <5>2
            <4>3. (n + 1) - 1 = n BY <2>2
            <4> QED BY <4>1, <4>2, <4>3
        <3> HIDE DEF h, Steps
        <3> QED BY <3>2, <3>4, <3>5
    <2>5. ASSUME NEW w \in V, Reaches(n + 1, w) PROVE w = u
        <3>1. PICK g \in [Nat -> V] : Steps(n + 1, g) /\ g[n + 1] = w BY <2>5
        <3>2. g[0] = v0 /\ \A i \in 0 .. n : g[i + 1] = step[<<i, g[i]>>]
            <4>1. (n + 1) - 1 = n BY <2>2
            <4> QED BY <3>1, <4>1
        <3>3. Steps(n, g)
            <4>1. \A i \in 0 .. n - 1 : i \in 0 .. n BY <2>2
            <4> QED BY <3>2, <4>1
        <3>4. g[n] \in V BY <2>2
        <3>5. g[n] = v
            <4> HIDE DEF Steps
            <4> QED BY <2>1, <3>3, <3>4
        <3>6. g[n + 1] = step[<<n, g[n]>>]
            <4>1. n \in 0 .. n BY <2>2
            <4> QED BY <3>2, <4>1
        <3> QED BY <3>1, <3>5, <3>6
    <2> HIDE DEF Reaches, u
    <2> QED BY <2>2, <2>3, <2>4, <2>5
<1>3. \A n \in Nat : n \in S
    <2> HIDE DEF S
    <2>1. S \in SUBSET Nat BY DEF S
    <2> QED BY <1>1, <1>2, <2>1, InductionOnNat
<1>4. \A n \in Nat : \E v \in V : Reaches(n, v) /\ \A w \in V : Reaches(n, w) => w = v
    <2> HIDE DEF Reaches
    <2> QED BY <1>3
<1> DEFINE f == [n \in Nat |-> CHOOSE v \in V : Reaches(n, v)]
<1>5. ASSUME NEW n \in Nat PROVE f[n] \in V /\ Reaches(n, f[n]) /\ \A w \in V : Reaches(n, w) => w = f[n]
    <2> HIDE DEF Reaches
    <2> QED BY <1>4
<1>6. f \in [Nat -> V] BY <1>5
<1>7. f[0] = v0
    <2>1. Reaches(0, f[0]) BY <1>5
    <2> QED BY <2>1
<1>8. ASSUME NEW n \in Nat PROVE f[n + 1] = step[<<n, f[n]>>]
    <2>1. n + 1 \in Nat /\ (n + 1) - 1 = n OBVIOUS
    <2>2. Reaches(n + 1, f[n + 1]) BY <1>5, <2>1
    <2> HIDE DEF f
    <2>3. PICK g \in [Nat -> V] : Steps(n + 1, g) /\ g[n + 1] = f[n + 1] BY <2>2
    <2>4. g[0] = v0 /\ \A i \in 0 .. n : g[i + 1] = step[<<i, g[i]>>] BY <2>1, <2>3
    <2>5. Steps(n, g)
        <3>1. \A i \in 0 .. n - 1 : i \in 0 .. n OBVIOUS
        <3> QED BY <2>4, <3>1
    <2>6. g[n] = f[n]
        <3>1. Reaches(n, g[n])
            <4> HIDE DEF Steps
            <4> QED BY <2>5
        <3> HIDE DEF Reaches
        <3> QED BY <1>5, <3>1
    <2>7. g[n + 1] = step[<<n, g[n]>>]
        <3>1. n \in 0 .. n OBVIOUS
        <3> QED BY <2>4, <3>1
    <2> QED BY <2>3, <2>6, <2>7
<1> HIDE DEF f
<1> QED BY <1>6, <1>7, <1>8 DEF Follows

\* The powers of two double.
LEMMA PowersDouble ==
    pow2 \in [Nat -> Int] /\ pow2[0] = 1 /\ \A n \in Nat : pow2[n + 1] = 2 * pow2[n]
<1> DEFINE Def(g) == [k \in Nat |-> IF k = 0 THEN 1 ELSE 2 * g[k - 1]]
<1>1. pow2 = CHOOSE g : g = Def(g) BY DEF pow2
<1>2. \E g : g = Def(g)
    <2> DEFINE step == [p \in Nat \X Int |-> 2 * p[2]]
    <2>1. step \in [Nat \X Int -> Int] OBVIOUS
    <2>2. PICK f \in [Nat -> Int] : f[0] = 1 /\ \A n \in Nat : f[n + 1] = step[<<n, f[n]>>]
        <3> DEFINE V == Int
                   v0 == 1
        <3>1. v0 \in V /\ step \in [Nat \X V -> V] BY <2>1
        <3> HIDE DEF step, V, v0
        <3>2. \E f \in [Nat -> V] : Follows(f, v0, step) BY <3>1, RecursionOnNat
        <3> QED BY <3>2 DEF V, v0, Follows
    <2>3. ASSUME NEW k \in Nat PROVE f[k] = IF k = 0 THEN 1 ELSE 2 * f[k - 1]
        <3>1. CASE k = 0 BY <2>2, <3>1
        <3>2. CASE k # 0
            <4>1. k - 1 \in Nat /\ (k - 1) + 1 = k BY <3>2
            <4>2. f[(k - 1) + 1] = step[<<k - 1, f[k - 1]>>] BY <2>2, <4>1
            <4> QED BY <3>2, <4>1, <4>2
        <3> QED BY <3>1, <3>2
    <2>4. f = Def(f) BY <2>3
    <2> QED BY <2>4
<1>3. pow2 = Def(pow2)
    <2> HIDE DEF Def
    <2> QED BY <1>1, <1>2
<1>4. pow2[0] = 1 BY <1>3
<1>5. ASSUME NEW n \in Nat PROVE pow2[n + 1] = 2 * pow2[n]
    <2>1. n + 1 \in Nat /\ n + 1 # 0 /\ (n + 1) - 1 = n OBVIOUS
    <2> DEFINE g == pow2
    <2>2. g = [k \in Nat |-> IF k = 0 THEN 1 ELSE 2 * g[k - 1]] BY <1>3
    <2> HIDE DEF g
    <2>3. g[n + 1] = 2 * g[n] BY <2>1, <2>2
    <2> QED BY <2>3 DEF g
<1>6. \A n \in Nat : pow2[n] \in Int
    <2> DEFINE S == {n \in Nat : pow2[n] \in Int}
    <2>1. S \in SUBSET Nat /\ 0 \in S BY <1>4
    <2>2. ASSUME NEW n \in S PROVE n + 1 \in S
        <3>1. n \in Nat /\ pow2[n] \in Int /\ n + 1 \in Nat OBVIOUS
        <3>2. pow2[n + 1] = 2 * pow2[n] BY <1>5, <3>1
        <3> QED BY <3>1, <3>2
    <2> HIDE DEF S
    <2>3. \A n \in Nat : n \in S BY <2>1, <2>2, InductionOnNat
    <2> QED BY <2>3 DEF S
<1>7. pow2 = [k \in Nat |-> pow2[k]] BY <1>3
<1> QED BY <1>4, <1>5, <1>6, <1>7

\* The powers of two are positive, and exponents add.
LEMMA PowersMultiply ==
    ASSUME NEW j \in Nat
    PROVE  /\ pow2[j] \in Nat \ {0}
           /\ \A k \in Nat : pow2[j + k] = pow2[j] * pow2[k]
<1>1. \A n \in Nat : pow2[n] \in Nat \ {0}
    <2> DEFINE S == {n \in Nat : pow2[n] \in Nat \ {0}}
    <2>1. S \in SUBSET Nat /\ 0 \in S BY PowersDouble
    <2>2. ASSUME NEW n \in S PROVE n + 1 \in S
        <3>1. n \in Nat /\ pow2[n] \in Nat \ {0} /\ n + 1 \in Nat OBVIOUS
        <3>2. pow2[n + 1] = 2 * pow2[n] BY PowersDouble, <3>1
        <3> QED BY <3>1, <3>2
    <2> HIDE DEF S
    <2>3. \A n \in Nat : n \in S BY <2>1, <2>2, InductionOnNat
    <2> QED BY <2>3 DEF S
<1>2. \A k \in Nat : pow2[j + k] = pow2[j] * pow2[k]
    <2> DEFINE S == {k \in Nat : pow2[j + k] = pow2[j] * pow2[k]}
    <2>1. S \in SUBSET Nat /\ 0 \in S
        <3>1. pow2[0] = 1 /\ pow2[j] \in Nat /\ j + 0 = j BY PowersDouble, <1>1
        <3> QED BY <3>1
    <2>2. ASSUME NEW n \in S PROVE n + 1 \in S
        <3>1. n \in Nat /\ n + 1 \in Nat /\ j + n \in Nat /\ j + (n + 1) = (j + n) + 1 OBVIOUS
        <3>2. pow2[n + 1] = 2 * pow2[n] /\ pow2[(j + n) + 1] = 2 * pow2[j + n] BY PowersDouble, <3>1
        <3>3. pow2[j + n] = pow2[j] * pow2[n] OBVIOUS
        <3>4. pow2[j] \in Int /\ pow2[n] \in Int BY <1>1, <3>1
        <3> DEFINE a == pow2[j]
                   b == pow2[n]
        <3>5. 2 * (a * b) = a * (2 * b)
            <4> HIDE DEF a, b
            <4>1. a \in Int /\ b \in Int BY <3>4 DEF a, b
            <4> QED BY <4>1
        <3> QED BY <3>1, <3>2, <3>3, <3>5
    <2> HIDE DEF S
    <2>3. \A n \in Nat : n \in S BY <2>1, <2>2, InductionOnNat
    <2> QED BY <2>3 DEF S
<1> QED BY <1>1, <1>2

---------------------------------------------------------------------------
(* Smoothing.                                                              *)

\* What smoothing does to the terms of two quotients, brought to one denominator: bridging
\* a gap in two steps scales both terms, and one step stays between the two.
LEMMA MixedTerms ==
    ASSUME NEW a \in Nat, NEW b \in Nat, NEW c \in Nat, NEW d \in Nat,
           NEW u \in Nat \ {0}, NEW v \in Nat \ {0}
    PROVE  /\ (u * v - 1) * a + b \in Nat
           /\ (v - 1) * (u * (d * a)) + ((u - 1) * a + b) * d = d * ((u * v - 1) * a + b)
           /\ a <= b => u * a <= (u - 1) * a + b /\ (u - 1) * a + b <= u * b
           /\ b <= a => (u - 1) * a + b <= u * a /\ u * b <= (u - 1) * a + b
<1> DEFINE x == u * a
           y == d * a
<1>1. x \in Nat /\ y \in Nat /\ u * b \in Nat /\ u * v \in Nat \ {0} OBVIOUS
<1>2. (u - 1) * a = x - a /\ u * y = d * x /\ (u * v) * a = v * x
    OBVIOUS
<1>3. (u * v - 1) * a = v * x - a
    <2>1. (u * v - 1) * a = (u * v) * a - a OBVIOUS
    <2> QED BY <1>2, <2>1
<1>4. a <= x
    <2>1. x = a + (u - 1) * a /\ (u - 1) * a \in Nat OBVIOUS
    <2> QED BY <2>1
<1>5. v * x \in Nat /\ x <= v * x
    <2>1. v * x = x + (v - 1) * x /\ (v - 1) * x \in Nat BY <1>1
    <2> QED BY <1>1, <2>1
<1>6. (v - 1) * (d * x) + ((x - a) + b) * d = d * ((v * x - a) + b)
    <2> HIDE DEF x
    <2>1. (v - 1) * (d * x) = d * (v * x) - d * x BY <1>1
    <2>2. ((x - a) + b) * d = (d * x - d * a) + d * b BY <1>1
    <2>3. d * ((v * x - a) + b) = (d * (v * x) - d * a) + d * b BY <1>1, <1>5
    <2>4. d * (v * x) \in Int /\ d * x \in Int /\ d * a \in Int /\ d * b \in Int BY <1>1, <1>5
    <2> QED BY <2>1, <2>2, <2>3, <2>4
<1>7. (u * v - 1) * a + b \in Nat
    <2> HIDE DEF x
    <2> QED BY <1>1, <1>3, <1>4, <1>5
<1>8. a <= b => (u - 1) * a <= (u - 1) * b /\ u * b = b + (u - 1) * b
    <2>1. b = a + (b - a) OBVIOUS
    <2>2. ASSUME a <= b PROVE (u - 1) * a <= (u - 1) * b
        <3>1. (u - 1) * b = (u - 1) * a + (u - 1) * (b - a) OBVIOUS
        <3>2. (u - 1) * (b - a) \in Nat /\ (u - 1) * a \in Int BY <2>2
        <3> QED BY <3>1, <3>2
    <2> QED BY <2>2
<1>9. b <= a => (u - 1) * b <= (u - 1) * a /\ u * b = b + (u - 1) * b
    <2>2. ASSUME b <= a PROVE (u - 1) * b <= (u - 1) * a
        <3>1. (u - 1) * a = (u - 1) * b + (u - 1) * (a - b) OBVIOUS
        <3>2. (u - 1) * (a - b) \in Nat /\ (u - 1) * b \in Int BY <2>2
        <3> QED BY <3>1, <3>2
    <2> QED BY <2>2
<1>10. u * a = a + (u - 1) * a /\ (u - 1) * a \in Int /\ (u - 1) * b \in Int OBVIOUS
<1>11. (v - 1) * (u * (d * a)) + ((u - 1) * a + b) * d = d * ((u * v - 1) * a + b)
    <2>1. u * (d * a) = d * x BY <1>2
    <2>2. (u - 1) * a = x - a BY <1>2
    <2> HIDE DEF x
    <2> QED BY <1>3, <1>6, <2>1, <2>2
<1>12. a <= b => u * a <= (u - 1) * a + b /\ (u - 1) * a + b <= u * b
    BY <1>8, <1>10
<1>13. b <= a => (u - 1) * a + b <= u * a /\ u * b <= (u - 1) * a + b
    BY <1>9, <1>10
<1> QED BY <1>7, <1>11, <1>12, <1>13

\* A quotient that is a score.
IsScore(p) == p = [num |-> p.num, den |-> p.den] /\ p.num \in Nat /\ p.den \in Nat \ {0}

\* A score differs from None, and so compute_ema mixes scores by the time between them.
LEMMA Smoothed ==
    ASSUME NEW p, IsScore(p), NEW q, IsScore(q), NEW k \in Nat
    PROVE  /\ compute_ema(p, Of(None), k) = p
           /\ compute_ema(p, q, k) = IF k = 0 THEN q ELSE Mix(p, q, k)
           /\ Mix(p, q, k).num = (pow2[k] - 1) * (p.num * q.den) + q.num * p.den
           /\ Mix(p, q, k).den = pow2[k] * (p.den * q.den)
           /\ IsScore(Mix(p, q, k)) /\ IsScore(compute_ema(p, q, k))
<1>1. ~Equal(q, Of(None)) /\ Equal(Of(None), Of(None))
    <2>1. q.num * 1 = q.num /\ q.num # (0 - 1) * q.den BY DEF IsScore
    <2> QED BY <2>1 DEF Equal, Of, Quotient, None, IsScore
<1>2. compute_ema(p, Of(None), k) = p BY <1>1 DEF compute_ema
<1>3. compute_ema(p, q, k) = IF k = 0 THEN q ELSE Mix(p, q, k) BY <1>1 DEF compute_ema
<1> DEFINE n == (pow2[k] - 1) * (p.num * q.den) + q.num * p.den
           d == pow2[k] * (p.den * q.den)
<1>4. Mix(p, q, k) = [num |-> n, den |-> d] BY DEF Mix, Quotient
<1>5. n \in Nat /\ d \in Nat \ {0}
    <2> DEFINE u == pow2[k]
               a == p.num * q.den
               b == q.num * p.den
               c == p.den * q.den
    <2>1. u \in Nat \ {0} BY PowersMultiply
    <2>2. a \in Nat /\ b \in Nat /\ c \in Nat \ {0} BY DEF IsScore
    <2>3. n = (u - 1) * a + b /\ d = u * c OBVIOUS
    <2> HIDE DEF n, d, u, a, b, c
    <2> QED BY <2>1, <2>2, <2>3
<1> HIDE DEF n, d
<1>6. Mix(p, q, k).num = n /\ Mix(p, q, k).den = d BY <1>4
<1>7. IsScore(Mix(p, q, k)) BY <1>4, <1>5, <1>6 DEF IsScore
<1>8. IsScore(compute_ema(p, q, k)) BY <1>3, <1>7
<1> QED BY <1>2, <1>3, <1>6, <1>7, <1>8 DEF n, d

\* Two steps of mixing are one, whose value is between the two scores.
LEMMA MixedTwice ==
    ASSUME NEW p, IsScore(p), NEW q, IsScore(q), NEW j \in Nat, NEW k \in Nat
    PROVE  /\ Equal(Mix(p, q, j + k), Mix(p, Mix(p, q, j), k))
           /\ \/ AtMost(p, Mix(p, q, j)) /\ AtMost(Mix(p, q, j), q)
              \/ AtMost(q, Mix(p, q, j)) /\ AtMost(Mix(p, q, j), p)
<1> DEFINE x == Mix(p, q, j)
           y == Mix(p, x, k)
           z == Mix(p, q, j + k)
           a == p.num * q.den
           b == q.num * p.den
           c == p.den * q.den
           u == pow2[j]
           v == pow2[k]
           d == p.den
           e == q.den
<1>1. u \in Nat \ {0} /\ v \in Nat \ {0} /\ pow2[j + k] = u * v /\ j + k \in Nat BY PowersMultiply
<1>2. a \in Nat /\ b \in Nat /\ c \in Nat \ {0} /\ d \in Nat \ {0} /\ e \in Nat \ {0} BY DEF IsScore
<1>3. x.num = (u - 1) * a + b /\ x.den = u * c /\ IsScore(x) BY Smoothed
<1>4. z.num = (u * v - 1) * a + b /\ z.den = (u * v) * c
    <2>1. z.num = (pow2[j + k] - 1) * a + b /\ z.den = pow2[j + k] * c BY <1>1, Smoothed
    <2> QED BY <1>1, <2>1
<1>5. y.num = (v - 1) * (p.num * x.den) + x.num * d /\ y.den = v * (d * x.den)
    <2> HIDE DEF x
    <2> QED BY <1>3, Smoothed
<1>6. p.num * c = d * a /\ p.num \in Nat BY DEF IsScore
<1>7. p.num * (u * c) = u * (d * a)
    <2> HIDE DEF a, c, d, u
    <2>1. p.num * (u * c) = u * (p.num * c) BY <1>1, <1>2, <1>6
    <2> QED BY <1>6, <2>1
<1>8. y.num = d * z.num
    <2>1. y.num = (v - 1) * (u * (d * a)) + ((u - 1) * a + b) * d BY <1>3, <1>5, <1>7
    <2> HIDE DEF a, b, d, u, v, x, y, z
    <2> QED BY <1>1, <1>2, <1>4, <2>1, MixedTerms
<1>9. y.den = d * z.den
    <2>1. y.den = v * (d * (u * c)) BY <1>3, <1>5
    <2> HIDE DEF a, b, c, d, u, v, x, y, z
    <2>2. v * (d * (u * c)) = d * ((u * v) * c) BY <1>1, <1>2
    <2> QED BY <1>4, <2>1, <2>2
<1>10. z.num \in Nat /\ z.den \in Nat
    <2> HIDE DEF a, b, c, d, u, v, x, y, z
    <2>1. (u * v - 1) * a + b \in Nat BY <1>1, <1>2, MixedTerms
    <2>2. (u * v) * c \in Nat BY <1>1, <1>2
    <2> QED BY <1>4, <2>1, <2>2
<1>11. Equal(z, y)
    <2> HIDE DEF a, b, c, d, u, v, x, y, z
    <2>1. z.num * (d * z.den) = (d * z.num) * z.den BY <1>2, <1>10
    <2> QED BY <1>8, <1>9, <2>1 DEF Equal
<1>12. q.num * (u * c) = e * (u * b)
    <2>1. q.num * c = e * b /\ q.num \in Nat BY DEF IsScore
    <2> HIDE DEF b, c, e, u
    <2>2. q.num * (u * c) = u * (q.num * c) BY <1>1, <1>2, <2>1
    <2>3. u * (e * b) = e * (u * b) BY <1>1, <1>2
    <2> QED BY <2>1, <2>2, <2>3
<1>13. p.num * (u * c) = d * (u * a)
    <2> HIDE DEF a, c, d, u
    <2>1. u * (d * a) = d * (u * a) BY <1>1, <1>2
    <2> QED BY <1>7, <2>1
<1>14. /\ a <= b => u * a <= x.num /\ x.num <= u * b
       /\ b <= a => x.num <= u * a /\ u * b <= x.num
       /\ u * a \in Nat /\ u * b \in Nat /\ x.num \in Nat
    <2>1. x.num \in Nat BY <1>3 DEF IsScore
    <2> HIDE DEF a, b, c, d, u, v, x, y, z
    <2>2. u * a \in Nat /\ u * b \in Nat BY <1>1, <1>2
    <2> QED BY <1>1, <1>2, <1>3, <2>1, <2>2, MixedTerms
<1>15. /\ AtMost(p, x) <=> d * (u * a) <= d * x.num
       /\ AtMost(x, p) <=> d * x.num <= d * (u * a)
       /\ AtMost(x, q) <=> e * x.num <= e * (u * b)
       /\ AtMost(q, x) <=> e * (u * b) <= e * x.num
    <2>1. /\ AtMost(p, x) <=> p.num * x.den <= x.num * d
          /\ AtMost(x, p) <=> x.num * d <= p.num * x.den
          /\ AtMost(x, q) <=> x.num * e <= q.num * x.den
          /\ AtMost(q, x) <=> q.num * x.den <= x.num * e
        BY DEF AtMost
    <2>2. x.num * d = d * x.num /\ x.num * e = e * x.num
        <3> HIDE DEF a, b, c, d, e, u, v, x, y, z
        <3> QED BY <1>2, <1>14
    <2> HIDE DEF a, b, c, d, e, u, v, x, y, z
    <2> QED BY <1>3, <1>12, <1>13, <2>1, <2>2
<1>16. ASSUME NEW f \in Nat, NEW m \in Nat, NEW n \in Nat, m <= n PROVE f * m <= f * n
    <2>1. f * n = f * m + f * (n - m) /\ f * (n - m) \in Nat /\ f * m \in Nat BY <1>16
    <2> QED BY <2>1
<1>17. CASE a <= b
    <2> HIDE DEF a, b, c, d, e, u, v, x, y, z
    <2>1. d * (u * a) <= d * x.num /\ e * x.num <= e * (u * b) BY <1>2, <1>14, <1>16, <1>17
    <2>2. AtMost(p, x) /\ AtMost(x, q) BY <1>15, <2>1
    <2> QED BY <1>11, <2>2 DEF x, y, z
<1>18. CASE b <= a
    <2> HIDE DEF a, b, c, d, e, u, v, x, y, z
    <2>1. d * x.num <= d * (u * a) /\ e * (u * b) <= e * x.num BY <1>2, <1>14, <1>16, <1>18
    <2>2. AtMost(x, p) /\ AtMost(q, x) BY <1>15, <2>1
    <2> QED BY <1>11, <2>2 DEF x, y, z
<1>19. a <= b \/ b <= a
    <2> HIDE DEF a, b
    <2> QED BY <1>2
<1> HIDE DEF a, b, c, d, e, u, v, x, y, z
<1> QED BY <1>17, <1>18, <1>19

\* Two quotients that are the same are equal and in order.
LEMMA SameQuotient ==
    ASSUME NEW p, p.num \in Int, p.den \in Int
    PROVE  Equal(p, p) /\ AtMost(p, p)
BY DEF Equal, AtMost

\* Smoothing does not depend on the spacing of the ticks, and stays between the scores.
LEMMA CadenceFree ==
    ASSUME NEW p, IsScore(p), NEW q, IsScore(q) \/ q = Of(None), NEW j \in Nat, NEW k \in Nat
    PROVE  /\ Equal(compute_ema(p, q, j + k), compute_ema(p, compute_ema(p, q, j), k))
           /\ \/ AtMost(p, compute_ema(p, q, j + k)) /\ AtMost(compute_ema(p, q, j + k), q)
              \/ AtMost(q, compute_ema(p, q, j + k)) /\ AtMost(compute_ema(p, q, j + k), p)
<1>1. j + k \in Nat /\ 0 \in Nat OBVIOUS
<1>2. Equal(p, p) /\ AtMost(p, p) BY SameQuotient DEF IsScore
<1>3. CASE q = Of(None)
    <2>1. compute_ema(p, q, j + k) = p /\ compute_ema(p, q, j) = p BY <1>1, <1>3, Smoothed
    <2>2. compute_ema(p, p, k) = IF k = 0 THEN p ELSE Mix(p, p, k) BY Smoothed
    <2>3. AtMost(q, p)
        <3>1. p.num \in Nat /\ p.den \in Nat BY DEF IsScore
        <3>2. (0 - 1) * p.den <= p.num * 1 BY <3>1
        <3> QED BY <1>3, <3>2 DEF AtMost, Of, Quotient, None
    <2>4. Equal(p, Mix(p, p, k))
        <3> DEFINE w == pow2[k]
                   m == p.num
                   d == p.den
                   y == Mix(p, p, k)
        <3>2. y.num = (w - 1) * (m * d) + m * d /\ y.den = w * (d * d) BY Smoothed
        <3>3. w \in Nat /\ m \in Nat /\ d \in Nat BY PowersMultiply DEF IsScore
        <3>4. Equal(p, y) <=> m * y.den = y.num * d BY DEF Equal
        <3> HIDE DEF w, m, d, y
        <3>5. (w - 1) * (m * d) + m * d = w * (m * d) BY <3>3
        <3>6. m * (w * (d * d)) = (w * (m * d)) * d BY <3>3
        <3> QED BY <3>2, <3>4, <3>5, <3>6 DEF y
    <2> QED BY <1>2, <2>1, <2>2, <2>3, <2>4
<1>4. CASE IsScore(q)
    <2>1. Equal(q, q) /\ AtMost(q, q) BY <1>4, SameQuotient DEF IsScore
    <2>2. AtMost(p, q) \/ AtMost(q, p)
        <3>1. p.num * q.den \in Nat /\ q.num * p.den \in Nat BY <1>4 DEF IsScore
        <3> QED BY <3>1 DEF AtMost
    <2> DEFINE E(x, n) == compute_ema(p, x, n)
    <2>3. \A n \in Nat : IsScore(E(q, n)) /\ E(q, n) = IF n = 0 THEN q ELSE Mix(p, q, n)
        BY <1>4, Smoothed
    <2>4. CASE j = 0
        <3>1. E(q, j + k) = E(q, k) /\ E(q, j) = q BY <1>1, <2>3, <2>4
        <3>2. IsScore(E(q, k)) BY <2>3
        <3>3. Equal(E(q, k), E(q, k)) BY <3>2, SameQuotient DEF IsScore
        <3>4. \/ AtMost(p, E(q, k)) /\ AtMost(E(q, k), q)
              \/ AtMost(q, E(q, k)) /\ AtMost(E(q, k), p)
            <4>1. CASE k = 0 BY <2>1, <2>2, <2>3, <4>1
            <4>2. CASE k # 0 BY <1>4, <2>3, <4>2, MixedTwice
            <4> QED BY <4>1, <4>2
        <3> QED BY <3>1, <3>3, <3>4
    <2>5. CASE j # 0 /\ k = 0
        <3>1. j + k = j /\ E(q, j) = Mix(p, q, j) /\ IsScore(E(q, j)) BY <2>3, <2>5
        <3>2. E(E(q, j), k) = E(q, j) BY <2>5, <3>1, Smoothed
        <3>3. Equal(E(q, j), E(q, j)) BY <3>1, SameQuotient DEF IsScore
        <3>4. \/ AtMost(p, E(q, j)) /\ AtMost(E(q, j), q)
              \/ AtMost(q, E(q, j)) /\ AtMost(E(q, j), p)
            BY <1>4, <3>1, MixedTwice
        <3> QED BY <3>1, <3>2, <3>3, <3>4
    <2>6. CASE j # 0 /\ k # 0
        <3>1. j + k # 0 BY <2>6
        <3>2. E(q, j + k) = Mix(p, q, j + k) /\ E(q, j) = Mix(p, q, j) /\ IsScore(Mix(p, q, j))
            BY <1>1, <2>3, <2>6, <3>1
        <3>3. E(E(q, j), k) = Mix(p, Mix(p, q, j), k) BY <2>6, <3>2, Smoothed
        <3>4. Equal(Mix(p, q, j + k), Mix(p, Mix(p, q, j), k)) BY <1>4, MixedTwice
        <3>5. \/ AtMost(p, Mix(p, q, j + k)) /\ AtMost(Mix(p, q, j + k), q)
              \/ AtMost(q, Mix(p, q, j + k)) /\ AtMost(Mix(p, q, j + k), p)
            BY <1>1, <1>4, MixedTwice
        <3> QED BY <3>2, <3>3, <3>4, <3>5
    <2> QED BY <2>4, <2>5, <2>6
<1> QED BY <1>3, <1>4

---------------------------------------------------------------------------
(* Composite, divergence and cap.                                          *)

\* The composite lies between bounds of the layers that are present.
LEMMA CompositeBetween ==
    ASSUME NEW sub \in [Layers -> 0 .. 100 \cup {None}], present(sub) # {},
           NEW low \in Nat, \A l \in present(sub) : low <= sub[l],
           NEW high \in Nat, \A l \in present(sub) : sub[l] <= high
    PROVE  /\ compute_composite(sub).den \in Nat \ {0} /\ compute_composite(sub).num \in Nat
           /\ AtMost(Of(low), compute_composite(sub)) /\ AtMost(compute_composite(sub), Of(high))
<1> DEFINE C == compute_composite(sub)
           a == sub["market"]
           b == sub["narrative"]
           c == sub["influencer"]
           d == sub["macro"]
           x == Share(sub, "market")
           y == Share(sub, "narrative")
           z == Share(sub, "influencer")
           w == Share(sub, "macro")
<1>1. ASSUME NEW l \in Layers
      PROVE  \/ sub[l] = None /\ Share(sub, l) = 0
             \/ sub[l] \in Nat /\ low <= sub[l] /\ sub[l] <= high /\ Share(sub, l) = LAYER_WEIGHTS[l]
    <2>1. sub[l] \in 0 .. 100 \/ sub[l] = None OBVIOUS
    <2>2. CASE sub[l] = None BY <2>2 DEF Share
    <2>3. CASE sub[l] \in 0 .. 100 /\ sub[l] # None
        <3>1. l \in present(sub) BY <2>3 DEF present
        <3> QED BY <2>3, <3>1 DEF Share
    <2> QED BY <2>1, <2>2, <2>3
<1>2. /\ x \in Nat /\ x * a \in Int /\ low * x <= x * a /\ x * a <= high * x
      /\ a # None => x = 35
    <2>1. (a = None /\ x = 0) \/ (a \in Nat /\ low <= a /\ a <= high /\ x = 35)
        BY <1>1 DEF Layers, LAYER_WEIGHTS
    <2> HIDE DEF a, x
    <2> QED BY <2>1 DEF None
<1>3. /\ y \in Nat /\ y * b \in Int /\ low * y <= y * b /\ y * b <= high * y
      /\ b # None => y = 30
    <2>1. (b = None /\ y = 0) \/ (b \in Nat /\ low <= b /\ b <= high /\ y = 30)
        BY <1>1 DEF Layers, LAYER_WEIGHTS
    <2> HIDE DEF b, y
    <2> QED BY <2>1 DEF None
<1>4. /\ z \in Nat /\ z * c \in Int /\ low * z <= z * c /\ z * c <= high * z
      /\ c # None => z = 25
    <2>1. (c = None /\ z = 0) \/ (c \in Nat /\ low <= c /\ c <= high /\ z = 25)
        BY <1>1 DEF Layers, LAYER_WEIGHTS
    <2> HIDE DEF c, z
    <2> QED BY <2>1 DEF None
<1>5. /\ w \in Nat /\ w * d \in Int /\ low * w <= w * d /\ w * d <= high * w
      /\ d # None => w = 10
    <2>1. (d = None /\ w = 0) \/ (d \in Nat /\ low <= d /\ d <= high /\ w = 10)
        BY <1>1 DEF Layers, LAYER_WEIGHTS
    <2> HIDE DEF d, w
    <2> QED BY <2>1 DEF None
<1>6. a # None \/ b # None \/ c # None \/ d # None
    BY DEF present, Layers
<1>7. total_w(sub) = x + y + z + w /\ Weighed(sub) = x * a + y * b + z * c + w * d
    BY DEF total_w, Weighed
<1>8. C = IF total_w(sub) = 0 THEN [num |-> 50, den |-> 1]
          ELSE [num |-> Weighed(sub), den |-> total_w(sub)]
    BY DEF compute_composite, Of, Quotient
<1> DEFINE t == total_w(sub)
           n == Weighed(sub)
<1> HIDE DEF C, a, b, c, d, x, y, z, w, t, n
<1>9. t = x + y + z + w /\ t \in Nat \ {0} BY <1>2, <1>3, <1>4, <1>5, <1>6, <1>7 DEF t
<1>10. n \in Int /\ low * t <= n /\ n <= high * t
    <2>1. low * t = low * x + low * y + low * z + low * w BY <1>2, <1>3, <1>4, <1>5, <1>9
    <2>2. high * t = high * x + high * y + high * z + high * w BY <1>2, <1>3, <1>4, <1>5, <1>9
    <2>3. n = x * a + y * b + z * c + w * d BY <1>7 DEF n
    <2>4. /\ low * x \in Int /\ low * y \in Int /\ low * z \in Int /\ low * w \in Int
          /\ high * x \in Int /\ high * y \in Int /\ high * z \in Int /\ high * w \in Int
        BY <1>2, <1>3, <1>4, <1>5
    <2> QED BY <1>2, <1>3, <1>4, <1>5, <2>1, <2>2, <2>3, <2>4
<1>11. low * t \in Nat BY <1>9
<1>12. C = [num |-> n, den |-> t] BY <1>8, <1>9 DEF n, t
<1>13. n \in Nat BY <1>10, <1>11
<1>14. AtMost(Of(low), C) /\ AtMost(C, Of(high))
    BY <1>9, <1>10, <1>12, <1>13 DEF AtMost, Of, Quotient
<1>15. C.den \in Nat \ {0} /\ C.num \in Nat BY <1>9, <1>12, <1>13
<1> QED BY <1>14, <1>15 DEF C

\* The composite is on the scale, whatever is missing.
LEMMA CompositeOnScale ==
    ASSUME NEW sub \in [Layers -> 0 .. 100 \cup {None}]
    PROVE  /\ compute_composite(sub).den \in Nat \ {0} /\ compute_composite(sub).num \in Nat
           /\ AtMost(Of(0), compute_composite(sub)) /\ AtMost(compute_composite(sub), Of(100))
<1>1. CASE present(sub) = {}
    <2>1. \A l \in Layers : Share(sub, l) = 0 BY <1>1 DEF present, Share
    <2>2. total_w(sub) = 0 BY <2>1 DEF total_w, Layers
    <2> QED BY <2>2 DEF compute_composite, AtMost, Of, Quotient
<1>2. CASE present(sub) # {}
    <2>1. \A l \in present(sub) : 0 <= sub[l] /\ sub[l] <= 100 BY DEF present, None
    <2>2. 0 \in Nat /\ 100 \in Nat OBVIOUS
    <2> QED BY <1>2, <2>1, <2>2, CompositeBetween
<1> QED BY <1>1, <1>2

\* Among the layers that are present are a lowest and a highest.
LEMMA LowestAndHighest ==
    ASSUME NEW sub \in [Layers -> 0 .. 100 \cup {None}], present(sub) # {}
    PROVE  /\ \E l \in present(sub) : \A m \in present(sub) : sub[l] <= sub[m]
           /\ \E l \in present(sub) : \A m \in present(sub) : sub[m] <= sub[l]
<1> DEFINE S == {sub[l] : l \in present(sub)}
<1>1. S \in SUBSET (0 .. 100) /\ S # {} BY DEF present
<1>2. 100 \in Nat OBVIOUS
<1>3. (\E i \in S : \A j \in S : j <= i) /\ (\E i \in S : \A j \in S : i <= j)
    <2> HIDE DEF S
    <2> QED BY <1>1, <1>2, Extremes
<1> QED BY <1>3

\* The composite lies among the layers that are present.
LEMMA CompositeAmong ==
    ASSUME NEW sub \in [Layers -> 0 .. 100 \cup {None}], present(sub) # {}
    PROVE  /\ \E l \in present(sub) : AtMost(Of(sub[l]), compute_composite(sub))
           /\ \E l \in present(sub) : AtMost(compute_composite(sub), Of(sub[l]))
<1>1. \A l \in present(sub) : l \in Layers /\ sub[l] \in Nat BY DEF present
<1>2. PICK l \in present(sub) : \A k \in present(sub) : sub[l] <= sub[k] BY LowestAndHighest
<1>3. PICK h \in present(sub) : \A k \in present(sub) : sub[k] <= sub[h] BY LowestAndHighest
<1>4. AtMost(Of(sub[l]), compute_composite(sub)) /\ AtMost(compute_composite(sub), Of(sub[h]))
    BY <1>1, <1>2, <1>3, CompositeBetween
<1> QED BY <1>4

\* The number of layers.
LEMMA FourLayers == Cardinality(Layers) = 4
<1>1. IsFiniteSet({}) /\ Cardinality({}) = 0 BY FS_EmptySet
<1>2. IsFiniteSet({"market"}) /\ Cardinality({"market"}) = 1 BY FS_Singleton
<1>3. IsFiniteSet({"market", "narrative"}) /\ Cardinality({"market", "narrative"}) = 2
    <2>1. {"market", "narrative"} = {"market"} \cup {"narrative"} /\ "narrative" \notin {"market"} OBVIOUS
    <2> QED BY <1>2, <2>1, FS_AddElement
<1>4. IsFiniteSet({"market", "narrative", "influencer"}) /\ Cardinality({"market", "narrative", "influencer"}) = 3
    <2>1. /\ {"market", "narrative", "influencer"} = {"market", "narrative"} \cup {"influencer"}
          /\ "influencer" \notin {"market", "narrative"}
        OBVIOUS
    <2> QED BY <1>3, <2>1, FS_AddElement
<1>5. /\ Layers = {"market", "narrative", "influencer"} \cup {"macro"}
      /\ "macro" \notin {"market", "narrative", "influencer"}
    BY DEF Layers
<1> QED BY <1>4, <1>5, FS_AddElement

\* The cap on a contradicted composite only ever lowers it, and the weights of missing
\* layers are shared out without leaving the scale, for every set of sub-indices.
THEOREM CapOnlyLowers ==
    ASSUME NEW sub \in [Layers -> 0 .. 100 \cup {None}]
    PROVE  /\ AtMost(effective_composite(sub), compute_composite(sub))
           /\ AtMost(Of(0), effective_composite(sub)) /\ AtMost(effective_composite(sub), Of(100))
<1> DEFINE C == compute_composite(sub)
<1>1. /\ C.den \in Nat \ {0} /\ C.num \in Nat
      /\ AtMost(Of(0), C) /\ AtMost(C, Of(100)) /\ AtMost(C, C)
    BY CompositeOnScale, SameQuotient
<1>2. \/ effective_composite(sub) = C
      \/ effective_composite(sub) = Of(75) /\ ~AtMost(C, Of(75))
    BY DEF effective_composite
<1>3. AtMost(Of(0), Of(75)) /\ AtMost(Of(75), Of(100)) BY DEF AtMost, Of, Quotient
<1>4. ~AtMost(C, Of(75)) => AtMost(Of(75), C)
    <2> HIDE DEF C
    <2> QED BY <1>1 DEF AtMost, Of, Quotient
<1> HIDE DEF C
<1> QED BY <1>1, <1>2, <1>3, <1>4 DEF C

\* Caution is one-sided, for any sub-indices (divergence.compute_divergence,
\* composite.compute_composite and compute_exo_composite).
LEMMA CautionHolds ==
    ASSUME input.of = "composite" => input.sub \in [Layers -> 0 .. 100 \cup {None}]
    PROVE  CautionIsOneSided
<1> SUFFICES ASSUME input.of = "composite" PROVE CautionIsOneSided
    BY DEF CautionIsOneSided
<1> DEFINE sub == input.sub
           C == compute_composite(sub)
           shown == effective_composite(sub)
<1>1. sub \in [Layers -> 0 .. 100 \cup {None}] OBVIOUS
<1> HIDE DEF sub
<1>2. \A l \in present(sub) : l \in Layers /\ sub[l] \in Nat BY <1>1 DEF present
<1>3. C.den \in Nat \ {0} /\ C.num \in Nat BY <1>1, CompositeOnScale
<1>4. \/ shown = C
      \/ shown = Of(75) /\ cap_applied(sub) /\ ~AtMost(C, Of(75))
    BY DEF effective_composite
<1>5. AtMost(C, C) /\ Equal(C, C)
    <2> HIDE DEF C
    <2> QED BY <1>3, SameQuotient
<1>6. present(sub) # {} =>
         /\ \E l \in present(sub) : AtMost(Of(sub[l]), shown)
         /\ \E l \in present(sub) : AtMost(shown, Of(sub[l]))
    <2> SUFFICES ASSUME present(sub) # {}
                 PROVE  /\ \E l \in present(sub) : AtMost(Of(sub[l]), shown)
                        /\ \E l \in present(sub) : AtMost(shown, Of(sub[l]))
        OBVIOUS
    <2>1. CASE shown = C
        <3> HIDE DEF C, shown
        <3>1. /\ \E l \in present(sub) : AtMost(Of(sub[l]), C)
              /\ \E l \in present(sub) : AtMost(C, Of(sub[l]))
            BY <1>1, CompositeAmong DEF C
        <3> QED BY <2>1, <3>1
    <2>2. CASE shown = Of(75) /\ cap_applied(sub)
        <3>1. PICK h \in present(sub), l \in present(sub) : sub[h] > 85 /\ sub[l] < 30
            BY <2>2 DEF cap_applied
        <3>2. AtMost(Of(sub[l]), Of(75)) /\ AtMost(Of(75), Of(sub[h]))
            BY <1>2, <3>1 DEF AtMost, Of, Quotient
        <3> HIDE DEF shown
        <3> QED BY <2>2, <3>2
    <2> QED BY <1>4, <2>1, <2>2
<1>7. AtMost(shown, C)
    <2>1. CASE shown = C BY <1>5, <2>1
    <2>2. CASE shown = Of(75) /\ ~AtMost(C, Of(75))
        <3> HIDE DEF C, shown
        <3> QED BY <1>3, <2>2 DEF AtMost, Of, Quotient
    <2> QED BY <1>4, <2>1, <2>2
<1>8. present(sub) \ {"market"} # {} =>
         /\ \E l \in present(sub) \ {"market"} : AtMost(Of(sub[l]), compute_exo_composite(sub))
         /\ \E l \in present(sub) \ {"market"} : AtMost(compute_exo_composite(sub), Of(sub[l]))
    <2> SUFFICES ASSUME present(sub) \ {"market"} # {}
                 PROVE  /\ \E l \in present(sub) \ {"market"} : AtMost(Of(sub[l]), compute_exo_composite(sub))
                        /\ \E l \in present(sub) \ {"market"} : AtMost(compute_exo_composite(sub), Of(sub[l]))
        OBVIOUS
    <2> DEFINE exo == [sub EXCEPT !["market"] = None]
    <2>1. exo \in [Layers -> 0 .. 100 \cup {None}] BY <1>1
    <2>2. \A l \in Layers : exo[l] = IF l = "market" THEN None ELSE sub[l] BY <1>1
    <2> HIDE DEF exo
    <2>3. present(exo) = present(sub) \ {"market"} BY <2>2 DEF present
    <2>4. \A l \in present(exo) : exo[l] = sub[l] BY <2>2, <2>3 DEF present
    <2>5. ~ \A l \in EXO_LAYERS : sub[l] = None BY DEF EXO_LAYERS, present
    <2>6. compute_exo_composite(sub) = compute_composite(exo) BY <2>5 DEF compute_exo_composite, exo
    <2>7. /\ \E l \in present(exo) : AtMost(Of(exo[l]), compute_composite(exo))
          /\ \E l \in present(exo) : AtMost(compute_composite(exo), Of(exo[l]))
        BY <2>1, <2>3, CompositeAmong
    <2> QED BY <2>3, <2>4, <2>6, <2>7
<1>9. ~Equal(shown, C) => flag(sub) = "high_divergence"
    <2> SUFFICES ASSUME ~Equal(shown, C) PROVE flag(sub) = "high_divergence"
        OBVIOUS
    <2>1. cap_applied(sub) BY <1>4, <1>5
    <2>2. PICK h \in present(sub), l \in present(sub) : sub[h] > 85 /\ sub[l] < 30
        BY <2>1 DEF cap_applied
    <2>3. sub[h] - sub[l] > 40 BY <1>2, <2>2
    <2>4. Apart(sub, 40) BY <2>3 DEF Apart
    <2> QED BY <2>4 DEF flag
<1>10. compute_confidence(Cardinality(Layers), 0, TRUE, FALSE) <= 20
    <2>1. ASSUME NEW low \in BOOLEAN, low, NEW high \in BOOLEAN, ~high
          PROVE  compute_confidence(4, 0, low, high) <= 20
        BY <2>1 DEF compute_confidence, PENALTIES
    <2> QED BY <2>1, FourLayers
<1> HIDE DEF C, shown
<1> QED BY <1>6, <1>7, <1>8, <1>9, <1>10 DEF CautionIsOneSided, C, shown, sub

\* For any sub-indices, or any two scores and any division of the time between them, the
\* published composite is cautious on one side only and smoothed the same
\* (divergence.compute_divergence, ema.compute_ema).
THEOREM ScoresAreHonest ==
    ASSUME input \in   [of : {"composite"}, sub : [Layers -> 0 .. 100 \cup {None}]]
                \cup [of : {"ema"}, raw : [num : Nat, den : Nat \ {0}],
                      prev : [num : Nat, den : Nat \ {0}] \cup {Of(None)}, j : Nat, k : Nat]
    PROVE  ScoreIsHonest
<1>1. CautionIsOneSided BY CautionHolds
<1>2. EmaIsCadenceFree
    <2> SUFFICES ASSUME input.of = "ema" PROVE EmaIsCadenceFree
        BY DEF EmaIsCadenceFree
    <2>1. /\ input.raw \in [num : Nat, den : Nat \ {0}]
          /\ input.prev \in [num : Nat, den : Nat \ {0}] \cup {Of(None)}
          /\ input.j \in Nat /\ input.k \in Nat
        OBVIOUS
    <2>2. \A p \in [num : Nat, den : Nat \ {0}] : IsScore(p) BY DEF IsScore
    <2>3. IsScore(input.raw) /\ (IsScore(input.prev) \/ input.prev = Of(None)) BY <2>1, <2>2
    <2> QED BY <2>1, <2>3, CadenceFree DEF EmaIsCadenceFree
<1> QED BY <1>1, <1>2 DEF ScoreIsHonest

---------------------------------------------------------------------------
(* What the market layer is made of: RSI, returns, spread and order flow.  *)

Market == INSTANCE MarketFormulas

\* The weights of the averages are the powers of the period.
LEMMA WeightsMultiply ==
    ASSUME NEW period \in Nat \ {0}
    PROVE  /\ Market!Weights(period)[0] = 1
           /\ \A n \in Nat : Market!Weights(period)[n + 1] = period * Market!Weights(period)[n]
           /\ \A n \in Nat : Market!Weights(period)[n] \in Nat \ {0}
<1> DEFINE w == Market!Weights(period)
           Def(g) == [k \in Nat |-> IF k = 0 THEN 1 ELSE period * g[k - 1]]
<1>1. w = CHOOSE g : g = Def(g) BY DEF Market!Weights
<1>2. \E g : g = Def(g)
    <2> DEFINE step == [p \in Nat \X Int |-> period * p[2]]
    <2>1. step \in [Nat \X Int -> Int] OBVIOUS
    <2>2. PICK f \in [Nat -> Int] : f[0] = 1 /\ \A n \in Nat : f[n + 1] = step[<<n, f[n]>>]
        <3> DEFINE V == Int
                   v0 == 1
        <3>1. v0 \in V /\ step \in [Nat \X V -> V] BY <2>1
        <3> HIDE DEF step, V, v0
        <3>2. \E f \in [Nat -> V] : Follows(f, v0, step) BY <3>1, RecursionOnNat
        <3> QED BY <3>2 DEF V, v0, Follows
    <2>3. ASSUME NEW k \in Nat PROVE f[k] = IF k = 0 THEN 1 ELSE period * f[k - 1]
        <3>1. CASE k = 0 BY <2>2, <3>1
        <3>2. CASE k # 0
            <4>1. k - 1 \in Nat /\ (k - 1) + 1 = k BY <3>2
            <4>2. f[(k - 1) + 1] = step[<<k - 1, f[k - 1]>>] BY <2>2, <4>1
            <4> QED BY <3>2, <4>1, <4>2
        <3> QED BY <3>1, <3>2
    <2>4. f = Def(f) BY <2>3
    <2> QED BY <2>4
<1>3. w = Def(w)
    <2> HIDE DEF Def, w
    <2> QED BY <1>1, <1>2
<1> HIDE DEF w
<1>4. w[0] = 1 BY <1>3
<1>5. ASSUME NEW n \in Nat PROVE w[n + 1] = period * w[n]
    <2>1. n + 1 \in Nat /\ n + 1 # 0 /\ (n + 1) - 1 = n OBVIOUS
    <2>2. w = [k \in Nat |-> IF k = 0 THEN 1 ELSE period * w[k - 1]] BY <1>3
    <2> QED BY <2>1, <2>2
<1>6. \A n \in Nat : w[n] \in Nat \ {0}
    <2> DEFINE S == {n \in Nat : w[n] \in Nat \ {0}}
    <2>1. S \in SUBSET Nat /\ 0 \in S BY <1>4
    <2>2. ASSUME NEW n \in S PROVE n + 1 \in S
        <3>1. n \in Nat /\ w[n] \in Nat \ {0} /\ n + 1 \in Nat OBVIOUS
        <3>2. w[n + 1] = period * w[n] BY <1>5, <3>1
        <3> DEFINE v == w[n]
        <3>3. period * v \in Nat \ {0}
            <4> HIDE DEF v
            <4>1. v \in Nat \ {0} BY <3>1 DEF v
            <4> QED BY <4>1
        <3> QED BY <3>1, <3>2, <3>3
    <2> HIDE DEF S
    <2>3. \A n \in Nat : n \in S BY <2>1, <2>2, InductionOnNat
    <2> QED BY <2>3 DEF S
<1> QED BY <1>4, <1>5, <1>6 DEF w

\* The changes over n + 1 closes.
ChangesOf(n) == {c \in [1 .. n -> Int] : Len(c) = n}

\* What the average moves to with the m-th change.
NextAverage(a, c, period, sign, m) ==
    IF m <= period THEN a + Market!Pos(sign * c[m])
    ELSE a * (period - 1) + Market!Pos(sign * c[m]) * Market!Weights(period)[m - period]

\* One more change.
LEMMA AverageMoves ==
    ASSUME NEW n \in Nat, NEW c \in ChangesOf(n), NEW period \in Nat \ {0}, NEW sign \in {-1, 1},
           NEW a \in Nat, NEW m \in 1 .. n
    PROVE  NextAverage(a, c, period, sign, m) \in Nat
<1>1. Market!Pos(sign * c[m]) \in Nat BY DEF ChangesOf, Market!Pos
<1>2. CASE m <= period BY <1>1, <1>2 DEF NextAverage
<1>3. CASE ~(m <= period)
    <2>1. m - period \in Nat BY <1>3
    <2> DEFINE w == Market!Weights(period)[m - period]
               p == Market!Pos(sign * c[m])
    <2>2. w \in Nat \ {0} BY <2>1, WeightsMultiply
    <2>3. a * (period - 1) + p * w \in Nat
        <3> HIDE DEF w, p
        <3>1. p \in Nat BY <1>1 DEF p
        <3>2. period - 1 \in Nat OBVIOUS
        <3>3. a * (period - 1) \in Nat BY <3>2
        <3>4. p * w \in Nat BY <2>2, <3>1
        <3> QED BY <3>3, <3>4
    <2> QED BY <1>3, <2>3 DEF NextAverage
<1> QED BY <1>2, <1>3

\* The averages begin at 0 and move with every change.
LEMMA AveragesMove ==
    ASSUME NEW n \in Nat, NEW c \in ChangesOf(n), NEW period \in Nat \ {0}, NEW sign \in {-1, 1}
    PROVE  /\ Market!Averages(c, period, sign)[0] = 0
           /\ \A m \in 1 .. n : Market!Averages(c, period, sign)[m]
                  = NextAverage(Market!Averages(c, period, sign)[m - 1], c, period, sign, m)
           /\ \A m \in 0 .. n : Market!Averages(c, period, sign)[m] \in Nat
<1> DEFINE avg == Market!Averages(c, period, sign)
           Def(g) == [m \in 0 .. Len(c) |->
                         IF m = 0 THEN 0
                         ELSE IF m <= period THEN g[m - 1] + Market!Pos(sign * c[m])
                         ELSE g[m - 1] * (period - 1) + Market!Pos(sign * c[m]) * Market!Weights(period)[m - period]]
           Moves(g) == [m \in 0 .. n |-> IF m = 0 THEN 0 ELSE NextAverage(g[m - 1], c, period, sign, m)]
<1>1. avg = CHOOSE g : g = Def(g) BY DEF Market!Averages
<1>2. ASSUME NEW g PROVE Def(g) = Moves(g) BY DEF ChangesOf, NextAverage
<1>3. \E g : g = Def(g)
    <2> DEFINE step == [p \in Nat \X Nat |-> IF p[1] < n THEN NextAverage(p[2], c, period, sign, p[1] + 1) ELSE 0]
    <2>1. step \in [Nat \X Nat -> Nat]
        <3>1. ASSUME NEW p \in Nat \X Nat PROVE step[p] \in Nat
            <4>1. p[1] \in Nat /\ p[2] \in Nat OBVIOUS
            <4>2. CASE p[1] < n
                <5>1. p[1] + 1 \in 1 .. n BY <4>1, <4>2
                <5> QED BY <4>1, <4>2, <5>1, AverageMoves
            <4>3. CASE ~(p[1] < n) BY <4>3
            <4> QED BY <4>2, <4>3
        <3> QED BY <3>1
    <2>2. PICK f \in [Nat -> Nat] : f[0] = 0 /\ \A k \in Nat : f[k + 1] = step[<<k, f[k]>>]
        <3> DEFINE V == Nat
                   v0 == 0
        <3>1. v0 \in V /\ step \in [Nat \X V -> V] BY <2>1
        <3> HIDE DEF step, V, v0
        <3>2. \E f \in [Nat -> V] : Follows(f, v0, step) BY <3>1, RecursionOnNat
        <3> QED BY <3>2 DEF V, v0, Follows
    <2> DEFINE g == [m \in 0 .. n |-> f[m]]
    <2>3. ASSUME NEW m \in 0 .. n
          PROVE  g[m] = IF m = 0 THEN 0 ELSE NextAverage(g[m - 1], c, period, sign, m)
        <3>1. CASE m = 0 BY <2>2, <3>1
        <3>2. CASE m # 0
            <4>1. m - 1 \in 0 .. n /\ m - 1 \in Nat /\ (m - 1) + 1 = m /\ m - 1 < n BY <3>2
            <4>2. f[(m - 1) + 1] = step[<<m - 1, f[m - 1]>>] BY <2>2, <4>1
            <4>3. step[<<m - 1, f[m - 1]>>] = NextAverage(f[m - 1], c, period, sign, m) BY <4>1
            <4> HIDE DEF step
            <4> QED BY <3>2, <4>1, <4>2, <4>3
        <3> QED BY <3>1, <3>2
    <2>4. g = Moves(g) BY <2>3
    <2> HIDE DEF g, Def, Moves
    <2>5. g = Def(g) BY <1>2, <2>4
    <2> QED BY <2>5
<1>4. avg = Def(avg)
    <2> HIDE DEF Def, avg
    <2> QED BY <1>1, <1>3
<1>5. avg = Moves(avg)
    <2> HIDE DEF Def, Moves, avg
    <2> QED BY <1>2, <1>4
<1> HIDE DEF avg
<1>6. avg[0] = 0 BY <1>5
<1>7. \A m \in 1 .. n : avg[m] = NextAverage(avg[m - 1], c, period, sign, m)
    <2> TAKE m \in 1 .. n
    <2>1. m \in 0 .. n /\ m # 0 OBVIOUS
    <2> QED BY <1>5, <2>1
<1>8. \A m \in 0 .. n : avg[m] \in Nat
    <2> DEFINE S == {m \in Nat : m <= n => avg[m] \in Nat}
    <2>1. S \in SUBSET Nat /\ 0 \in S BY <1>6
    <2>2. ASSUME NEW m \in S PROVE m + 1 \in S
        <3>1. CASE m + 1 <= n
            <4>1. m \in Nat /\ m + 1 \in 1 .. n /\ (m + 1) - 1 = m /\ avg[m] \in Nat BY <3>1
            <4>2. avg[m + 1] = NextAverage(avg[m], c, period, sign, m + 1) BY <1>7, <4>1
            <4>3. NextAverage(avg[m], c, period, sign, m + 1) \in Nat BY <4>1, AverageMoves
            <4> QED BY <4>1, <4>2, <4>3
        <3>2. CASE ~(m + 1 <= n) BY <3>2
        <3> QED BY <3>1, <3>2
    <2> HIDE DEF S
    <2>3. \A m \in Nat : m \in S BY <2>1, <2>2, InductionOnNat
    <2> QED BY <2>3 DEF S
<1> QED BY <1>6, <1>7, <1>8 DEF avg

\* Up to the k-th the changes c count with sign s as the changes d with sign t.
CountAlike(c, s, d, t, k) == \A i \in 1 .. k : Market!Pos(s * c[i]) = Market!Pos(t * d[i])

\* The averages depend on the gains, or losses, so far and on nothing else.
LEMMA SameAverages ==
    ASSUME NEW n \in Nat, NEW period \in Nat \ {0},
           NEW c \in ChangesOf(n), NEW s \in {-1, 1},
           NEW d \in ChangesOf(n), NEW t \in {-1, 1},
           NEW k \in 0 .. n, CountAlike(c, s, d, t, k)
    PROVE  Market!Averages(c, period, s)[k] = Market!Averages(d, period, t)[k]
<1> DEFINE u == Market!Averages(c, period, s)
           v == Market!Averages(d, period, t)
           S == {m \in Nat : m <= k => u[m] = v[m]}
<1>0. /\ u[0] = 0 /\ \A m \in 1 .. n : u[m] = NextAverage(u[m - 1], c, period, s, m)
      /\ v[0] = 0 /\ \A m \in 1 .. n : v[m] = NextAverage(v[m - 1], d, period, t, m)
    BY AveragesMove
<1> HIDE DEF u, v
<1>1. S \in SUBSET Nat /\ 0 \in S BY <1>0
<1>2. ASSUME NEW m \in S PROVE m + 1 \in S
    <2>1. CASE m + 1 <= k
        <3>1. m \in Nat /\ m + 1 \in 1 .. n /\ m + 1 \in 1 .. k /\ (m + 1) - 1 = m /\ u[m] = v[m] BY <2>1
        <3>2. u[m + 1] = NextAverage(u[(m + 1) - 1], c, period, s, m + 1) BY <1>0, <3>1
        <3>3. v[m + 1] = NextAverage(v[(m + 1) - 1], d, period, t, m + 1) BY <1>0, <3>1
        <3>4. Market!Pos(s * c[m + 1]) = Market!Pos(t * d[m + 1]) BY <3>1 DEF CountAlike
        <3>5. NextAverage(u[m], c, period, s, m + 1) = NextAverage(v[m], d, period, t, m + 1)
            BY <3>1, <3>4 DEF NextAverage
        <3> QED BY <3>1, <3>2, <3>3, <3>5
    <2>2. CASE ~(m + 1 <= k) BY <2>2
    <2> QED BY <2>1, <2>2
<1> HIDE DEF S
<1>3. \A m \in Nat : m \in S BY <1>1, <1>2, InductionOnNat
<1> QED BY <1>3 DEF S, u, v

\* Over a price that has moved, gains and losses are not both nothing.
LEMMA MovesCount ==
    ASSUME NEW n \in Nat, NEW c \in ChangesOf(n), NEW period \in Nat, NEW j \in 1 .. n,
           period >= 2, c[j] # 0
    PROVE  Market!Averages(c, period, 1)[n] + Market!Averages(c, period, -1)[n] > 0
<1> DEFINE u == Market!Averages(c, period, 1)
           v == Market!Averages(c, period, -1)
           S == {m \in Nat : m \in j .. n => u[m] + v[m] > 0}
<1>1. period \in Nat \ {0} /\ 1 \in {-1, 1} /\ -1 \in {-1, 1} OBVIOUS
<1>2. ASSUME NEW m \in 0 .. n PROVE u[m] \in Nat /\ v[m] \in Nat BY <1>1, AveragesMove
<1>3. ASSUME NEW m \in 1 .. n
      PROVE  u[m] = NextAverage(u[m - 1], c, period, 1, m) /\ v[m] = NextAverage(v[m - 1], c, period, -1, m)
    BY <1>1, AveragesMove
<1> HIDE DEF u, v
<1>4. S \in SUBSET Nat /\ 0 \in S OBVIOUS
<1>5. ASSUME NEW m \in S PROVE m + 1 \in S
    <2>1. CASE m + 1 \in j .. n
        <3> DEFINE a == u[m]
                   b == v[m]
                   p == Market!Pos(1 * c[m + 1])
                   q == Market!Pos((-1) * c[m + 1])
                   w == Market!Weights(period)[m + 1 - period]
        <3>1. m \in 0 .. n /\ m + 1 \in 1 .. n /\ (m + 1) - 1 = m BY <2>1
        <3>2. a \in Nat /\ b \in Nat BY <1>2, <3>1
        <3>3. c[m + 1] \in Int BY <3>1 DEF ChangesOf
        <3>4. p \in Nat /\ q \in Nat /\ (c[m + 1] # 0 => p + q > 0) BY <3>3 DEF Market!Pos
        <3>5. a + b > 0 \/ p + q > 0
            <4>1. CASE m + 1 = j BY <3>4, <4>1
            <4>2. CASE m + 1 # j
                <5>1. m \in j .. n BY <2>1, <4>2
                <5> QED BY <5>1
            <4> QED BY <4>1, <4>2
        <3>8. u[m + 1] = NextAverage(a, c, period, 1, m + 1) /\ v[m + 1] = NextAverage(b, c, period, -1, m + 1)
            <4>1. /\ u[m + 1] = NextAverage(u[(m + 1) - 1], c, period, 1, m + 1)
                  /\ v[m + 1] = NextAverage(v[(m + 1) - 1], c, period, -1, m + 1) BY <1>3, <3>1
            <4> QED BY <3>1, <4>1
        <3>6. CASE m + 1 <= period
            <4>1. u[m + 1] = a + p /\ v[m + 1] = b + q BY <3>6, <3>8 DEF NextAverage
            <4> HIDE DEF a, b, p, q
            <4>2. (a + p) + (b + q) > 0 BY <3>2, <3>4, <3>5
            <4> QED BY <3>1, <4>1, <4>2
        <3>7. CASE ~(m + 1 <= period)
            <4>1. u[m + 1] = a * (period - 1) + p * w /\ v[m + 1] = b * (period - 1) + q * w
                BY <3>7, <3>8 DEF NextAverage
            <4>2. m + 1 - period \in Nat BY <3>1, <3>7
            <4>3. w \in Nat \ {0} BY <1>1, <4>2, WeightsMultiply
            <4> DEFINE r == period - 1
            <4>4. r \in Nat /\ r > 0 OBVIOUS
            <4> HIDE DEF a, b, p, q, w, r
            <4>5. (a * r + p * w) + (b * r + q * w) > 0
                <5>1. a * r \in Nat /\ b * r \in Nat /\ p * w \in Nat /\ q * w \in Nat BY <3>2, <3>4, <4>3, <4>4
                <5>2. (a > 0 => a * r > 0) /\ (b > 0 => b * r > 0) BY <3>2, <4>4
                <5>3. (p > 0 => p * w > 0) /\ (q > 0 => q * w > 0) BY <3>4, <4>3
                <5>4. a > 0 \/ b > 0 \/ p > 0 \/ q > 0 BY <3>2, <3>4, <3>5
                <5> QED BY <5>1, <5>2, <5>3, <5>4
            <4> QED BY <3>1, <4>1, <4>5 DEF r
        <3> QED BY <3>6, <3>7
    <2>2. CASE ~(m + 1 \in j .. n) BY <2>2
    <2> QED BY <2>1, <2>2
<1> HIDE DEF S
<1>6. \A m \in Nat : m \in S BY <1>4, <1>5, InductionOnNat
<1> QED BY <1>6 DEF S, u, v

\* A greater last change brings no smaller average gain and no greater average loss.
LEMMA RiseRaises ==
    ASSUME NEW n \in Nat \ {0}, NEW period \in Nat \ {0},
           NEW c \in ChangesOf(n), NEW d \in ChangesOf(n),
           \A i \in 1 .. n - 1 : d[i] = c[i], d[n] >= c[n]
    PROVE  /\ Market!Averages(c, period, 1)[n] <= Market!Averages(d, period, 1)[n]
           /\ Market!Averages(d, period, -1)[n] <= Market!Averages(c, period, -1)[n]
<1>0. n - 1 \in 0 .. n /\ n \in 1 .. n /\ n \in Nat OBVIOUS
<1>1. ASSUME NEW e \in ChangesOf(n), NEW f \in ChangesOf(n), NEW s \in {-1, 1},
             \A i \in 1 .. n - 1 : f[i] = e[i], Market!Pos(s * e[n]) <= Market!Pos(s * f[n])
      PROVE  Market!Averages(e, period, s)[n] <= Market!Averages(f, period, s)[n]
    <2> DEFINE a == Market!Averages(e, period, s)[n - 1]
               p == Market!Pos(s * e[n])
               q == Market!Pos(s * f[n])
               w == Market!Weights(period)[n - period]
    <2>1. Market!Averages(f, period, s)[n - 1] = a
        <3>1. \A i \in 1 .. n - 1 : Market!Pos(s * e[i]) = Market!Pos(s * f[i]) BY <1>1
        <3> DEFINE k == n - 1
        <3>2. k \in 0 .. n /\ CountAlike(e, s, f, s, k) BY <1>0, <3>1 DEF CountAlike
        <3> HIDE DEF k
        <3>3. Market!Averages(e, period, s)[k] = Market!Averages(f, period, s)[k]
            BY <1>0, <1>1, <3>2, SameAverages
        <3> QED BY <3>3 DEF k
    <2>2. Market!Averages(e, period, s)[n] = NextAverage(a, e, period, s, n) BY <1>0, <1>1, AveragesMove
    <2>3. Market!Averages(f, period, s)[n] = NextAverage(a, f, period, s, n)
        <3>1. Market!Averages(f, period, s)[n] = NextAverage(Market!Averages(f, period, s)[n - 1], f, period, s, n)
            BY <1>0, <1>1, AveragesMove
        <3> HIDE DEF a
        <3> QED BY <2>1, <3>1
    <2>4. a \in Nat BY <1>0, <1>1, AveragesMove
    <2>5. p \in Nat /\ q \in Nat /\ p <= q
        <3>1. e[n] \in Int /\ f[n] \in Int BY <1>0 DEF ChangesOf
        <3> QED BY <1>1, <3>1 DEF Market!Pos
    <2>6. CASE n <= period
        <3>1. NextAverage(a, e, period, s, n) = a + p /\ NextAverage(a, f, period, s, n) = a + q
            BY <2>6 DEF NextAverage
        <3> HIDE DEF a, p, q
        <3>2. a + p <= a + q BY <2>4, <2>5
        <3> QED BY <2>2, <2>3, <3>1, <3>2
    <2>7. CASE ~(n <= period)
        <3>1. /\ NextAverage(a, e, period, s, n) = a * (period - 1) + p * w
              /\ NextAverage(a, f, period, s, n) = a * (period - 1) + q * w BY <2>7 DEF NextAverage
        <3>2. n - period \in Nat BY <2>7
        <3>3. w \in Nat \ {0} BY <3>2, WeightsMultiply
        <3> HIDE DEF a, p, q, w
        <3>4. p * w <= q * w BY <2>5, <3>3
        <3>5. a * (period - 1) \in Int /\ p * w \in Int /\ q * w \in Int BY <2>4, <2>5, <3>3
        <3>6. a * (period - 1) + p * w <= a * (period - 1) + q * w BY <3>4, <3>5
        <3> QED BY <2>2, <2>3, <3>1, <3>6
    <2> QED BY <2>6, <2>7
<1>2. c[n] \in Int /\ d[n] \in Int BY <1>0 DEF ChangesOf
<1>3. Market!Pos(1 * c[n]) <= Market!Pos(1 * d[n]) BY <1>2 DEF Market!Pos
<1>4. Market!Pos((-1) * d[n]) <= Market!Pos((-1) * c[n]) BY <1>2 DEF Market!Pos
<1>5. \A i \in 1 .. n - 1 : c[i] = d[i] OBVIOUS
<1>6. 1 \in {-1, 1} /\ -1 \in {-1, 1} OBVIOUS
<1>7. Market!Averages(c, period, 1)[n] <= Market!Averages(d, period, 1)[n] BY <1>1, <1>3, <1>6
<1>8. Market!Averages(d, period, -1)[n] <= Market!Averages(c, period, -1)[n] BY <1>1, <1>4, <1>5, <1>6
<1> QED BY <1>7, <1>8

\* The RSI of an average gain and loss.
RsiOf(g, l) == IF l = 0 THEN Market!Ratio(100, 1) ELSE Market!Ratio(100 * g, g + l)

\* It is a number from 0 to 100.
LEMMA RsiOnScale ==
    ASSUME NEW g \in Nat, NEW l \in Nat
    PROVE  /\ RsiOf(g, l) # Market!NoRatio
           /\ Market!LessEq(Market!Ratio(0, 1), RsiOf(g, l))
           /\ Market!LessEq(RsiOf(g, l), Market!Ratio(100, 1))
    BY DEF RsiOf, Market!NoRatio, Market!Ratio, Market!None, Market!LessEq

\* A greater gain or a smaller loss does not lower it.
LEMMA RsiRises ==
    ASSUME NEW g \in Nat, NEW l \in Nat, NEW h \in Nat, NEW k \in Nat, g <= h, k <= l
    PROVE  Market!LessEq(RsiOf(g, l), RsiOf(h, k))
<1>1. CASE k = 0
    <2>1. RsiOf(h, k) = Market!Ratio(100, 1) BY <1>1 DEF RsiOf
    <2> QED BY <2>1, RsiOnScale
<1>2. CASE k # 0
    <2>1. l # 0 BY <1>2
    <2>2. RsiOf(g, l) = Market!Ratio(100 * g, g + l) /\ RsiOf(h, k) = Market!Ratio(100 * h, h + k)
        BY <1>2, <2>1 DEF RsiOf
    <2>3. (100 * g) * (h + k) <= (100 * h) * (g + l)
        <3>1. g * k <= h * k BY <1>2
        <3>2. h * k <= h * l OBVIOUS
        <3>3. g * h = h * g /\ g * k \in Int /\ h * l \in Int /\ g * h \in Int OBVIOUS
        <3>4. (100 * g) * (h + k) = 100 * (g * h) + 100 * (g * k) OBVIOUS
        <3>5. (100 * h) * (g + l) = 100 * (h * g) + 100 * (h * l) OBVIOUS
        <3> QED BY <3>1, <3>2, <3>3, <3>4, <3>5
    <2> QED BY <2>2, <2>3 DEF Market!LessEq, Market!Ratio
<1> QED BY <1>1, <1>2

\* Gain and loss exchanged give its complement.
LEMMA RsiComplement ==
    ASSUME NEW g \in Nat, NEW l \in Nat, g + l > 0
    PROVE  RsiOf(g, l).num * RsiOf(l, g).den + RsiOf(l, g).num * RsiOf(g, l).den
               = 100 * RsiOf(g, l).den * RsiOf(l, g).den
<1>1. CASE l = 0 BY <1>1 DEF RsiOf, Market!Ratio
<1>2. CASE g = 0 BY <1>2 DEF RsiOf, Market!Ratio
<1>3. CASE g # 0 /\ l # 0
    <2>1. /\ RsiOf(g, l).num = 100 * g /\ RsiOf(g, l).den = g + l
          /\ RsiOf(l, g).num = 100 * l /\ RsiOf(l, g).den = l + g BY <1>3 DEF RsiOf, Market!Ratio
    <2>2. (100 * g) * (l + g) + (100 * l) * (g + l) = 100 * (g + l) * (l + g) OBVIOUS
    <2> QED BY <2>1, <2>2
<1> QED BY <1>1, <1>2, <1>3

\* A function on 1 .. n is a sequence of length n.
LEMMA LengthOf ==
    ASSUME NEW n \in Nat, NEW f \in [1 .. n -> Int]
    PROVE  f \in Seq(Int) /\ Len(f) = n
OBVIOUS

\* The changes of n + 1 closes.
LEMMA ChangesTyped ==
    ASSUME NEW n \in Nat, NEW closes \in [1 .. n + 1 -> Int]
    PROVE  /\ Market!Changes(closes) \in ChangesOf(n) /\ Len(closes) = n + 1
           /\ \A i \in 1 .. n : Market!Changes(closes)[i] = closes[i + 1] - closes[i]
<1>1. n + 1 \in Nat OBVIOUS
<1>2. Len(closes) = n + 1 BY <1>1, LengthOf
<1>3. Market!Changes(closes) = [i \in 1 .. n |-> closes[i + 1] - closes[i]] BY <1>2 DEF Market!Changes
<1>4. Market!Changes(closes) \in [1 .. n -> Int] BY <1>3
<1> HIDE DEF Market!Changes
<1>5. Len(Market!Changes(closes)) = n BY <1>4, LengthOf
<1> QED BY <1>2, <1>3, <1>4, <1>5 DEF ChangesOf

\* The RSI of enough closes is that of the averages over their changes.
LEMMA RsiOfChanges ==
    ASSUME NEW n \in Nat, NEW closes \in [1 .. n + 1 -> Int], NEW period \in Nat \ {0}, n >= period
    PROVE  /\ Market!Averages(Market!Changes(closes), period, 1)[n] \in Nat
           /\ Market!Averages(Market!Changes(closes), period, -1)[n] \in Nat
           /\ Market!_compute_rsi(closes, period)
                  = RsiOf(Market!Averages(Market!Changes(closes), period, 1)[n],
                          Market!Averages(Market!Changes(closes), period, -1)[n])
<1> DEFINE c == Market!Changes(closes)
<1>1. c \in ChangesOf(n) /\ Len(closes) = n + 1 /\ Len(c) = n BY ChangesTyped DEF ChangesOf
<1>2. 1 \in {-1, 1} /\ -1 \in {-1, 1} /\ n \in 0 .. n OBVIOUS
<1>3. ~(Len(closes) < period + 1) BY <1>1
<1>4. Market!Wilder(c, period, 1) = Market!Averages(c, period, 1)[n] BY <1>1 DEF Market!Wilder
<1>5. Market!Wilder(c, period, -1) = Market!Averages(c, period, -1)[n] BY <1>1 DEF Market!Wilder
<1>6. Market!_compute_rsi(closes, period) = RsiOf(Market!Wilder(c, period, 1), Market!Wilder(c, period, -1))
    BY <1>3 DEF Market!_compute_rsi, RsiOf
<1> HIDE DEF c
<1>7. Market!Averages(c, period, 1)[n] \in Nat /\ Market!Averages(c, period, -1)[n] \in Nat
    BY <1>1, <1>2, AveragesMove
<1> QED BY <1>4, <1>5, <1>6, <1>7 DEF c

\* The RSI of any closes: the raised close changes the last change only, and the mirror
\* image exchanges gains and losses.
LEMMA RsiSound ==
    ASSUME NEW closes \in Seq(Int), NEW period \in Nat, NEW top \in Int, period >= 2
    PROVE  Market!RsiIsSound(closes, period, top)
<1> DEFINE rsi == Market!_compute_rsi(closes, period)
           high == [closes EXCEPT ![Len(closes)] = @ + 1]
           flip == [i \in DOMAIN closes |-> top - closes[i]]
           higher == Market!_compute_rsi(high, period)
           mirror == Market!_compute_rsi(flip, period)
           moved == \E i, j \in DOMAIN closes : closes[i] # closes[j]
<1>1. CASE Len(closes) < period + 1
    <2>1. rsi = Market!NoRatio BY <1>1 DEF Market!_compute_rsi
    <2> HIDE DEF rsi
    <2> QED BY <1>1, <2>1 DEF Market!RsiIsSound, rsi
<1>2. CASE ~(Len(closes) < period + 1)
    <2> DEFINE n == Len(closes) - 1
    <2>1. Len(closes) \in Nat /\ closes \in [1 .. Len(closes) -> Int] /\ DOMAIN closes = 1 .. Len(closes) OBVIOUS
    <2>2. n \in Nat \ {0} /\ n >= period /\ n + 1 = Len(closes) /\ period \in Nat \ {0} BY <1>2, <2>1
    <2>3. closes \in [1 .. n + 1 -> Int] /\ high \in [1 .. n + 1 -> Int] /\ flip \in [1 .. n + 1 -> Int] BY <2>1, <2>2
    <2>4. ASSUME NEW i \in 1 .. n PROVE high[i] = closes[i]
        <3> HIDE DEF n
        <3>1. i \in 1 .. n + 1 /\ i # n + 1 BY <2>2
        <3>2. i \in DOMAIN closes /\ i # Len(closes) BY <2>1, <2>2, <3>1
        <3> QED BY <3>2
    <2>5. high[n + 1] = closes[n + 1] + 1 BY <2>1, <2>2
    <2>6. \A i \in 1 .. n + 1 : flip[i] = top - closes[i] BY <2>1, <2>2
    <2>7. DOMAIN closes = 1 .. n + 1 BY <2>1, <2>2
    <2> HIDE DEF high, flip, n
    <2> DEFINE c == Market!Changes(closes)
               d == Market!Changes(high)
               e == Market!Changes(flip)
               g == Market!Averages(c, period, 1)[n]
               l == Market!Averages(c, period, -1)[n]
    <2>8. /\ c \in ChangesOf(n) /\ \A i \in 1 .. n : c[i] = closes[i + 1] - closes[i]
          /\ d \in ChangesOf(n) /\ \A i \in 1 .. n : d[i] = high[i + 1] - high[i]
          /\ e \in ChangesOf(n) /\ \A i \in 1 .. n : e[i] = flip[i + 1] - flip[i]
        BY <2>2, <2>3, ChangesTyped
    <2>9. g \in Nat /\ l \in Nat /\ rsi = RsiOf(g, l) BY <2>2, <2>3, RsiOfChanges
    <2>10. /\ Market!Averages(d, period, 1)[n] \in Nat /\ Market!Averages(d, period, -1)[n] \in Nat
           /\ higher = RsiOf(Market!Averages(d, period, 1)[n], Market!Averages(d, period, -1)[n])
        BY <2>2, <2>3, RsiOfChanges
    <2>11. mirror = RsiOf(Market!Averages(e, period, 1)[n], Market!Averages(e, period, -1)[n])
        BY <2>2, <2>3, RsiOfChanges
    <2> HIDE DEF c, d, e, rsi, higher, mirror
    <2>12. Market!LessEq(rsi, higher)
        <3>1. \A i \in 1 .. n - 1 : d[i] = c[i]
            <4>1. ASSUME NEW i \in 1 .. n - 1 PROVE d[i] = c[i]
                <5>1. i \in 1 .. n /\ i + 1 \in 1 .. n BY <2>2
                <5>2. d[i] = high[i + 1] - high[i] /\ c[i] = closes[i + 1] - closes[i] BY <2>8, <5>1
                <5>3. high[i + 1] = closes[i + 1] /\ high[i] = closes[i] BY <2>4, <5>1
                <5> QED BY <5>2, <5>3
            <4> QED BY <4>1
        <3>2. d[n] >= c[n]
            <4>1. n \in 1 .. n /\ n + 1 \in 1 .. n + 1 /\ n \in 1 .. n + 1 BY <2>2
            <4>2. d[n] = high[n + 1] - high[n] /\ c[n] = closes[n + 1] - closes[n] BY <2>8, <4>1
            <4>3. high[n] = closes[n] BY <2>4, <4>1
            <4>4. closes[n] \in Int /\ closes[n + 1] \in Int BY <2>3, <4>1
            <4> QED BY <2>5, <4>2, <4>3, <4>4
        <3>3. /\ g <= Market!Averages(d, period, 1)[n]
              /\ Market!Averages(d, period, -1)[n] <= l
            BY <2>2, <2>8, <3>1, <3>2, RiseRaises
        <3> HIDE DEF g, l
        <3> QED BY <2>9, <2>10, <3>3, RsiRises
    <2>13. Market!Averages(e, period, 1)[n] = l /\ Market!Averages(e, period, -1)[n] = g
        <3>1. CountAlike(e, 1, c, -1, n) /\ CountAlike(e, -1, c, 1, n)
            <4>1. ASSUME NEW i \in 1 .. n PROVE e[i] = 0 - c[i] /\ c[i] \in Int
                <5>1. i + 1 \in 1 .. n + 1 /\ i \in 1 .. n + 1 BY <2>2
                <5>2. e[i] = (top - closes[i + 1]) - (top - closes[i]) BY <2>6, <2>8, <5>1
                <5>3. c[i] = closes[i + 1] - closes[i] BY <2>8
                <5>4. closes[i] \in Int /\ closes[i + 1] \in Int BY <2>3, <5>1
                <5> QED BY <5>2, <5>3, <5>4
            <4>2. ASSUME NEW i \in 1 .. n
                  PROVE  /\ Market!Pos(1 * e[i]) = Market!Pos((-1) * c[i])
                         /\ Market!Pos((-1) * e[i]) = Market!Pos(1 * c[i])
                <5>1. 1 * e[i] = (-1) * c[i] /\ (-1) * e[i] = 1 * c[i] BY <4>1
                <5> QED BY <5>1
            <4> QED BY <4>2 DEF CountAlike
        <3>2. 1 \in {-1, 1} /\ -1 \in {-1, 1} /\ n \in 0 .. n /\ n \in Nat BY <2>2
        <3>3. Market!Averages(e, period, 1)[n] = Market!Averages(c, period, -1)[n]
            BY <2>2, <2>8, <3>1, <3>2, SameAverages
        <3>4. Market!Averages(e, period, -1)[n] = Market!Averages(c, period, 1)[n]
            BY <2>2, <2>8, <3>1, <3>2, SameAverages
        <3> QED BY <3>3, <3>4
    <2>14. ASSUME moved PROVE g + l > 0
        <3>1. PICK k \in 1 .. n : c[k] # 0
            <4>1. SUFFICES ASSUME \A k \in 1 .. n : c[k] = 0 PROVE FALSE OBVIOUS
            <4> DEFINE S == {m \in Nat : m <= n => closes[m + 1] = closes[1]}
            <4>2. S \in SUBSET Nat /\ 0 \in S OBVIOUS
            <4>3. ASSUME NEW m \in S PROVE m + 1 \in S
                <5>1. CASE m + 1 <= n
                    <6>1. m \in Nat /\ m + 1 \in 1 .. n /\ closes[m + 1] = closes[1] BY <2>2, <5>1
                    <6>2. c[m + 1] = closes[(m + 1) + 1] - closes[m + 1] BY <2>8, <6>1
                    <6>3. m + 1 \in 1 .. n + 1 /\ (m + 1) + 1 \in 1 .. n + 1 BY <2>2, <6>1
                    <6>4. closes[m + 1] \in Int /\ closes[(m + 1) + 1] \in Int BY <2>3, <6>3
                    <6>5. c[m + 1] = 0 BY <4>1, <6>1
                    <6>6. closes[(m + 1) + 1] = closes[m + 1] BY <6>2, <6>4, <6>5
                    <6> QED BY <6>1, <6>6
                <5>2. CASE ~(m + 1 <= n) BY <5>2
                <5> QED BY <5>1, <5>2
            <4> HIDE DEF S
            <4>4. \A m \in Nat : m \in S BY <4>2, <4>3, InductionOnNat
            <4>5. ASSUME NEW i \in 1 .. n + 1 PROVE closes[i] = closes[1]
                <5>1. i - 1 \in Nat /\ i - 1 <= n /\ (i - 1) + 1 = i BY <2>2
                <5>2. i - 1 \in S BY <4>4, <5>1
                <5> QED BY <5>1, <5>2 DEF S
            <4> QED BY <2>7, <2>14, <4>5
        <3>2. n \in Nat BY <2>2
        <3> QED BY <2>8, <3>1, <3>2, MovesCount
    <2>15. moved => rsi.num * mirror.den + mirror.num * rsi.den = 100 * rsi.den * mirror.den
        <3> HIDE DEF g, l, moved
        <3>1. mirror = RsiOf(l, g) BY <2>11, <2>13
        <3>2. moved => g + l > 0 BY <2>14
        <3> QED BY <2>9, <3>1, <3>2, RsiComplement
    <2>16. rsi # Market!NoRatio /\ Market!LessEq(Market!Ratio(0, 1), rsi) /\ Market!LessEq(rsi, Market!Ratio(100, 1))
        <3> HIDE DEF g, l
        <3> QED BY <2>9, RsiOnScale
    <2> QED BY <1>2, <2>12, <2>15, <2>16 DEF Market!RsiIsSound, rsi, higher, mirror, high, flip
<1> QED BY <1>1, <1>2

\* The spread of any quote.
LEMMA SpreadSound ==
    ASSUME NEW bid \in Int, NEW ask \in Int
    PROVE  Market!SpreadIsSound(bid, ask)
<1> DEFINE spread == Market!_fetch_bid_ask_spread(bid, ask)
           tighter == Market!_fetch_bid_ask_spread(bid, ask - 1)
<1>1. 0 < bid /\ bid <= ask => spread = Market!Ratio(20000 * (ask - bid), ask + bid)
    BY DEF Market!_fetch_bid_ask_spread, Market!None
<1>2. ~(0 < bid /\ bid <= ask) => spread = Market!NoRatio
    BY DEF Market!_fetch_bid_ask_spread, Market!None
<1>3. 0 < bid /\ bid <= ask - 1 => tighter = Market!Ratio(20000 * ((ask - 1) - bid), (ask - 1) + bid)
    BY DEF Market!_fetch_bid_ask_spread, Market!None
<1>4. ~(0 < bid /\ bid <= ask - 1) => tighter = Market!NoRatio
    BY DEF Market!_fetch_bid_ask_spread, Market!None
<1> HIDE DEF spread, tighter
<1>5. spread # Market!NoRatio <=> 0 < bid /\ bid <= ask
    BY <1>1, <1>2 DEF Market!NoRatio, Market!Ratio, Market!None
<1>6. spread # Market!NoRatio => Market!LessEq(Market!Ratio(0, 1), spread)
    BY <1>1, <1>5 DEF Market!Ratio, Market!LessEq
<1>7. ASSUME Market!NoRatio \notin {spread, tighter} PROVE Market!LessEq(tighter, spread)
    <2>1. 0 < bid /\ bid <= ask - 1 BY <1>4, <1>7
    <2>2. (20000 * ((ask - 1) - bid)) * (ask + bid) <= (20000 * (ask - bid)) * ((ask - 1) + bid)
        <3> DEFINE x == ask - bid
                   y == ask + bid
        <3>1. x \in Int /\ y \in Int /\ x <= y /\ (ask - 1) - bid = x - 1 /\ (ask - 1) + bid = y - 1 BY <2>1
        <3> HIDE DEF x, y
        <3>2. (20000 * (x - 1)) * y = 20000 * (x * y) - 20000 * y BY <3>1
        <3>3. (20000 * x) * (y - 1) = 20000 * (x * y) - 20000 * x BY <3>1
        <3>4. (20000 * (x - 1)) * y <= (20000 * x) * (y - 1)
            <4> DEFINE z == x * y
            <4>1. z \in Int BY <3>1
            <4> HIDE DEF z
            <4>2. 20000 * z - 20000 * y <= 20000 * z - 20000 * x BY <3>1, <4>1
            <4> QED BY <3>2, <3>3, <4>2 DEF z
        <3> QED BY <3>1, <3>4 DEF x, y
    <2>3. bid <= ask BY <2>1
    <2> QED BY <1>1, <1>3, <2>1, <2>2, <2>3 DEF Market!Ratio, Market!LessEq
<1> QED BY <1>5, <1>6, <1>7 DEF Market!SpreadIsSound, spread, tighter

\* A bar with its close between its low and its high.
IsBar(bar) ==
    /\ bar.low \in Int /\ bar.high \in Int /\ bar.close \in Int
    /\ bar.low <= bar.close /\ bar.close <= bar.high

\* The order flow of any bar.
LEMMA FlowSound == ASSUME NEW bar, IsBar(bar) PROVE Market!FlowIsSound(bar)
<1> DEFINE f == Market!_compute_order_flow(bar)
<1>1. CASE bar.volume <= 0 \/ bar.high = bar.low
    BY <1>1 DEF Market!FlowIsSound, Market!_compute_order_flow
<1>2. CASE ~(bar.volume <= 0 \/ bar.high = bar.low)
    <2>1. /\ f.flow.num = 2 * bar.close - bar.high - bar.low /\ f.flow.den = bar.high - bar.low
          /\ f.buy.num = bar.close - bar.low /\ f.sell.num = bar.high - bar.close
        BY <1>2 DEF Market!_compute_order_flow, Market!Ratio
    <2> HIDE DEF f
    <2>2. /\ f.buy.num + f.sell.num = f.flow.den /\ f.buy.num - f.sell.num = f.flow.num
          /\ f.buy.num >= 0 /\ f.sell.num >= 0 BY <2>1 DEF IsBar
    <2> QED BY <2>2 DEF Market!FlowIsSound, f
<1> QED BY <1>1, <1>2

\* Histories of h prices.
Prices(h) == {p \in [1 .. h -> Nat \ {0}] : Len(p) = h}

\* A return over a history of prices is there if the history is long enough.
LEMMA BackOf ==
    ASSUME NEW current \in Nat \ {0}, NEW h \in Nat, NEW history \in Prices(h), NEW n \in Nat \ {0}
    PROVE  /\ n <= h => Market!Back(current, history, n) = Market!Ratio(current, history[h - n + 1])
           /\ n <= h => Market!Back(current, history, n) # Market!NoRatio
           /\ ~(n <= h) => Market!Back(current, history, n) = Market!NoRatio
<1>1. CASE n <= h
    <2>1. h - n + 1 \in 1 .. h BY <1>1
    <2>2. Len(history) = h /\ history[h - n + 1] \in Nat \ {0} BY <2>1 DEF Prices
    <2>3. Market!Back(current, history, n) = Market!Ratio(current, history[h - n + 1])
        BY <1>1, <2>2 DEF Market!Back
    <2> QED BY <1>1, <2>3 DEF Market!NoRatio, Market!Ratio, Market!None
<1>2. CASE ~(n <= h) BY <1>2 DEF Market!Back, Prices
<1> QED BY <1>1, <1>2

\* A return over two sessions is the product of the two over one.
LEMMA ReturnsCompound ==
    ASSUME NEW n \in Nat, NEW x \in Nat \ {0}, NEW y \in Nat \ {0},
           NEW past \in Prices(n), NEW older \in Prices(n - 1), n >= 1, past[n] = y,
           \A i \in 1 .. n - 1 : past[i] = older[i]
    PROVE  LET one == Market!Back(x, past, 1)
               before == Market!Back(y, older, 1)
               two == Market!Back(x, past, 2)
           IN  /\ two = Market!NoRatio <=> before = Market!NoRatio
               /\ two # Market!NoRatio => two.num * one.den * before.den = two.den * one.num * before.num
<1> DEFINE one == Market!Back(x, past, 1)
           before == Market!Back(y, older, 1)
           two == Market!Back(x, past, 2)
<1>1. n - 1 \in Nat BY Z3
<1>2. one = Market!Ratio(x, y)
    <2>1. 1 <= n /\ n - 1 + 1 = n OBVIOUS
    <2> QED BY <2>1, BackOf
<1>3. CASE n = 1
    <2>1. two = Market!NoRatio
        <3>1. ~(2 <= n) BY <1>3
        <3> QED BY <3>1, BackOf
    <2>2. before = Market!NoRatio
        <3>1. ~(1 <= n - 1) BY <1>3
        <3> QED BY <1>1, <3>1, BackOf
    <2> QED BY <2>1, <2>2
<1>4. CASE n # 1
    <2> DEFINE z == past[n - 1]
    <2>1. 2 <= n /\ n - 2 + 1 = n - 1 /\ 1 <= n - 1 /\ (n - 1) - 1 + 1 = n - 1 /\ n - 1 \in 1 .. n - 1 BY <1>4
    <2>2. z \in Nat \ {0} /\ older[n - 1] = z BY <2>1 DEF Prices
    <2>3. two = Market!Ratio(x, z) /\ two # Market!NoRatio BY <2>1, BackOf
    <2>4. before = Market!Ratio(y, z) /\ before # Market!NoRatio
        <3>1. before = Market!Ratio(y, older[(n - 1) - 1 + 1]) /\ before # Market!NoRatio BY <1>1, <2>1, BackOf
        <3> QED BY <2>1, <2>2, <3>1
    <2> HIDE DEF z, one, two, before
    <2>5. x * y * z = z * x * y BY <2>2
    <2>6. two.num * one.den * before.den = two.den * one.num * before.num
        BY <1>2, <2>3, <2>4, <2>5 DEF Market!Ratio
    <2> QED BY <2>3, <2>4, <2>6 DEF one, before, two
<1> QED BY <1>3, <1>4

\* Over 20 sessions the market and the macro source agree.
LEMMA ReturnsAgree ==
    ASSUME NEW h \in Nat, NEW x \in Nat \ {0}, NEW month \in Prices(h)
    PROVE  LET etf == Market!_compute_etf_return_20d(x, month)
               far == Market!_compute_returns(x, month).return_20d
           IN  /\ far = Market!NoRatio <=> h < 20
               /\ far # Market!NoRatio => etf.num * far.den = (far.num - far.den) * etf.den
<1> DEFINE etf == Market!_compute_etf_return_20d(x, month)
           far == Market!_compute_returns(x, month).return_20d
<1>1. far = Market!Back(x, month, 20) BY DEF Market!_compute_returns
<1>2. Len(month) = h BY DEF Prices
<1> HIDE DEF far
<1> SUFFICES /\ far = Market!NoRatio <=> h < 20
             /\ far # Market!NoRatio => etf.num * far.den = (far.num - far.den) * etf.den
    BY DEF far
<1>3. CASE h < 20
    <2>1. ~(20 <= h) BY <1>3
    <2>2. far = Market!NoRatio BY <1>1, <2>1, BackOf
    <2> QED BY <1>3, <2>2
<1>4. CASE ~(h < 20)
    <2> DEFINE base == month[h - 19]
    <2>1. h - 19 \in 1 .. h /\ h - 20 + 1 = h - 19 /\ 20 <= h BY <1>4
    <2>2. base \in Nat \ {0} BY <2>1 DEF Prices
    <2>3. far = Market!Ratio(x, base) /\ far # Market!NoRatio
        <3>1. Market!Back(x, month, 20) = Market!Ratio(x, month[h - 20 + 1]) /\ Market!Back(x, month, 20) # Market!NoRatio
            BY <2>1, BackOf
        <3> QED BY <1>1, <2>1, <3>1
    <2>4. etf = Market!Ratio(x - base, base) BY <1>2, <1>4, <2>2 DEF Market!_compute_etf_return_20d
    <2> HIDE DEF etf, base
    <2>5. etf.num * far.den = (far.num - far.den) * etf.den BY <2>3, <2>4 DEF Market!Ratio
    <2> QED BY <1>4, <2>3, <2>5 DEF etf
<1> QED BY <1>3, <1>4

\* The returns of any closes.
LEMMA ReturnsSound ==
    ASSUME NEW closes \in Seq(Nat \ {0}), NEW month \in Seq(Nat \ {0}), Len(closes) >= 2
    PROVE  Market!ReturnsAreSound(closes, month)
<1> DEFINE n == Len(closes)
           past == [i \in 1 .. n - 1 |-> closes[i]]
           older == [i \in 1 .. n - 2 |-> closes[i]]
           h == Len(month)
<1>1. n \in Nat /\ n >= 2 /\ closes \in [1 .. n -> Nat \ {0}] OBVIOUS
<1>2. h \in Nat /\ month \in Prices(h) BY DEF Prices
<1>3. past \in Prices(n - 1) /\ older \in Prices(n - 2)
    <2>1. n - 1 \in Nat /\ n - 2 \in Nat BY <1>1
    <2>2. past \in [1 .. n - 1 -> Nat \ {0}] /\ older \in [1 .. n - 2 -> Nat \ {0}] BY <1>1
    <2>3. past \in [1 .. n - 1 -> Int] /\ older \in [1 .. n - 2 -> Int] BY <2>2
    <2> HIDE DEF n, past, older
    <2>5. Len(past) = n - 1 /\ Len(older) = n - 2 BY <2>1, <2>3, LengthOf
    <2> QED BY <2>2, <2>5 DEF Prices
<1>4. closes[n] \in Nat \ {0} /\ closes[n - 1] \in Nat \ {0} BY <1>1
<1>5. n - 1 \in Nat /\ n - 1 >= 1 /\ n - 1 \in 1 .. n - 1 /\ (n - 1) - 1 = n - 2 BY <1>1
<1>6. past[n - 1] = closes[n - 1]
    <2> HIDE DEF n
    <2> QED BY <1>5
<1>7. \A i \in 1 .. n - 2 : past[i] = older[i] BY <1>1
<1> HIDE DEF n, past, older, h
<1> DEFINE m == n - 1
<1>8. m \in Nat /\ m >= 1 /\ past \in Prices(m) /\ older \in Prices(m - 1) /\ past[m] = closes[n - 1]
      /\ \A i \in 1 .. m - 1 : past[i] = older[i] BY <1>3, <1>5, <1>6, <1>7
<1> HIDE DEF m
<1> DEFINE x == closes[n]
           y == closes[n - 1]
<1>9. x \in Nat \ {0} /\ y \in Nat \ {0} /\ past[m] = y BY <1>4, <1>8
<1> HIDE DEF x, y
<1>10. /\ Market!Back(x, past, 2) = Market!NoRatio <=> Market!Back(y, older, 1) = Market!NoRatio
       /\ Market!Back(x, past, 2) # Market!NoRatio =>
              Market!Back(x, past, 2).num * Market!Back(x, past, 1).den * Market!Back(y, older, 1).den
              = Market!Back(x, past, 2).den * Market!Back(x, past, 1).num * Market!Back(y, older, 1).num
    BY ONLY <1>8, <1>9, ReturnsCompound
<1>11. /\ Market!_compute_returns(x, month).return_20d = Market!NoRatio <=> h < 20
       /\ Market!_compute_returns(x, month).return_20d # Market!NoRatio =>
              Market!_compute_etf_return_20d(x, month).num * Market!_compute_returns(x, month).return_20d.den
              = (Market!_compute_returns(x, month).return_20d.num - Market!_compute_returns(x, month).return_20d.den)
                    * Market!_compute_etf_return_20d(x, month).den
    BY ONLY <1>2, <1>9, ReturnsAgree
<1> QED BY <1>10, <1>11 DEF Market!ReturnsAreSound, n, past, older, h, x, y

\* For any prices, any period of at least two and any quote and bar: the RSI is on its
\* scale, follows the last close and has the complement for its mirror image
\* (market._compute_rsi, "RSI value (0-100)"), the returns of the market and the macro
\* source compound and agree, and a spread and the two sides of a bar are never negative.
THEOREM MarketValuesAreSound ==
    ASSUME NEW series \in Seq(Int), NEW period \in Nat, NEW top \in Int, period >= 2,
           NEW closes \in Seq(Nat \ {0}), NEW month \in Seq(Nat \ {0}), Len(closes) >= 2,
           NEW bid \in Int, NEW ask \in Int, NEW bar, IsBar(bar)
    PROVE  /\ Market!RsiIsSound(series, period, top)
           /\ Market!ReturnsAreSound(closes, month)
           /\ Market!SpreadIsSound(bid, ask)
           /\ Market!FlowIsSound(bar)
<1>1. Market!RsiIsSound(series, period, top) BY RsiSound
<1>2. Market!ReturnsAreSound(closes, month) BY ReturnsSound
<1>3. Market!SpreadIsSound(bid, ask) BY SpreadSound
<1>4. Market!FlowIsSound(bar) BY FlowSound
<1> QED BY <1>1, <1>2, <1>3, <1>4
=============================================================================
