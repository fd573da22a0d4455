---------------------------- MODULE SignalScorers ----------------------------
(***************************************************************************)
(* From raw values to sub-indices and drivers: the two ways of scoring a   *)
(* value (against its history, or by a fixed curve while the history is    *)
(* short), the aggregation of a layer's signals, and the signals a score   *)
(* is explained with.  Values are integers; the S-curves of the code are   *)
(* replaced by straight lines with the same neutral point, direction and   *)
(* limits, and weights are small integers.                                 *)
(***************************************************************************)
EXTENDS ScoreFormulas, Sequences, FiniteSets, FiniteSetsExt, SequencesExt, Functions

Clip(x, low, high) == IF x < low THEN low ELSE IF x > high THEN high ELSE x

SignalTypes ==
    {"rsi_14", "return_1d", "volume_ratio", "order_flow_imbalance", "bid_ask_spread_bps",
     "short_volume_ratio_otc", "insider_net_shares", "analyst_buy_pct",
     "earnings_estimate_revision", "vix", "sector_etf_return_20d",
     "treasury_yield_10y", "treasury_yield_2y", "ted_spread"}

-----------------------------------------------------------------------------
(* Fixed curves: where a value is neutral, how the score rises per step of *)
(* the value, and the limits of the score.                                 *)

Line(neutral, rise, run) == [neutral |-> neutral, rise |-> rise, run |-> run]

_SIMPLE_SCORERS ==
    [t \in SignalTypes |->
        CASE t = "rsi_14" -> Line(50, -5, 4)
          [] t \in {"return_1d", "sector_etf_return_20d"} -> Line(0, 25, 1)
          [] t = "volume_ratio" -> Line(1, 15, 1)
          [] t = "order_flow_imbalance" -> Line(0, 50, 1)
          [] t = "bid_ask_spread_bps" -> Line(10, -5, 3)
          [] t = "short_volume_ratio_otc" -> Line(50, -10, 3)
          [] t \in {"insider_net_shares", "earnings_estimate_revision"} -> Line(0, 10, 1)
          [] t = "analyst_buy_pct" -> Line(50, 1, 2)
          [] t = "vix" -> Line(22, -25, 8)
          [] t \in {"treasury_yield_10y", "treasury_yield_2y"} -> Line(4, -33, 1)
          [] t = "ted_spread" -> Line(0, 50, 1)]

Parametric(t, v) ==
    LET c == _SIMPLE_SCORERS[t]
        margin == IF t = "volume_ratio" THEN 20 ELSE 0
    IN  Clip(50 + (c.rise * (v - c.neutral)) \div c.run, margin, 100 - margin)

-----------------------------------------------------------------------------
(* z-score against the stored history.                                     *)

\* Fault: the slope of the yield curve is taken for a yield.
FaultNegate == {"rsi_14", "bid_ask_spread_bps", "short_volume_ratio_otc", "vix",
                "treasury_yield_10y", "treasury_yield_2y", "ted_spread"}

Negated == {"rsi_14", "bid_ask_spread_bps", "short_volume_ratio_otc", "vix",
            "treasury_yield_10y", "treasury_yield_2y"}

Total(s) == FoldSeq(+, 0, s)

\* n^2 times the variance of a sequence of n values.
Spread2(s) == Len(s) * Total([i \in DOMAIN s |-> s[i] * s[i]]) - Total(s) * Total(s)

\* z = (v - mean) / std in thirds, clamped to 3 either way.
Thirds(s, v) ==
    LET d == Len(s) * v - Total(s)
        k == Max({i \in 0 .. 9 : i * i * Spread2(s) <= 9 * d * d})
    IN  IF d < 0 THEN -k ELSE k

score_from_history(t, s, v, min_obs) ==
    IF Len(s) < min_obs \/ Spread2(s) = 0 THEN None
    ELSE 50 + ((IF t \in Negated THEN -1 ELSE 1) * 50 * Thirds(s, v)) \div 9

\* The score of a value: by its history if that is long enough and varies, else by the curve.
ScoreOf(t, s, v, min_obs) ==
    LET z == score_from_history(t, s, v, min_obs) IN IF z = None THEN Parametric(t, v) ELSE z

-----------------------------------------------------------------------------
(* A layer's rows to its signals.  A row is [type, value] and in the table *)
(* itself: stored[<<key, type>>] are the values of a type under a key, by  *)
(* time, those of the rows included.  c holds the window of a history and  *)
(* the least number of values; weights by age are abstract.                *)

get_signal_history(stored, key, t, limit) ==
    LET s == stored[<<key, t>>] IN SubSeq(s, Max({1, Len(s) - limit + 1}), Len(s))

_build(t, v, score) == [type |-> t, value |-> v, score |-> score, weight |-> 2]

AgainstHistory(r, key, stored, c) ==
    _build(r.type, r.value,
           ScoreOf(r.type, get_signal_history(stored, key, r.type, c.window), r.value, c.min_obs))

score_market_signals(ticker, raw, stored, c) ==
    [i \in DOMAIN raw |-> AgainstHistory(raw[i], ticker, stored, c)]

\* A target counts by its distance from the current price, and so does its history.
_score_analyst_target(target, price) == Clip(50 + (1000 * (target - price)) \div (3 * price), 0, 100)
TargetSignal(r, ticker, stored, price, c) ==
    LET past == get_signal_history(stored, ticker, r.type, c.window)
        z == score_from_history(r.type, [i \in DOMAIN past |-> past[i] - price], r.value - price, c.min_obs)
    IN  IF price = None \/ price <= 0 THEN <<>>
        ELSE <<_build(r.type, r.value, IF z = None THEN _score_analyst_target(r.value, price) ELSE z)>>

\* Percent of the estimate before, which may be a loss.
Revised(before, estimate) ==
    (100 * (estimate - before)) \div (IF before < 0 THEN -before ELSE before)

\* An estimate counts by its revision, against those before it.
RevisionSignal(raw, ticker, stored, c) ==
    LET eps == get_signal_history(stored, ticker, "analyst_eps_estimate_mean", c.estimates)
        n == Len(eps)
        pairs == SelectSeq([i \in 1 .. n - 2 |-> <<eps[i], eps[i + 1]>>], LAMBDA p : p[1] # 0)
        delta == Revised(eps[n - 1], eps[n])
    IN  IF raw = <<>> \/ n < 2 \/ eps[n - 1] = 0 THEN <<>>
        ELSE <<_build("earnings_estimate_revision", delta,
                      ScoreOf("earnings_estimate_revision", [i \in DOMAIN pairs |-> Revised(pairs[i][1], pairs[i][2])],
                              delta, c.min_obs))>>

score_influencer_signals(ticker, raw, stored, price, c) ==
    LET OfType(T) == SelectSeq(raw, LAMBDA r : r.type \in T)
        derived == {"analyst_target_price", "analyst_eps_estimate_mean"}
        targets == OfType({"analyst_target_price"})
        others == OfType({raw[i].type : i \in DOMAIN raw} \ derived)
    IN  FlattenSeq([i \in DOMAIN targets |-> TargetSignal(targets[i], ticker, stored, price, c)])
        \o [i \in DOMAIN others |-> AgainstHistory(others[i], ticker, stored, c)]
        \o RevisionSignal(OfType({"analyst_eps_estimate_mean"}), ticker, stored, c)

_MACRO_GLOBAL_TYPES == {"vix", "treasury_yield_10y", "treasury_yield_2y", "ted_spread"}
SECTOR_ETFS == [technology |-> "XLK", energy |-> "XLE"]

\* The return of an ETF is scored against the history of the ticker's own sector.
score_macro_signals(sector, raw, stored, c) ==
    LET rows == SelectSeq(raw, LAMBDA r : r.type \in _MACRO_GLOBAL_TYPES \cup {"sector_etf_return_20d"})
    IN  [i \in DOMAIN rows |->
            IF rows[i].type \in _MACRO_GLOBAL_TYPES THEN AgainstHistory(rows[i], "_MACRO_", stored, c)
            ELSE IF sector \in DOMAIN SECTOR_ETFS THEN AgainstHistory(rows[i], SECTOR_ETFS[sector], stored, c)
            ELSE _build(rows[i].type, rows[i].value, Parametric(rows[i].type, rows[i].value))]

-----------------------------------------------------------------------------
(* A layer's signals to its sub-index.  A signal is a record of its type,  *)
(* score and weight; the sequence is newest first, as the query returns it.*)

Valid(sigs) == SelectSeq(sigs, LAMBDA s : s.weight > 0)

compute_sub_index(sigs) ==
    LET valid == Valid(sigs)
        n == Min({5, Len(valid)})
        w == Total([i \in DOMAIN valid |-> valid[i].weight])
        off == Total([i \in DOMAIN valid |-> valid[i].weight * (valid[i].score - 50)])
    IN  IF valid = <<>> THEN Of(None) ELSE Quotient(250 * w + n * off, 5 * w)

MARKET_COMPONENT_WEIGHTS ==
    [returns |-> 30, momentum |-> 15, order_flow |-> 20,
     liquidity |-> 10, short_volume |-> 15, volume |-> 10]

_COMPONENT_TYPES ==
    [return_1d |-> "returns", rsi_14 |-> "momentum", order_flow_imbalance |-> "order_flow",
     bid_ask_spread_bps |-> "liquidity", short_volume_ratio_otc |-> "short_volume",
     volume_ratio |-> "volume"]

\* Within -100 .. 100.  Momentum goes by the value itself, against the signal's own score.
Component(sig) ==
    IF sig.type = "rsi_14" THEN Clip(5 * (sig.value - 50), -100, 100) ELSE 2 * (sig.score - 50)

\* One component alone is not a market layer.
compute_market_sub_index(sigs) ==
    LET valid == SelectSeq(Valid(sigs), LAMBDA s : s.type \in DOMAIN _COMPONENT_TYPES)
        Latest(c) == SelectSeq(valid, LAMBDA s : _COMPONENT_TYPES[s.type] = c)[1]
        components == {_COMPONENT_TYPES[valid[i].type] : i \in DOMAIN valid}
        w == MapThenSumSet(LAMBDA c : MARKET_COMPONENT_WEIGHTS[c], components)
    IN  IF Cardinality(components) <= 1 THEN Of(None)
        ELSE Quotient(100 * w + MapThenSumSet(LAMBDA c : MARKET_COMPONENT_WEIGHTS[c] * Component(Latest(c)),
                                              components), 2 * w)

_MACRO_SIGNAL_WEIGHTS ==      \* in quarters
    [vix |-> 4, sector_etf_return_20d |-> 6, treasury_yield_10y |-> 4,
     treasury_yield_2y |-> 3, ted_spread |-> 4]

compute_macro_sub_index(sigs) ==
    LET grouped == [t \in {sigs[i].type : i \in DOMAIN Valid(sigs)} \cap DOMAIN _MACRO_SIGNAL_WEIGHTS |->
                        SelectSeq(Valid(sigs), LAMBDA s : s.type = t)[1].score]
        w == MapThenSumSet(LAMBDA t : _MACRO_SIGNAL_WEIGHTS[t], DOMAIN grouped)
    IN  IF DOMAIN grouped = {} THEN Of(None)
        ELSE Quotient(MapThenSumSet(LAMBDA t : _MACRO_SIGNAL_WEIGHTS[t] * grouped[t], DOMAIN grouped), w)

-----------------------------------------------------------------------------
(* Drivers: the signals with the largest weight times distance from        *)
(* neutral, one per type.                                                  *)

Importance(s) == s.weight * (IF s.score > 50 THEN s.score - 50 ELSE 50 - s.score)

\* Fault: the types are reduced before the signals are ranked.
FaultFirstOfType(sigs, top_n) ==
    LET valid == Valid(sigs)
        firsts == SelectSeq([i \in DOMAIN valid |-> i],
                            LAMBDA i : \A j \in 1 .. i - 1 : valid[j].type # valid[i].type)
        ranked == SortSeq([i \in DOMAIN firsts |-> valid[firsts[i]]],
                          LAMBDA a, b : Importance(a) > Importance(b))
    IN  SubSeq(ranked, 1, Min({top_n, Len(ranked)}))

extract_drivers(sigs, top_n) ==
    LET ranked == SortSeq(Valid(sigs), LAMBDA a, b : Importance(a) > Importance(b))
        firsts == SelectSeq([i \in DOMAIN ranked |-> i],
                            LAMBDA i : \A j \in 1 .. i - 1 : ranked[j].type # ranked[i].type)
    IN  [i \in 1 .. Min({top_n, Len(firsts)}) |-> ranked[firsts[i]]]

=============================================================================
