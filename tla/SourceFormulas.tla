--------------------------- MODULE SourceFormulas ---------------------------
(***************************************************************************)
(* What the sources make of an answer (pipeline/sources): which values are *)
(* derived from it and which are absent, beyond those that are derived     *)
(* from prices alone (MarketFormulas).                                     *)
(***************************************************************************)
EXTENDS MarketFormulas, FiniteSets, FiniteSetsExt

Distance(a, b) == IF a < b THEN b - a ELSE a - b

\* Market (market.py): the volume of a session and the mean of those before it.
_compute_volume_ratio(current, history) ==
    LET total == MapThenSumSet(LAMBDA i : history[i], DOMAIN history)
    IN  IF total = 0 THEN NoRatio ELSE Ratio(current * Len(history), total)

-----------------------------------------------------------------------------
(* Macro (macro.py, fred.py).                                              *)

\* A float that is not a number, which yfinance has for a session without a close.
NaN == -9

\* yfinance passes on the close that it has, a 0 or NaN too; for Finnhub a 0 is no answer.
_vix_yfinance(close) == close
_vix_finnhub(price) == IF price = 0 THEN None ELSE price

\* Alpha Vantage answers "Note" or "Information" with status 200 when its limit is
\* reached.  A price is a text: that of 0 is a price, an empty or unreadable one is None.
_vix_av(answer) == IF answer.note THEN None ELSE answer.price
_etf_close_av(answer) == IF answer.note THEN None ELSE answer.price

\* The first source that answers.
FirstOf(answers) == LET given == SelectSeq(answers, LAMBDA a : a # None)
                    IN  IF given = <<>> THEN None ELSE Head(given)

vix(v) == FirstOf(<<_vix_yfinance(v.yfinance), _vix_finnhub(v.finnhub), _vix_av(v.av)>>)

\* The sector ETFs, of which there are eleven, in the order of the loop.
etfs == <<"XLC", "XLE", "XLK">>

\* The rows of a run: VIX and the ETFs, each that answered.
_run_macro(a) ==
    {<<"vix", v>> : v \in {vix(a.vix)} \ {None}} \cup
    {<<etfs[i], _etf_close_av(a.etfs[i])>> : i \in {j \in DOMAIN a.etfs : _etf_close_av(a.etfs[j]) # None}}

\* A page of observations, the newest first; "." is None.
_fetch_observation(page) == SelectSeq(page, LAMBDA v : v # None)

\* The newest real value of the first page, or of a second one after a pause.
FredValue(page, again) ==
    LET obs == IF _fetch_observation(page) # <<>> THEN _fetch_observation(page)
               ELSE _fetch_observation(again)
    IN  IF obs = <<>> THEN None ELSE Head(obs)

-----------------------------------------------------------------------------
(* Influencer (influencer.py).                                             *)

\* Transactions, by date; one whose date cannot be read is skipped, a change that is
\* missing is 0, and of two rows that are equal one is kept.
_insider_finnhub(transactions) ==
    {<<"insider_net_shares", IF t.change = None THEN 0 ELSE t.change, t.date>> :
        t \in {x \in transactions : x.date # None}}

\* The share of buys in the most recent recommendations.
_analyst_recommendations(periods) ==
    IF periods = <<>> THEN NoRatio
    ELSE LET p == Head(periods)
             total == p.strongBuy + p.buy + p.hold + p.sell + p.strongSell
         IN  IF total = 0 THEN NoRatio ELSE Ratio(p.strongBuy + p.buy, total)

\* NaN is not at or below 0.
_analyst_target_yf(target) == IF target # NaN /\ target <= 0 THEN None ELSE target

\* The estimate, of which there is one or none; it may be negative.
_earnings_estimate_yf(avg) == avg \ {NaN}

\* The rows of a run: whatever could be told of each kind.
_run_influencer(a) ==
    _insider_finnhub(a.insider)
    \cup {<<"analyst_buy_pct", r>> : r \in {_analyst_recommendations(a.periods)} \ {NoRatio}}
    \cup {<<"analyst_target_price", p>> : p \in {_analyst_target_yf(a.target)} \ {None}}
    \cup {<<"analyst_eps_estimate_mean", e>> : e \in _earnings_estimate_yf(a.eps)}

-----------------------------------------------------------------------------
(* Options (options.py).  A side of a chain is a set of contracts          *)
(* [strike, iv, volume, oi]; implied volatility is in hundredths.          *)

TARGET_DAYS == 30
IV_MIN == 5
IV_MAX == 500
MIN_SIDE_VOLUME == 50
MIN_SIDE_OI == 100

\* Of the days to the listed expiries the future one nearest to the target.
pick_expiry(expiries) ==
    LET future == {d \in expiries : d > 0}
    IN  IF future = {} THEN None
        ELSE CHOOSE d \in future : \A e \in future : Distance(d, TARGET_DAYS) <= Distance(e, TARGET_DAYS)

_sane_iv(iv) == IF iv > IV_MIN /\ iv < IV_MAX THEN iv ELSE None

\* The total of a column of one side of a chain.
Depth(side, col) == MapThenSumSet(LAMBDA c : Pos(c[col]), side)

_has_iv_dispersion(calls, puts) ==
    Cardinality({_sane_iv(c.iv) : c \in calls \cup puts} \ {None}) >= 3

\* The contract whose strike is nearest; the target is in hundredths of a strike.
Nearest(side, target) ==
    CHOOSE c \in side : \A d \in side : Distance(100 * c.strike, target) <= Distance(100 * d.strike, target)
_iv_at_strike_nearest(side, target) == IF side = {} THEN None ELSE _sane_iv(Nearest(side, target).iv)

\* Within the tolerance of 10 per cent.
IsNear(side, target) == side # {} /\ 10 * Distance(100 * Nearest(side, target).strike, target) <= target

\* Put to call, where both sides are deep.
Pcr(calls, puts, col, least) ==
    IF Depth(calls, col) >= least /\ Depth(puts, col) >= least
    THEN Ratio(Depth(puts, col), Depth(calls, col)) ELSE NoRatio

\* The implied volatility at the money: the mean of the legs that are sane.
AtmIv(calls, puts, spot) ==
    LET legs == {<<s, _iv_at_strike_nearest(IF s = "call" THEN calls ELSE puts, 100 * spot)>> : s \in {"call", "put"}}
        sane == {l \in legs : l[2] # None}
    IN  IF sane = {} THEN NoRatio ELSE Ratio(MapThenSumSet(LAMBDA l : l[2], sane), Cardinality(sane))

\* The skew, of two located and sane strikes; None cannot be told from a skew of -1.
HasSkew(calls, puts, spot) ==
    /\ _iv_at_strike_nearest(puts, 95 * spot) # None /\ IsNear(puts, 95 * spot)
    /\ _iv_at_strike_nearest(calls, 105 * spot) # None /\ IsNear(calls, 105 * spot)
Skew(calls, puts, spot) ==
    _iv_at_strike_nearest(puts, 95 * spot) - _iv_at_strike_nearest(calls, 105 * spot)

derive_options_signals(calls, puts, spot) ==
    LET real == spot > 0 /\ _has_iv_dispersion(calls, puts)
    IN  [pcr_volume |-> IF spot > 0 THEN Pcr(calls, puts, "volume", MIN_SIDE_VOLUME) ELSE NoRatio,
         pcr_oi |-> IF spot > 0 THEN Pcr(calls, puts, "oi", MIN_SIDE_OI) ELSE NoRatio,
         atm_iv_30d |-> IF real THEN AtmIv(calls, puts, spot) ELSE NoRatio,
         iv_skew_25d |-> IF real /\ HasSkew(calls, puts, spot) THEN {Skew(calls, puts, spot)} ELSE {}]

-----------------------------------------------------------------------------
(* Short volume (short_volume.py).  A file maps symbols to their volumes.  *)

\* Rows without volume are skipped, and the rows of a symbol are added up.
_parse_short_volume(lines) ==
    LET good == {l \in lines : l.total > 0}
        Sum(s, Of(_)) == MapThenSumSet(Of, {l \in good : l.symbol = s})
    IN  [s \in {l.symbol : l \in good} |->
            [short |-> Sum(s, LAMBDA l : l.short), total |-> Sum(s, LAMBDA l : l.total)]]

_combine_trf_data(files) ==
    LET symbols == UNION {DOMAIN files[i] : i \in DOMAIN files}
        Sum(s, Of(_)) == MapThenSumSet(LAMBDA i : Of(files[i][s]), {i \in DOMAIN files : s \in DOMAIN files[i]})
    IN  [s \in symbols |-> [short |-> Sum(s, LAMBDA v : v.short), total |-> Sum(s, LAMBDA v : v.total)]]

\* The consolidated file, or the sum of the venues' files that are there; a file that is
\* missing, or that no symbol could be read from, is empty.
fetch_short_volume_for_date(day) ==
    IF day.cnms # <<>> THEN day.cnms ELSE _combine_trf_data(day.trfs)

\* The walk back over five days, today first: how far it goes.
latest_short_volume(days) ==
    LET there == {o \in 1 .. Len(days) : ~days[o].weekend /\ fetch_short_volume_for_date(days[o]) # <<>>}
    IN  IF there = {} THEN None ELSE Min(there)

ingest_short_volume(days, universe) ==
    LET o == latest_short_volume(days)
        data == IF o = None THEN <<>> ELSE fetch_short_volume_for_date(days[o])
    IN  [s \in DOMAIN data \cap universe |-> Ratio(data[s].short, data[s].total)]
=============================================================================
