--------------------------- MODULE MarketFormulas ---------------------------
(***************************************************************************)
(* What the market and macro sources derive from prices                    *)
(* (pipeline/sources/market.py, macro.py): the spread of a quote, the RSI, *)
(* the order flow of a bar and the returns, and what these promise.        *)
(* Prices and volumes are integers, a ratio is a record of its two terms   *)
(* and stays unrounded, and None is the absence of a value.                *)
(***************************************************************************)
EXTENDS Integers, Sequences

None == -1
Ratio(n, d) == [num |-> n, den |-> d]
NoRatio == Ratio(None, 1)
LessEq(p, q) == p.num * q.den <= q.num * p.den
Pos(x) == IF x > 0 THEN x ELSE 0

_fetch_bid_ask_spread(bid, ask) ==
    IF None \in {bid, ask} \/ bid <= 0 \/ ask <= 0 \/ ask < bid THEN NoRatio
    ELSE Ratio(20000 * (ask - bid), ask + bid)

\* Wilder's averages of the changes up to each one: the mean of the first period, then
\* each moves on by a period-th.  They are kept whole, times period to the number of
\* changes after the first period, which is the weight of the next one.  The gains are
\* the changes with sign 1, the losses those with sign -1.
Weights(period) == LET w[k \in Nat] == IF k = 0 THEN 1 ELSE period * w[k - 1] IN w

Averages(changes, period, sign) ==
    LET avg[m \in 0 .. Len(changes)] ==
            IF m = 0 THEN 0
            ELSE IF m <= period THEN avg[m - 1] + Pos(sign * changes[m])
            ELSE avg[m - 1] * (period - 1) + Pos(sign * changes[m]) * Weights(period)[m - period]
    IN  avg

Wilder(changes, period, sign) == Averages(changes, period, sign)[Len(changes)]

Changes(closes) == [i \in 1 .. Len(closes) - 1 |-> closes[i + 1] - closes[i]]

\* Fault: the losses of the first period are left out of the seed.
FaultRsi(closes, period) ==
    LET changes == Changes(closes)
        gain == Wilder(changes, period, 1)
        loss == Wilder([i \in DOMAIN changes |-> IF i = 1 THEN 0 ELSE changes[i]], period, -1)
    IN  IF Len(closes) < period + 1 THEN NoRatio
        ELSE IF loss = 0 THEN Ratio(100, 1) ELSE Ratio(100 * gain, gain + loss)

_compute_rsi(closes, period) ==
    LET gain == Wilder(Changes(closes), period, 1)
        loss == Wilder(Changes(closes), period, -1)
    IN  IF Len(closes) < period + 1 THEN NoRatio
        ELSE IF loss = 0 THEN Ratio(100, 1) ELSE Ratio(100 * gain, gain + loss)

\* The close location value: (buy - sell) of a bar, and the two fractions.
_compute_order_flow(bar) ==
    IF bar.volume <= 0 \/ bar.high = bar.low THEN [flow |-> NoRatio, buy |-> NoRatio, sell |-> NoRatio]
    ELSE [flow |-> Ratio(2 * bar.close - bar.high - bar.low, bar.high - bar.low),
          buy |-> Ratio(bar.close - bar.low, bar.high - bar.low),
          sell |-> Ratio(bar.high - bar.close, bar.high - bar.low)]

\* A return over n sessions compares with the close of n sessions ago; history ends
\* with the session before the current one.
Back(current, history, n) ==
    IF Len(history) < n \/ current <= 0 THEN NoRatio
    ELSE LET base == history[Len(history) - n + 1] IN IF base > 0 THEN Ratio(current, base) ELSE NoRatio

_compute_returns(current, history) ==
    [return_1d |-> Back(current, history, 1), return_5d |-> Back(current, history, 5),
     return_20d |-> Back(current, history, 20)]

_compute_etf_return_20d(current, history) ==
    IF Len(history) < 20 \/ history[Len(history) - 19] = 0 THEN NoRatio
    ELSE Ratio(current - history[Len(history) - 19], history[Len(history) - 19])

-----------------------------------------------------------------------------
(* What they promise.                                                      *)

\* The RSI is there from period + 1 closes on and stays on its scale, does not fall when
\* the last close rises, and turns into its complement when every rise becomes a fall.
RsiIsSound(closes, period, top) ==
    LET rsi == _compute_rsi(closes, period)
        higher == _compute_rsi([closes EXCEPT ![Len(closes)] = @ + 1], period)
        mirror == _compute_rsi([i \in DOMAIN closes |-> top - closes[i]], period)
    IN  /\ rsi = NoRatio <=> Len(closes) < period + 1
        /\ rsi # NoRatio =>
              /\ LessEq(Ratio(0, 1), rsi) /\ LessEq(rsi, Ratio(100, 1)) /\ LessEq(rsi, higher)
              /\ (\E i, j \in DOMAIN closes : closes[i] # closes[j]) =>
                    rsi.num * mirror.den + mirror.num * rsi.den = 100 * rsi.den * mirror.den

\* Returns compound, and over 20 sessions the market and the macro source agree.
ReturnsAreSound(closes, month) ==
    LET n == Len(closes)
        past == [i \in 1 .. n - 1 |-> closes[i]]
        one == Back(closes[n], past, 1)
        before == Back(closes[n - 1], [i \in 1 .. n - 2 |-> closes[i]], 1)
        two == Back(closes[n], past, 2)
        etf == _compute_etf_return_20d(closes[n], month)
        far == _compute_returns(closes[n], month).return_20d
    IN  /\ two = NoRatio <=> before = NoRatio
        /\ two # NoRatio => two.num * one.den * before.den = two.den * one.num * before.num
        /\ far = NoRatio <=> Len(month) < 20
        /\ far # NoRatio => etf.num * far.den = (far.num - far.den) * etf.den

\* A spread is there for a market that is not crossed, and narrower when the ask is lower.
SpreadIsSound(bid, ask) ==
    LET spread == _fetch_bid_ask_spread(bid, ask)
        tighter == _fetch_bid_ask_spread(bid, ask - 1)
    IN  /\ spread # NoRatio <=> 0 < bid /\ bid <= ask
        /\ spread # NoRatio => LessEq(Ratio(0, 1), spread)
        /\ NoRatio \notin {spread, tighter} => LessEq(tighter, spread)

\* A bar splits its volume into two fractions whose difference is the imbalance.
FlowIsSound(bar) ==
    LET f == _compute_order_flow(bar)
    IN  f.flow # NoRatio =>
          /\ f.buy.num + f.sell.num = f.flow.den /\ f.buy.num - f.sell.num = f.flow.num
          /\ f.buy.num >= 0 /\ f.sell.num >= 0
=============================================================================
