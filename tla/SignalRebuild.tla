---------------------------- MODULE SignalRebuild ----------------------------
(***************************************************************************)
(* The tool that rebuilds the market-derived signals of an outage from the *)
(* bars of a provider (scripts/backfill/reconstruct_signals.py).  How they *)
(* get into the table is in SignalSwap.                                    *)
(*                                                                         *)
(* Times are in quarter hours of UTC, of which a day has 96; the hour at   *)
(* which a session closes depends on the season.  The lengths of the       *)
(* histories are a parameter, h.                                           *)
(***************************************************************************)
EXTENDS SourceFormulas, SequencesExt

Day == 96
DayOf(t) == t \div Day

INTRADAY_HOURS == 14 .. 20
EOD_MARK == 85                     \* 21:15
SessionClose(summer) == IF summer THEN 80 ELSE 84

\* Fault: the last bar of a session is as long as the others.
FaultBarEnd(bar, minutes, summer) == bar.start + minutes

\* A bar is labelled by its start; the last one of a session ends with it.
hourly_bar_end(bar, minutes, summer) ==
    Min({bar.start + minutes, Day * DayOf(bar.start) + SessionClose(summer)})

NoBar == <<>>

\* The day so far: the bars that had ended at a mark.
partial_bar(bars, mark, minutes, summer) ==
    LET done == SelectSeq(bars, LAMBDA b : hourly_bar_end(b, minutes, summer) <= mark)
    IN  IF done = <<>> THEN NoBar
        ELSE [open |-> Head(done).open, high |-> Max({b.high : b \in Range(done)}),
              low |-> Min({b.low : b \in Range(done)}), close |-> Last(done).close,
              volume |-> FoldSeq(LAMBDA b, n : b.volume + n, 0, done)]

intraday_marks(day, minutes) ==
    IF day % 7 >= 5 THEN {}
    ELSE {Day * day + 4 * hour + m : hour \in INTRADAY_HOURS, m \in {x \in 0 .. 3 : x % minutes = 0}}

eod_mark(day) == Day * day + EOD_MARK

LastOf(s, n) == SubSeq(s, IF Len(s) > n THEN Len(s) - n + 1 ELSE 1, Len(s))

Row(ticker, type, value, mark) == [ticker |-> ticker, type |-> type, value |-> value, mark |-> mark]

\* What _run_market derives from a bar and the sessions before it.
market_rows(ticker, mark, bar, prior_closes, prior_volumes, h) ==
    LET closes == LastOf(prior_closes, h.RSI_HISTORY)
        flow == _compute_order_flow(bar)
        returns == _compute_returns(bar.close, closes)
        rsi == _compute_rsi(Append(closes, bar.close), h.period)
        ratio == _compute_volume_ratio(bar.volume, LastOf(prior_volumes, h.VOLUME_HISTORY))
        vals == {<<"order_flow_imbalance", flow.flow>>, <<"buy_pressure", flow.buy>>,
                 <<"sell_pressure", flow.sell>>, <<"rsi_14", rsi>>, <<"volume_ratio", ratio>>}
                \cup {<<f, returns[f]>> : f \in DOMAIN returns}
    IN  {Row(ticker, v[1], v[2], mark) : v \in {x \in vals : x[2] # NoRatio}}

-----------------------------------------------------------------------------
(* The bars: sequences by time.  A download goes by dates, that of the end *)
(* included; a daily bar is at its date.                                   *)

_by_symbol(bars, start, end) ==
    SelectSeq(bars, LAMBDA b : DayOf(start) <= DayOf(b.start) /\ DayOf(b.start) <= DayOf(end))

daily_download(daily, start, end, h) == _by_symbol(daily, start - Day * h.DAILY_PAD, end)

OfDay(bars, day) == SelectSeq(bars, LAMBDA b : DayOf(b.start) = day)
Closes(bars) == [i \in DOMAIN bars |-> bars[i].close]
Volumes(bars) == [i \in DOMAIN bars |-> bars[i].volume]
InWindow(start, end, mark) == start <= mark /\ mark < end

\* opt: whether to make the rows of the end of the day, the length of a bar, and the
\* types to keep.
build_ticker_rows(ticker, hourly, daily, start, end, opt, summer, h) ==
    LET Prior(i) == SubSeq(daily, 1, i - 1)
        Made(i, mark, bar) == market_rows(ticker, mark, bar, Closes(Prior(i)), Volumes(Prior(i)), h)
        Intraday(i) ==
            LET d == DayOf(daily[i].start)
                Bar(mark) == partial_bar(OfDay(hourly, d), mark, opt.minutes, summer)
            IN  UNION {Made(i, mark, Bar(mark)) :
                    mark \in {m \in intraday_marks(d, opt.minutes) : InWindow(start, end, m) /\ Bar(m) # NoBar}}
        AtEnd(i) ==
            LET mark == eod_mark(DayOf(daily[i].start))
            IN  IF opt.eod /\ InWindow(start, end, mark) THEN Made(i, mark, daily[i]) ELSE {}
    IN  {r \in UNION {Intraday(i) \cup AtEnd(i) : i \in DOMAIN daily} : r.type \in opt.types}

\* The marks of macro are hourly whatever the length of the market's bars.
build_macro_rows(vix_hourly, etf, etf_hourly, etf_daily, start, end, summer, h) ==
    LET Bar(bars, mark) == partial_bar(OfDay(bars, DayOf(mark)), mark, 4, summer)
        Marks(bars, days) ==
            {m \in UNION {intraday_marks(d, 4) : d \in days} : InWindow(start, end, m) /\ Bar(bars, m) # NoBar}
        Return(i, mark) ==
            _compute_etf_return_20d(Bar(etf_hourly, mark).close,
                                    LastOf(Closes(SubSeq(etf_daily, 1, i - 1)), h.ETF_HISTORY))
    IN  {Row("_MACRO_", "vix", Bar(vix_hourly, m).close, m)
            : m \in Marks(vix_hourly, {DayOf(b.start) : b \in Range(vix_hourly)})}
        \cup UNION {{Row(etf, "sector_etf_return_20d", Return(i, m), m) :
                        m \in {x \in Marks(etf_hourly, {DayOf(etf_daily[i].start)}) : Return(i, x) # NoRatio}}
                      : i \in DOMAIN etf_daily}

\* --daily-bars: the bars of a window, dated as the live job dates them.
daily_bar_rows(ticker, daily, start, end) ==
    {Row(ticker, f, b[f], b.start)
        : b \in {x \in Range(daily) : InWindow(start, end, x.start)}, f \in {"open", "high", "low", "close", "volume"}}
===============================================================================
