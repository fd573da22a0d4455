-------------------------- MODULE MCReplayScores --------------------------
(***************************************************************************)
(* Small instances for TLC of the tools that fill gaps offline: the replay *)
(* of scores (of two tickers one has a live row before the gap), the       *)
(* rescoring of a news outage, and the reconstruction of signals.          *)
(***************************************************************************)
EXTENDS ReplayScores, OfflineTools, Sequences, SequencesExt

CONSTANTS Early, Added

TwoTickers == {Early, Added}
OneSeeded == {Early}

\* A behaviour is about one of the tools, so that they do not multiply; the narrative and
\* the signals of an input are checked by themselves, without steps.
VARIABLES about, input

N == INSTANCE NarrativeRebuild
S == INSTANCE SignalRebuild

\* The rescoring, with the number of drivers that a row keeps.
Rescored(values, seed, articles) == N!rebuild_rows(values, seed, articles, 3)

mcVars == <<vars, about, input, toolVars, swapVars>>

-----------------------------------------------------------------------------
(* A news outage: two ticks, at 400 and 406 or 407, after a seed row at    *)
(* 398.  The articles lie around the ends of the windows, the rest of the  *)
(* coverage two weeks back, an article a day.                              *)

Article(id, published, cluster, relevance, importance) ==
    [id |-> id, published |-> published, cluster |-> cluster, relevance |-> relevance,
     importance |-> importance]

Coverage(n) == [d \in 1 .. n |-> Article(d, 60 + 24 * d, N!None, 7, 1)]

\* Two articles, of one event or of two, the second not before the first.
Recent ==
    {<<Article(20, p, c, r, 4), Article(21, q, c, s, 2)>>
        : p \in {327, 328, 376, 393, 395}, q \in {400, 401, 407},
          c \in {N!None, 1}, r \in {N!None, 5, 6}, s \in {N!None, 5, 8}}

OtherDriver(importance) ==
    [signal |-> "rsi_14", description |-> {"text"}, layer |-> "market", importance |-> importance]
Other(time, n) ==
    [time |-> time, values |-> <<"others", time>>, missing |-> {}, stale |-> {"insider"}, n |-> n,
     drivers |-> <<OtherDriver(5), OtherDriver(3), OtherDriver(1)>>]

SeedRow(as_of) ==
    [timestamp |-> 398, smoothed |-> <<"seed">>, as_of |-> as_of,
     index |-> IF as_of = N!None THEN N!NoIndex ELSE [of |-> {0}, at |-> 398]]

Outages ==
    {[articles |-> Coverage(IF h = {} THEN 10 ELSE 9) \o r, seed |-> s, heard |-> h,
      others |-> <<Other(400, 4), Other(t, IF t = 406 THEN 3 ELSE 5)>>]
        : r \in Recent, t \in {406, 407}, s \in {{}, {SeedRow(N!None)}, {SeedRow(394)}}, h \in {{}, {20}}}

\* The rows there were, scored with what had been heard.
Original(o) ==
    N!live_rows(o.others, {a \in Range(o.articles) : a.id \in o.heard}, o.seed, 3)

\* What the tool finds of two tickers with the same rows.
Found ==
    {[t \in TwoTickers |-> [rows |-> Original(o), seed |-> o.seed, articles |-> o.articles]]
        : o \in {x \in Outages : /\ x.seed = {} /\ x.heard = {} /\ Len(x.articles) = 12
                                 /\ x.articles[11].published = 393 /\ x.articles[12].relevance = 8}}

-----------------------------------------------------------------------------
(* Bars: eight weeks of days, of the last two the sessions by bars.        *)

Lengths == [period |-> 2, RSI_HISTORY |-> 21, VOLUME_HISTORY |-> 3, ETF_HISTORY |-> 22, DAILY_PAD |-> 34]

Opens(summer) == S!SessionClose(summer) - 26

\* A session's bars, of which some may be missing.
Session(day, seed, minutes, summer, gaps) ==
    LET starts == SelectSeq([i \in 1 .. 26 |-> i - 1], LAMBDA i : i % minutes = 0 /\ i \div 4 \notin gaps)
        Close(i) == 20 + ((seed * (i + day)) % 5)
    IN  [k \in DOMAIN starts |->
            [start |-> S!Day * day + Opens(summer) + starts[k], open |-> 20, close |-> Close(starts[k]),
             high |-> Close(starts[k]) + 2, low |-> Close(starts[k]) - 1 - (seed % 2), volume |-> 1 + (starts[k] % 3)]]

\* The bar of a day, from those of its session.
Daily(day, bars) ==
    [start |-> S!Day * day, open |-> bars[1].open, close |-> bars[Len(bars)].close,
     high |-> S!Max({b.high : b \in Range(bars)}), low |-> S!Min({b.low : b \in Range(bars)}),
     volume |-> FoldSeq(LAMBDA b, n : b.volume + n, 0, bars)]

Weekdays == SelectSeq([i \in 1 .. 53 |-> i - 1], LAMBDA d : d % 7 < 5)
LastDays == {51, 52}

Markets ==
    {LET Bars(d) == Session(d, IF d \in LastDays THEN f[d] ELSE 3, m, summer,
                            IF d = 52 THEN g ELSE {})
     IN  [minutes |-> m, summer |-> summer, hourly |-> Bars(51) \o Bars(52),
          daily |-> [i \in DOMAIN Weekdays |-> Daily(Weekdays[i], Bars(Weekdays[i]))]]
        : m \in {1, 4}, summer \in BOOLEAN, f \in [LastDays -> {2, 3, 6}],
          g \in {{}, {0, 1}, {6}}}

\* The same with other prices in the bars that end after a time.
Altered(bars, ends) ==
    [i \in DOMAIN bars |-> IF ends[i] THEN [bars[i] EXCEPT !.close = @ + 4, !.high = @ + 7, !.volume = @ + 5]
                           ELSE bars[i]]
After_(in, time) ==
    LET Close(b) == S!Day * S!DayOf(b.start) + S!SessionClose(in.summer)
    IN  [in EXCEPT
            !.hourly = Altered(@, [i \in DOMAIN @ |-> S!hourly_bar_end(@[i], in.minutes, in.summer) > time]),
            !.daily = Altered(@, [i \in DOMAIN @ |-> Close(@[i]) > time])]

Built(in, start, end) ==
    LET opt == [eod |-> TRUE, minutes |-> in.minutes,
                types |-> REPLACE_MARKET_TYPES \cup {"order_flow_imbalance", "buy_pressure", "sell_pressure"}]
        hourly == S!_by_symbol(in.hourly, start, end)
        daily == S!daily_download(in.daily, start, end, Lengths)
    IN  S!build_ticker_rows("T", hourly, daily, start, end, opt, in.summer, Lengths)
        \cup (IF in.minutes = 4
              THEN S!build_macro_rows(hourly, Etf, hourly, daily, start, end, in.summer, Lengths) ELSE {})
        \cup S!daily_bar_rows("T", daily, start, end)

-----------------------------------------------------------------------------

MCInit ==
    \/ about = "replay" /\ input = <<>> /\ Init /\ ToolsInit({<<>>})
    \/ about = "outage" /\ input \in Outages /\ Init /\ ToolsInit({<<>>})
    \/ about = "market" /\ input \in Markets /\ Init /\ ToolsInit({<<>>})
    \/ about = "rescore" /\ input = <<>> /\ Init /\ ToolsInit(Found)
    \/ about = "swap" /\ input = <<>> /\ Init /\ ToolsInit({<<>>})

MCNext ==
    /\ UNCHANGED <<about, input>>
    /\ \/ about = "replay" /\ Next /\ UNCHANGED <<toolVars, swapVars>>
       \/ about = "rescore" /\ ToolsNext /\ UNCHANGED <<vars, swapVars>>
       \/ about = "swap" /\ ToolsNext /\ UNCHANGED <<vars, toolVars>>

MCSpec == MCInit /\ [][MCNext]_mcVars

\* A rebuilt row is the row that the live tick would have written with the articles, in
\* its layer, its smoothed score and its surprise; its drivers too, where the original
\* had none of narrative to displace the others; and it never claims more confidence than
\* the tick would have, though less: news counts as stale beside a missing layer, and the
\* signals of the other layers are not known where there were few.  To rebuild once more
\* changes nothing.
RowsAreFaithful ==
    about = "outage" => N!AsTheTickWouldHave(input.others, input.articles, input.seed, Original(input), 3)

\* Signals are rebuilt as if at their time: a row is the same whatever the bars that end
\* after its mark and the sessions that close after it are, and those of two windows that
\* meet are those of both together, wherever they meet.  After the close the marks of the
\* day have the values of the end of the day.
SignalsAreFaithful ==
    about = "market" => \A all \in {Built(input, S!Day * 51, S!Day * 53)} :
          LET start == S!Day * 51
              end == S!Day * 53
              times == {S!Day * d + q : d \in LastDays, q \in {59, 80, 84, 86}}
              Until(rows_, time) == {r \in rows_ : r.mark <= time /\ r.mark % S!Day # 0}
              At(mark) == {<<r.type, r.value>> : r \in {x \in all : x.mark = mark /\ x.type \in REPLACE_MARKET_TYPES}}
          IN  /\ \A time \in times :
                    /\ Built(input, start, time) \cup Built(input, time, end) = all
                    /\ Until(Built(After_(input, time), start, end), time) = Until(all, time)
              /\ \A d \in LastDays : \A m \in S!intraday_marks(d, input.minutes) :
                    m >= S!Day * d + S!SessionClose(input.summer) => At(m) = At(S!eod_mark(d))

\* What is rebuilt of an outage is what would have been there without it.
RebuildIsFaithful == RowsAreFaithful /\ SignalsAreFaithful
=============================================================================
