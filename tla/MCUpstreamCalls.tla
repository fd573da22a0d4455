--------------------------- MODULE MCUpstreamCalls ---------------------------
(***************************************************************************)
(* An instance of what comes in and how long it is kept: UpstreamCalls     *)
(* with a job of two fetches and one of a single fetch that share a        *)
(* semaphore, the formulas of SourceFormulas over small inputs, and        *)
(* Retention.  A behaviour is about one of them, so that they do not       *)
(* multiply.                                                               *)
(***************************************************************************)
EXTENDS UpstreamCalls, SourceFormulas, Retention, TLC

CONSTANTS Narrative, Influencer, A, B, C

SomeJobs == {Narrative, Influencer}
SomeFetches == Narrative :> <<A, B>> @@ Influencer :> <<C>>

VARIABLES about, input

Closes == UNION {[1 .. n -> 1 .. 4] : n \in 2 .. 5}
\* A history of twenty sessions, made of the closes.
Month(closes) == [i \in 1 .. 20 |-> closes[1 + (i % Len(closes))]]
Bars == {[low |-> 1, high |-> h, close |-> c, volume |-> v] : h \in 1 .. 3, c \in 1 .. 3, v \in {0, 7}}
Quotes == {None, 0, 3, 4, 5} \X {None, 0, 3, 4, 5}

\* One side of a chain: some strikes, with a placeholder or one of three real volatilities.
Strikes == {90, 95, 105}
Sides == UNION {[S -> {1, 25, 30, 36}] : S \in SUBSET Strikes}
SideOf(f, depth) == {[strike |-> k, iv |-> f[k], volume |-> depth, oi |-> 2 * depth] : k \in DOMAIN f}
Chains == {[calls |-> SideOf(f, 25), puts |-> SideOf(g, d)] : f, g \in Sides, d \in {10, 25}}

\* A day of short volume, today first: whether it is a weekend, and the files that are there.
File(n) == A :> [short |-> n, total |-> 2 * n]
Days == [weekend : BOOLEAN, cnms : {<<>>, File(3)},
         trfs : {<<>>, <<File(1)>>, <<File(1), File(2) @@ B :> [short |-> 1, total |-> 1]>>}]

Pages == UNION {[1 .. n -> {None, 4, 5}] : n \in 0 .. 2}

\* Answers about VIX and three ETFs, and about a ticker's insiders and analysts.
Quote == [note : BOOLEAN, price : {None, 0, 9}]
MacroAnswers == [vix : [yfinance : {None, NaN, 0, 17}, finnhub : {None, 0, 18}, av : Quote],
                 etfs : [1 .. 3 -> Quote]]
Period(s, b, h) == [strongBuy |-> s, buy |-> b, hold |-> h, sell |-> 0, strongSell |-> h]
InfluencerAnswers ==
    [insider : SUBSET [change : {None, 0, 2}, date : {None, 1}],
     periods : {<<>>, <<Period(0, 0, 0)>>, <<Period(2, 1, 0)>>, <<Period(0, 0, 1), Period(2, 1, 0)>>},
     target : {None, NaN, 0, 12}, eps : {{}, {NaN}, {0}, {-4}}]

Inputs ==
         {[kind |-> "closes", of |-> c] : c \in Closes}
    \cup {[kind |-> "quote", of |-> q] : q \in Quotes}
    \cup {[kind |-> "macro", of |-> a] : a \in MacroAnswers}
    \cup {[kind |-> "influencer", of |-> a] : a \in InfluencerAnswers}
    \cup {[kind |-> "bar", of |-> b] : b \in {x \in Bars : x.close <= x.high}}
    \cup {[kind |-> "chain", of |-> c] : c \in Chains}
    \cup {[kind |-> "days", of |-> d] : d \in Days \X Days}
    \cup {[kind |-> "pages", of |-> p] : p \in Pages \X Pages}

Empty == [kind |-> "none", of |-> <<>>]

MCInit ==
    /\ Init /\ RetentionInit
    /\ \/ about \in {"calls", "history"} /\ row.type = "bid" /\ input = Empty
       \/ about = "row" /\ input = Empty
       \/ about = "input" /\ row.type = "bid" /\ input \in Inputs

\* A behaviour about the history has one run of the job.
MCNext ==
    /\ UNCHANGED <<about, input>>
    /\ \/ about = "calls" /\ Next /\ UNCHANGED kept
       \/ about = "row" /\ UNCHANGED <<vars, hist>> /\ (Day \/ Purge \/ Compact \/ Fails \/ CutShort)
       \/ about = "history" /\ RetentionNext /\ row'.age <= 2 /\ UNCHANGED vars

Spec == MCInit /\ [][MCNext]_<<vars, kept, about, input>> /\ Fairness

-----------------------------------------------------------------------------
\* A day of the usual volume has the ratio 1.
VolumeIsSound(volume) ==
    LET usual == _compute_volume_ratio(volume, [i \in 1 .. 20 |-> volume]) IN usual.num = usual.den

\* What one provider fails to answer costs only its own rows.  VIX is of the first source
\* that answers, whatever the later ones say, and missing only if none does, where a 0 of
\* Finnhub is no answer and every 0 of the others is one.  It is NaN only from yfinance.
Other(rows, kind) == {r \in rows : r[1] # kind}
MacroIsSound(a) ==
    LET silent == [note |-> FALSE, price |-> None]
        out == _run_macro(a)
    IN  /\ \A i \in DOMAIN a.etfs : _run_macro([a EXCEPT !.etfs[i] = silent]) = Other(out, etfs[i])
        /\ \A v \in [yfinance : {None, NaN, 0, 17}, finnhub : {None, 0, 18}, av : {silent, a.vix.av}] :
              /\ Other(_run_macro([a EXCEPT !.vix = v]), "vix") = Other(out, "vix")
              /\ v.yfinance = a.vix.yfinance /\ v.yfinance # None => _run_macro([a EXCEPT !.vix = v]) = out
        /\ (\A r \in out : r[1] # "vix") <=>
              a.vix.yfinance = None /\ a.vix.finnhub \in {None, 0} /\ (a.vix.av.note \/ a.vix.av.price = None)
        /\ \A r \in out : r[2] = NaN => r[1] = "vix" /\ a.vix.yfinance = NaN

\* So it is for a ticker; of its values none but the target price is ever NaN, and every
\* transaction with a date is told, whether it says how many shares changed hands or not.
InfluencerIsSound(a) ==
    LET out == _run_influencer(a)
    IN  /\ _run_influencer([a EXCEPT !.insider = {}]) = Other(out, "insider_net_shares")
        /\ _run_influencer([a EXCEPT !.periods = <<>>]) = Other(out, "analyst_buy_pct")
        /\ _run_influencer([a EXCEPT !.target = None]) = Other(out, "analyst_target_price")
        /\ _run_influencer([a EXCEPT !.eps = {}]) = Other(out, "analyst_eps_estimate_mean")
        /\ \A r \in out : r[1] = "analyst_buy_pct" => LessEq(Ratio(0, 1), r[2]) /\ LessEq(r[2], Ratio(1, 1))
        /\ \A r \in out : r[1] # "analyst_buy_pct" /\ r[2] = NaN => r[1] = "analyst_target_price" /\ a.target = NaN
        /\ {t.date : t \in a.insider} \ {None} = {r[3] : r \in {x \in out : x[1] = "insider_net_shares"}}

\* Both ratios exist for a chain or for neither of it and its mirror image, in which they
\* are inverted; a volatility or a skew lies within the volatilities that are real.
ChainIsSound(c) ==
    LET s == derive_options_signals(c.calls, c.puts, 100)
        m == derive_options_signals(c.puts, c.calls, 100)
        real == {_sane_iv(x.iv) : x \in c.calls \cup c.puts} \ {None}
    IN  /\ (s.pcr_volume = NoRatio) = (m.pcr_volume = NoRatio)
        /\ s.pcr_volume # NoRatio => s.pcr_volume.num * m.pcr_volume.num = s.pcr_volume.den * m.pcr_volume.den
        /\ (s.pcr_oi = NoRatio) = (m.pcr_oi = NoRatio)
        /\ s.atm_iv_30d # NoRatio =>
              LessEq(Ratio(Min(real), 1), s.atm_iv_30d) /\ LessEq(s.atm_iv_30d, Ratio(Max(real), 1))
        /\ \A skew \in s.iv_skew_25d : Distance(skew, 0) <= Max(real) - Min(real)

\* The short volume that is stored is of the newest weekday for which a file is there, of
\* symbols of the universe, and no more of it is short than was traded.
ShortVolumeIsSound(days) ==
    LET stored == ingest_short_volume(days, {A})
        Has(o) == ~days[o].weekend /\ (days[o].cnms # <<>> \/ days[o].trfs # <<>>)
    IN  /\ DOMAIN stored \subseteq {A}
        /\ Has(1) => stored = ingest_short_volume(<<days[1]>>, {A}) /\ stored # <<>>
        /\ ~Has(1) /\ Has(2) => stored = ingest_short_volume(<<days[2]>>, {A}) /\ stored # <<>>
        /\ \A t \in DOMAIN stored : LessEq(stored[t], Ratio(1, 1))

\* A series is blank only if neither page has a value, and a padded head hides none.
FredIsSound(pages) ==
    LET v == FredValue(pages[1], pages[2])
        real == SelectSeq(pages[1] \o pages[2], LAMBDA x : x # None)
    IN  v = IF real = <<>> THEN None ELSE real[1]

\* What a source computes is on its scale and absent where it cannot be told, it is of the
\* newest that the provider gave, and what is missing or malformed in one answer costs no
\* other value.  A VIX or a target price that yfinance has as NaN is passed on as it is.
ValuesAreSound ==
    CASE input.kind = "closes" ->
            /\ RsiIsSound(input.of, 2, 5) /\ ReturnsAreSound(input.of, Month(input.of))
            /\ VolumeIsSound(input.of[1])
      [] input.kind = "quote" -> SpreadIsSound(input.of[1], input.of[2])
      [] input.kind = "macro" -> MacroIsSound(input.of)
      [] input.kind = "influencer" -> InfluencerIsSound(input.of)
      [] input.kind = "bar" -> FlowIsSound(input.of)
      [] input.kind = "chain" -> ChainIsSound(input.of)
      [] input.kind = "days" -> ShortVolumeIsSound(input.of)
      [] input.kind = "pages" -> FredIsSound(input.of)
      [] OTHER -> TRUE
=============================================================================
