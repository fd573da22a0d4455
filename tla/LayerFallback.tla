---------------------------- MODULE LayerFallback ----------------------------
(***************************************************************************)
(* How a tick gets the four layers of one ticker: from the rows of a       *)
(* window, or, when they do not make a sub-index, from the state that the  *)
(* previous tick published, which stands for as long as the timestamp that *)
(* was copied along with it (its as_of) is recent enough.  A kind of row   *)
(* is a signal type or a class of articles; of each kind only the newest   *)
(* row matters here.  Trading sessions are given as a set of openings and  *)
(* closings, in which weekends leave gaps.                                 *)
(***************************************************************************)
EXTENDS ScoreFormulas, FiniteSets

CONSTANTS Horizon,                \* bound on the clock
          Day,                    \* length of a calendar day
          Sessions,               \* set of [open, close] of the trading sessions
          EOD_GRACE,              \* how long before a close its session's data count as final
          SignalAge,              \* component -> max_age_minutes of its rule
          MARKET_LOOKBACK,        \* window of market rows in a session
          LAYER_LOOKBACK,         \* layer other than market -> how old an as_of the fallback accepts
          SCORE_LOOKBACK,         \* layer other than market -> window of rows it is scored from
          STALENESS_THRESHOLDS,   \* source -> age at which it is flagged
          Late,                   \* how long after its timestamp a row may arrive
          Feeds                   \* what may be delivered: sets of kinds, with the time of the first

VARIABLES now,     \* the clock
          fed,     \* the kinds that providers deliver in this behaviour
          rows,    \* kind -> timestamp of its newest row, or None
          priced,  \* whether a close of the ticker is stored
          last,    \* the published state, which the next tick reads back
          heard    \* the layers for which something arrived since (history variable)

vars == <<now, fed, rows, priced, last, heard>>

Times == 0 .. Horizon
Stamp == Times \cup {None}

Sources == {"market", "news", "analyst", "insider", "macro"}
_LAYER_SOURCES == [market |-> {"market"}, narrative |-> {"news"},
                   influencer |-> {"analyst", "insider"}, macro |-> {"macro"}]

\* The components of the market layer, then what the other layers are scored from.
Components == {"returns", "momentum", "order_flow", "liquidity", "short_volume", "volume"}
Articles == {"usable_article", "other_article"}
Opinions == {"consensus", "target"}
Influence == Opinions \cup {"insider_trade", "estimate", "revision"}
Indicators == {"vix", "sector_etf"}
Kinds == Components \cup Articles \cup Influence \cup Indicators

KindsOf == [market |-> Components, narrative |-> Articles,
            influencer |-> Influence, macro |-> Indicators]
LayerOf(k) == CHOOSE l \in Layers : k \in KindsOf[l]

Closes == {s.close : s \in Sessions}

LayerAssumption ==
    /\ Horizon \in Nat /\ Day \in Nat \ {0} /\ EOD_GRACE \in Nat /\ Late \in Nat
    /\ Sessions \subseteq [open : Int, close : Int]
    /\ SignalAge \in [Components -> Nat]
    /\ MARKET_LOOKBACK \in Nat
    /\ LAYER_LOOKBACK \in [Layers \ {"market"} -> Nat]
    /\ SCORE_LOOKBACK \in [Layers \ {"market"} -> Nat]
    /\ STALENESS_THRESHOLDS \in [Sources -> Nat]
    /\ \A l \in Layers \ {"market"} : \A s \in _LAYER_SOURCES[l] :
          LAYER_LOOKBACK[l] <= STALENESS_THRESHOLDS[s]
    /\ Feeds \subseteq [kinds : SUBSET Kinds, from : Times] /\ Feeds # {}
ASSUME LayersAssumed == LayerAssumption

\* The calendar: there has always been a session, each is longer than the grace, and
\* what is left of one is stale in the next.
CalendarAssumption ==
    /\ \A t \in Times : \E c \in Closes : c <= t /\ \A x \in Closes : x <= t => x <= c
    /\ \A s \in Sessions : s.open + EOD_GRACE <= s.close
    /\ \A s \in Sessions, c \in Closes : c < s.close => c + STALENESS_THRESHOLDS["market"] < s.open
ASSUME CalendarAssumed == CalendarAssumption

\* The thresholds fit together: a row that counts as final at a close is within its age and
\* within the window just before it, and no row of a session outlives the layer it is for.
ThresholdAssumption ==
    /\ \A k \in Components \ {"short_volume"} :
          EOD_GRACE <= SignalAge[k] /\ SignalAge[k] <= STALENESS_THRESHOLDS["market"]
    /\ EOD_GRACE <= MARKET_LOOKBACK /\ MARKET_LOOKBACK <= STALENESS_THRESHOLDS["market"]
ASSUME ThresholdsAssumed == ThresholdAssumption

-----------------------------------------------------------------------------
(* The trading calendar.                                                   *)

is_market_hours(t) == \E s \in Sessions : s.open <= t /\ t < s.close

last_close(t) == CHOOSE c \in Closes : c <= t /\ \A x \in Closes : x <= t => x <= c

open_of(c) == (CHOOSE s \in Sessions : s.close = c).open

_market_stale(ts, t) ==
    IF is_market_hours(t) THEN t - ts > STALENESS_THRESHOLDS["market"]
    ELSE ts < last_close(t) - EOD_GRACE

\* The file of short volumes that should be there is that of the last session before today.
_short_volume_stale(ts, t) == ts < last_close((t \div Day) * Day) - EOD_GRACE

\* Fault: outside a session a row is judged by an age that bridges a weekend.
FaultStaleByAge(k, ts, t) ==
    t - ts > IF is_market_hours(t) THEN SignalAge[k] ELSE 3 * Day

signal_is_stale(k, ts, t) ==
    CASE k = "short_volume" -> _short_volume_stale(ts, t)
      [] k # "short_volume" /\ is_market_hours(t) -> t - ts > SignalAge[k]
      [] k = "liquidity" /\ ~is_market_hours(t) -> TRUE
      [] OTHER -> ts < last_close(t) - EOD_GRACE

market_lookback_since(t) ==
    IF is_market_hours(t) THEN t - MARKET_LOOKBACK ELSE open_of(last_close(t))

-----------------------------------------------------------------------------
(* A layer from its rows: the newest timestamp among those read (asOf) and *)
(* the oldest of the rows it stands on (data); Nothing if too few are      *)
(* usable.                                                                 *)

Newest(K) == IF K = {} THEN None
             ELSE CHOOSE ts \in {rows[k] : k \in K} : \A k \in K : rows[k] <= ts
Oldest(K) == CHOOSE ts \in {rows[k] : k \in K} : \A k \in K : ts <= rows[k]

Since(K, ts) == {k \in K : rows[k] # None /\ ts <= rows[k]}
InWindow(l) == Since(KindsOf[l], now - SCORE_LOOKBACK[l])

Nothing == [asOf |-> None, data |-> None]
Made(read, used) == [asOf |-> Newest(read), data |-> Oldest(used)]

FreshComponents ==
    {k \in Since(Components, market_lookback_since(now)) : ~signal_is_stale(k, rows[k], now)}

_score_market ==
    IF Cardinality(FreshComponents) <= 1 THEN Nothing ELSE Made(FreshComponents, FreshComponents)

\* Of the articles, those with a score and of sufficient relevance.
_score_narrative ==
    IF "usable_article" \in InWindow("narrative")
    THEN Made(InWindow("narrative"), {"usable_article"}) ELSE Nothing

\* A target needs a price to be compared with, an estimate one before it.
UsableInfluence ==
    {k \in InWindow("influencer") : k # "estimate" /\ (k = "target" => priced)}

_score_influencer ==
    IF UsableInfluence = {} THEN Nothing ELSE Made(InWindow("influencer"), UsableInfluence)

_score_macro ==
    IF InWindow("macro") = {} THEN Nothing ELSE Made(InWindow("macro"), InWindow("macro"))

Fresh == [market |-> _score_market, narrative |-> _score_narrative,
          influencer |-> _score_influencer, macro |-> _score_macro]

-----------------------------------------------------------------------------
(* A layer from the previous state.                                        *)

Expired(l, ts) == IF l = "market" THEN _market_stale(ts, now) ELSE now - ts > LAYER_LOOKBACK[l]

_fallback_subindex(l) ==
    IF last.asOf[l] = None \/ Expired(l, last.asOf[l]) THEN Nothing
    ELSE [asOf |-> last.asOf[l], data |-> last.data[l]]

LayerResult(l) == IF Fresh[l] # Nothing THEN Fresh[l] ELSE _fallback_subindex(l)

Carried == {l \in Layers : Fresh[l] = Nothing /\ _fallback_subindex(l) # Nothing}
Missing == {l \in Layers : LayerResult(l) = Nothing}

-----------------------------------------------------------------------------
(* Which sources are flagged as stale.                                     *)

\* The influencer layer has two sources, dated separately unless it is carried over.
SourceAsOf(s) ==
    CASE s = "market" -> LayerResult("market").asOf
      [] s = "news" -> LayerResult("narrative").asOf
      [] s = "macro" -> LayerResult("macro").asOf
      [] s \in {"analyst", "insider"} /\ Fresh["influencer"] = Nothing -> last.asOf["influencer"]
      [] s = "analyst" /\ Fresh["influencer"] # Nothing -> Newest(InWindow("influencer") \cap Opinions)
      [] s = "insider" /\ Fresh["influencer"] # Nothing ->
            Newest(InWindow("influencer") \cap {"insider_trade"})

check_staleness(s) ==
    \/ SourceAsOf(s) = None
    \/ /\ SourceAsOf(s) # None
       /\ IF s = "market" THEN _market_stale(SourceAsOf(s), now)
          ELSE now - SourceAsOf(s) > STALENESS_THRESHOLDS[s]

\* Fault: the flags of a missing layer's sources stay.
FaultFlagged == {s \in Sources : check_staleness(s)}

Flagged == {s \in Sources : check_staleness(s) /\ \A l \in Missing : s \notin _LAYER_SOURCES[l]}

-----------------------------------------------------------------------------
(* Actions.                                                                *)

NoState == [at |-> None, asOf |-> [l \in Layers |-> None], data |-> [l \in Layers |-> None],
            carried |-> {}, flagged |-> {}]

Init ==
    /\ \E f \in Feeds : now = f.from /\ fed = f.kinds
    /\ rows = [k \in Kinds |-> None] /\ priced = FALSE
    /\ last = NoState /\ heard = {}

\* Rows of the kinds K with one timestamp, which also matter to the layers in others.
Arrive(K, ts, others) ==
    /\ K # {} /\ K \subseteq fed
    /\ \E k \in K : rows[k] < ts
    /\ rows' = [k \in Kinds |-> IF k \in K /\ rows[k] < ts THEN ts ELSE rows[k]]
    /\ heard' = heard \cup {LayerOf(k) : k \in K} \cup others
    /\ UNCHANGED <<now, fed, last>>

\* A run of the market job has a bar or not, and in a session a quote or not.  With a bar
\* it computes what needs one; the index of momentum can be had from recent closes alone.
\* The first bar is also the price that a stored target is compared with.
_run_market ==
    \E bar, quote \in BOOLEAN :
        /\ quote => is_market_hours(now)
        /\ Arrive(fed \cap ((IF bar THEN {"order_flow", "returns", "volume", "momentum"}
                             ELSE IF priced THEN {"momentum"} ELSE {})
                            \cup IF quote THEN {"liquidity"} ELSE {}), now,
                  IF bar /\ ~priced THEN {"influencer"} ELSE {})
        /\ priced' = (priced \/ bar)

\* The file of short volumes carries the close of its day.
ingest_short_volume ==
    /\ \E c \in Closes \cap Times : c <= now /\ Arrive({"short_volume"}, c, {})
    /\ UNCHANGED priced

\* A run of the narrative, influencer or macro job: articles, insiders' trades and
\* indicators are dated by their provider, what the analysts think by the run.
Deliver(k) ==
    /\ k \in Kinds \ Components
    /\ \E ts \in Times : /\ now - Late <= ts /\ ts <= now
                         /\ k \in Influence \ {"insider_trade"} => ts = now
                         /\ Arrive({k}, ts, {})
    /\ UNCHANGED priced

\* The closes of two years are backfilled for a ticker that has none.
LoadCloses ==
    /\ ~priced /\ priced' = TRUE
    /\ heard' = heard \cup {"influencer"}
    /\ UNCHANGED <<now, fed, rows, last>>

\* Fault: the as_of of a layer that is carried over is the time of the tick.
FaultState ==
    [at |-> now,
     asOf |-> [l \in Layers |-> IF l \in Carried THEN now ELSE LayerResult(l).asOf],
     data |-> [l \in Layers |-> LayerResult(l).data],
     carried |-> Carried, flagged |-> Flagged]

\* What the next tick can read of this one, and what confidence is computed from.
State ==
    [at |-> now,
     asOf |-> [l \in Layers |-> LayerResult(l).asOf],
     data |-> [l \in Layers |-> LayerResult(l).data],
     carried |-> Carried, flagged |-> Flagged]

compute_scored_state ==
    /\ last' = State /\ heard' = {}
    /\ UNCHANGED <<now, fed, rows, priced>>

\* The key expires, or Redis loses it.
LoseState ==
    /\ last # NoState /\ last' = NoState
    /\ UNCHANGED <<now, fed, rows, priced, heard>>

\* The windows only move forward: a row that has left them, and is stale by its own rule,
\* is not kept in the model's state.
Behind(k, t) ==
    IF k \in Components THEN rows[k] < market_lookback_since(t) /\ signal_is_stale(k, rows[k], t)
    ELSE rows[k] < t - SCORE_LOOKBACK[LayerOf(k)]

Pass ==
    /\ now < Horizon /\ now' = now + 1
    /\ rows' = [k \in Kinds |-> IF rows[k] # None /\ Behind(k, now + 1) THEN None ELSE rows[k]]
    /\ UNCHANGED <<fed, priced, last, heard>>

Next ==
    \/ _run_market \/ ingest_short_volume \/ LoadCloses
    \/ \E k \in Kinds : Deliver(k)
    \/ compute_scored_state \/ LoseState \/ Pass

Spec == Init /\ [][Next]_vars

-----------------------------------------------------------------------------
(* Properties.                                                             *)

TypeOK ==
    /\ now \in Times /\ fed \in SUBSET Kinds
    /\ rows \in [Kinds -> Stamp] /\ priced \in BOOLEAN
    /\ last \in [at : Stamp, asOf : [Layers -> Stamp], data : [Layers -> Stamp],
                 carried : SUBSET Layers, flagged : SUBSET Sources]
    /\ heard \subseteq Layers

\* However many ticks copy a layer from one another, what a published layer stands on is
\* no older than the window it was scored from and the lookback of the fallback together;
\* a market layer never reaches back beyond the last stretch of the last session that is over.
ValuesRunOut ==
    /\ \A l \in Layers \ {"market"} :
          last.data[l] # None => last.at - last.data[l] <= SCORE_LOOKBACK[l] + LAYER_LOOKBACK[l]
    /\ last.data["market"] # None =>
          last.data["market"] >= last_close(last.at) - EOD_GRACE - MARKET_LOOKBACK

\* A layer that a tick has lost does not come back with a later tick unless something has
\* arrived for it: no row that was too old becomes recent enough again, whatever session
\* begins or ends in between.
StaleStaysMissing ==
    [][last.at # None /\ last'.at # None =>
          \A l \in Layers : last.data[l] = None /\ last'.data[l] # None => l \in heard]_vars

\* One absence costs confidence once: no source of a missing layer is flagged beside it,
\* and a layer that the fallback still accepts is not flagged as stale.
AbsenceIsChargedOnce ==
    \A l \in Layers : last.data[l] = None \/ l \in last.carried =>
        last.flagged \cap _LAYER_SOURCES[l] = {}
=============================================================================
