--------------------------- MODULE MCServedScores ---------------------------
(***************************************************************************)
(* An instance of ServedScores: a symbol that stops trading, its successor *)
(* and a ticker that stays; the boards, with the statistics that a tick    *)
(* publishes for them; and the forms that one score takes.                 *)
(***************************************************************************)
EXTENDS ServedScores, MarketOverview, AnswersAlike, TLC

LOCAL INSTANCE Functions  \* Range

CONSTANTS Left, Heir, Other, Tech, Fin

Before(sector) ==
    [t \in {Left, Other} |-> [added |-> 1, delisted |-> Listed, successor |-> NoSymbol,
                              sp500 |-> TRUE, sector |-> sector]]

\* A behaviour is about the requests for a symbol, about the rows of the symbol that
\* retires, about the table alone, about the statistics of one board, or about the forms
\* of one score, so that the five do not multiply.  The last two need an input only.
NoInput == <<>>

\* Some tickers with scores, 1-day changes where there is a baseline, and sectors.
PartialFunctions(S, T) == UNION {[D -> T] : D \in SUBSET S}
Boards ==
    {b \in [scores : PartialFunctions(1 .. 4, {40, 50, 61}), changes : PartialFunctions(1 .. 4, {-3, 2}),
            sector_map : {<<>>, [t \in {1, 2} |-> Tech], [t \in 1 .. 4 |-> IF t = 4 THEN Fin ELSE Tech]}]
        : DOMAIN b.changes \subseteq DOMAIN b.scores}

\* A tick's computation, in half points: with and without a layer, with and without
\* drivers.
Computations ==
    {[timestamp |-> 5, effective |-> e, smoothed |-> s, exo |-> IF missing = {} THEN {e} ELSE None,
      ema_obs_count |-> 3, confidence |-> 7, flags |-> missing, as_of |-> "as_of",
      sub_indices |-> [l \in LAYERS |-> IF l \in missing THEN None ELSE {e}],
      drivers |-> IF missing = {} THEN <<[signal |-> "s", description |-> {"d"}]>> ELSE <<>>,
      divergence |-> "aligned"]
        : e \in {0, 1, 41, 99, 200}, s \in {0, 1, 83, 125, 200}, missing \in {{}, {"macro"}}}

\* The rows there were before: of a tick, or from before scores were smoothed.
EarlierRows ==
    {[timestamp |-> t, composite_score |-> e, composite_score_smoothed |-> s]
        : t \in 0 .. 4, e \in {1, 80}, s \in {None, {0}, {81}}}
Answers ==
    [computed : Computations, earlier : {{}} \cup {{a, b} : a, b \in EarlierRows},
     asked : {4, 5}, query : {"answered", "failed"}]

AboutTable ==
    /\ symbol = Left /\ reused = <<>>
    /\ universe \in {Before(s) : s \in {Tech, NoSector}}
    /\ constituents \in {Other :> Fin, (Other :> Fin) @@ (Heir :> Tech)}
    /\ changes \in {Left :> [last |-> 1, successor |-> s] : s \in {Heir, NoSymbol}}

\* The tables of a behaviour about rows or requests: Left retires in favour of Heir.
Usual ==
    /\ universe = Before(Tech) /\ constituents = (Other :> Fin)
    /\ changes = (Left :> [last |-> 1, successor |-> Heir])

MCInit ==
    /\ \/ about = "market" /\ input \in Boards /\ Usual /\ symbol = Left /\ reused = <<>>
       \/ about = "answer" /\ input \in Answers /\ Usual /\ symbol = Left /\ reused = <<>>
       \/ about = "table" /\ input = NoInput /\ AboutTable
       \/ about = "rows" /\ input = NoInput /\ Usual /\ symbol = Left /\ reused \in {<<>>, Left :> 2, Left :> 3}
       \/ about = "requests" /\ input = NoInput /\ Usual /\ symbol \in {Left, Heir} /\ reused = <<>>
    /\ Init

\* A behaviour about requests ends with its first answer and has one run of the tool; one
\* about rows publishes no statistics.
MCNext ==
    /\ UNCHANGED <<about, input>>
    /\ \/ about = "table" /\ (Tool \/ Pass)
       \/ about = "rows" /\ (Jobs \/ Tool \/ Pass) /\ UNCHANGED <<pct, xs>>
       \/ about = "requests" /\ req.stage # "done" /\ Next
          /\ runs' <= 1 /\ \A r \in rows' : r.kind = "score"

MCSpec == MCInit /\ [][MCNext]_<<vars, about, input>>

\* What is published of a board agrees with itself.  A percentile orders the tickers as
\* their scores do, in the universe and in a sector that has one; no ticker is a top and
\* a bottom mover, every top mover changed by at least as much as every bottom one, and
\* nobody left out changed by more than a top mover; the ranks of the sectors cover the
\* tickers that have one; and the summary names a mover once, speaks of a rise where more
\* rose than fell, and leads with no sector that has a lower average than another.
OverviewIsConsistent ==
    LET o == build_overview(input.scores, input.changes, input.sector_map)
        said == build_summary(o)
        tops == Range(o.top_movers)
        bottoms == Range(o.bottom_movers)
        Average(s, t) == o.sectors[s].total * Len(o.sectors[t].tickers)
    IN  about = "market" =>
        /\ RanksOrder(input.scores, input.sector_map, input.changes)
        /\ tops \cap bottoms = {} /\ Cardinality(tops) = Cardinality(bottoms)
        /\ \A s \in tops, t \in DOMAIN input.changes \ tops : input.changes[s] >= input.changes[t]
        /\ \A s \in bottoms, t \in DOMAIN input.changes \ bottoms : input.changes[s] <= input.changes[t]
        /\ UNION {Range(o.sectors[s].tickers) : s \in DOMAIN o.sectors}
              = DOMAIN input.scores \cap DOMAIN input.sector_map
        /\ Cardinality(Range(said.movers)) = Len(said.movers)
        /\ said.breadth = "improving" =>
              \E t \in DOMAIN input.changes : input.changes[t] > 0
        /\ \A s \in Range(said.leaders), t \in DOMAIN o.sectors :
              Len(said.leaders) = 1 => Average(s, t) >= Average(t, s)
=============================================================================
