--------------------------- MODULE MarketOverview ---------------------------
(***************************************************************************)
(* The overview of the universe that a tick computes from the scores in    *)
(* its memory (pipeline/scoring/market_overview.py), and what the summary  *)
(* of it says (market_summary.py).  An average stays a sum and a count.    *)
(* Among equal scores the order is arbitrary.                              *)
(***************************************************************************)
EXTENDS CrossSection
LOCAL INSTANCE SequencesExt

CONSTANT N_MOVERS  \* _N_MOVERS

ASSUME OverviewAssumption == N_MOVERS \in Nat \ {0}

Total(f) == FoldFunction(+, 0, f)
Descending(S, f) == SetToSortSeq(S, LAMBDA s, t : f[s] > f[t])

\* The sectors of the tickers of f.
SectorsOf(f, sector_map) == {sector_map[t] : t \in DOMAIN f \cap DOMAIN sector_map}

\* Fault: with few changes a ticker is both a top and a bottom mover.
FaultMovers(changes) == IF Cardinality(DOMAIN changes) < N_MOVERS
                        THEN Cardinality(DOMAIN changes) ELSE N_MOVERS

\* How many movers are named at each end.
n_movers(changes) ==
    LET half == Cardinality(DOMAIN changes) \div 2 IN IF half < N_MOVERS THEN half ELSE N_MOVERS

build_overview(scores, changes, sector_map) ==
    LET n == Cardinality(DOMAIN scores)
        known == DOMAIN changes \cap DOMAIN scores
        ranked == Descending(known, changes)
        k == n_movers(On(changes, known))
        improving == Cardinality({t \in known : changes[t] > 0})
    IN  [universe_scored |-> n, total |-> Total(scores),
         above_50 |-> Cardinality({t \in DOMAIN scores : scores[t] > 50}),
         improving |-> IF known = {} THEN Missing ELSE tenths(improving, Cardinality(known)),
         top_movers |-> SubSeq(ranked, 1, k),
         bottom_movers |-> Reverse(SubSeq(ranked, Len(ranked) - k + 1, Len(ranked))),
         sectors |-> [s \in SectorsOf(scores, sector_map) |->
                        LET members == InSector(scores, sector_map, s)
                        IN  [total |-> Total(On(scores, members)),
                             tickers |-> Descending(members, scores)]]]

-----------------------------------------------------------------------------
(* The summary.                                                            *)

\* The mood of an average, by its lower bound; the first two bounds below
\* neutral are exclusive.
mood(total, n) ==
    CASE total >= 65 * n -> "strongly bullish"
      [] total >= 58 * n /\ total < 65 * n -> "bullish"
      [] total >= 53 * n /\ total < 58 * n -> "mildly bullish"
      [] total > 47 * n /\ total < 53 * n -> "neutral"
      [] total > 42 * n /\ total <= 47 * n -> "mildly bearish"
      [] total > 35 * n /\ total <= 42 * n -> "bearish"
      [] total <= 35 * n -> "strongly bearish"

\* The clause on breadth, whose shares are rounded to tenths.
breadth(o) == CASE o.improving >= 550 -> "improving"
                [] o.improving # Missing /\ o.improving <= 450 -> "weakening"
                [] OTHER -> "plain"

\* The sectors by average, and how many of them lead.
RankedSectors(o) ==
    SetToSortSeq(DOMAIN o.sectors, LAMBDA r, s :
        o.sectors[r].total * Len(o.sectors[s].tickers) > o.sectors[s].total * Len(o.sectors[r].tickers))
leaders(o) == LET ranked == RankedSectors(o)
              IN  IF Len(ranked) < 2 THEN <<>> ELSE SubSeq(ranked, 1, IF Len(ranked) >= 4 THEN 2 ELSE 1)

\* The movers that are named: the first of each end, once.
movers_sentence(o) ==
    LET First(s) == IF s = <<>> THEN <<>> ELSE <<Head(s)>>
        top == First(o.top_movers)
        bottom == First(o.bottom_movers)
    IN  IF bottom = top THEN top ELSE top \o bottom

build_summary(o) ==
    IF o.universe_scored = 0 THEN [mood |-> "none", breadth |-> "none", leaders |-> <<>>, movers |-> <<>>]
    ELSE [mood |-> mood(o.total, o.universe_scored), breadth |-> breadth(o),
          leaders |-> leaders(o), movers |-> movers_sentence(o)]

=============================================================================
