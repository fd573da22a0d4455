---------------------------- MODULE CrossSection ----------------------------
(***************************************************************************)
(* The ranks that a tick gives the tickers by the scores in its memory     *)
(* (pipeline/scoring/market_overview.py), in the universe and in their     *)
(* sectors.  Scores are integers and percentiles are tenths.  exo and      *)
(* sector_map are partial: they hold the tickers for which the code has a  *)
(* value.                                                                  *)
(***************************************************************************)
EXTENDS Integers, FiniteSets

CONSTANT MIN_SECTOR_SIZE  \* _MIN_SECTOR_SIZE

ASSUME CrossSectionAssumption == MIN_SECTOR_SIZE \in Nat \ {0}

Missing == -1  \* None: percentiles and averages are not negative

On(f, S) == [t \in S |-> f[t]]

\* The tickers of f in a sector.
InSector(f, sector_map, s) == {t \in DOMAIN f \cap DOMAIN sector_map : sector_map[t] = s}

\* a of n as a percentage, rounded to tenths: ties go to the even neighbour.
tenths(a, n) == LET below == (1000 * a) \div n
                    rest == (1000 * a) % n
                IN  IF 2 * rest < n \/ (2 * rest = n /\ below % 2 = 0) THEN below ELSE below + 1

\* Whom a ticker ranks above.
Lower(scores, t) == {s \in DOMAIN scores : scores[s] < scores[t]}

compute_percentiles(scores) ==
    LET n == Cardinality(DOMAIN scores)
    IN  [t \in DOMAIN scores |->
            IF n = 1 THEN 500 ELSE tenths(Cardinality(Lower(scores, t)), n - 1)]

\* Whether there is a z-score: two tickers that differ.
has_z(raw) == \E s, t \in DOMAIN raw : raw[s] # raw[t]

\* The rank within the sector, where it says something.
sector_pctl(raw, sector_map, t) ==
    LET members == IF t \in DOMAIN sector_map THEN InSector(raw, sector_map, sector_map[t]) ELSE {}
    IN  IF Cardinality(members) < MIN_SECTOR_SIZE THEN Missing
        ELSE compute_percentiles(On(raw, members))[t]

compute_cross_sectional(raw, sector_map, exo) ==
    [t \in DOMAIN raw |->
        [has_z |-> has_z(raw), raw_pctl |-> compute_percentiles(raw)[t],
         sector_pctl |-> sector_pctl(raw, sector_map, t),
         exo_pctl |-> IF t \in DOMAIN exo THEN compute_percentiles(exo)[t] ELSE Missing]]

-----------------------------------------------------------------------------
(* A property of the statistics of any scores.                             *)

\* A percentile orders the tickers as their scores do, in the universe and in a sector
\* that has one, and is no more than 100.
RanksOrder(raw, sector_map, exo) ==
    LET stats == compute_cross_sectional(raw, sector_map, exo)
    IN  \A s, t \in DOMAIN raw :
          /\ stats[s].raw_pctl \in Nat /\ stats[s].raw_pctl <= 1000
          /\ raw[s] < raw[t] <=> stats[s].raw_pctl < stats[t].raw_pctl
          /\ (/\ {s, t} \subseteq DOMAIN sector_map
              /\ sector_map[s] = sector_map[t]
              /\ stats[s].sector_pctl # Missing)
             => /\ stats[s].sector_pctl \in Nat /\ stats[s].sector_pctl <= 1000
                /\ raw[s] < raw[t] <=> stats[s].sector_pctl < stats[t].sector_pctl
=============================================================================
