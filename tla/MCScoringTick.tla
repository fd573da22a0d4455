--------------------------- MODULE MCScoringTick ---------------------------
(***************************************************************************)
(* Small instances of ScoringTick for TLC.  Only a has a close price, so   *)
(* the tickers are not interchangeable and no symmetry is declared.        *)
(***************************************************************************)
EXTENDS ScoringTick

CONSTANTS a, b

TwoTickers == {a, b}
OnlyA == {a}

\* Market hours cover every other time unit, the first one included.
OddTimes == {1, 3, 5, 7, 9}
=============================================================================
