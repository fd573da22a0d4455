--------------------------- MODULE AnswerFormats ---------------------------
(***************************************************************************)
(* The shapes that one score takes: the state that a tick publishes        *)
(* (pipeline/orchestrator.py), the row it records                          *)
(* (pipeline/persistence/pg_writer.py), the state that the API makes of    *)
(* that row when Redis has none, and the answers and history entries made  *)
(* of them (api/response/assembler.py, api/routes/history.py).             *)
(*                                                                         *)
(* A value that may be None is a set with at most one element.  Scores are *)
(* in half points, which are what int(round(...)) has to decide; other     *)
(* values are opaque.                                                      *)
(***************************************************************************)
EXTENDS Integers, Sequences

LAYERS == {"market", "narrative", "influencer", "macro"}

None == {}

\* Python's "a or b", which takes 0 for None; and the explicit check for None.
either(a, b) == IF a \subseteq {0} THEN b ELSE a
given(a, b) == IF a = None THEN b ELSE a

\* int(round(...)): ties go to the even neighbour.
int_round(h) == LET below == h \div 2
                IN  IF h % 2 = 0 \/ below % 2 = 0 THEN below ELSE below + 1

score_to_label(s) == CASE s <= 20 -> "Strongly Bearish"
                       [] s > 20 /\ s <= 40 -> "Bearish"
                       [] s > 40 /\ s <= 60 -> "Neutral"
                       [] s > 60 /\ s <= 80 -> "Bullish"
                       [] s > 80 -> "Strongly Bullish"

-----------------------------------------------------------------------------
(* driver_codec.py.  A stored list has one format for all its entries.     *)

Verbose(list) == [format |-> "verbose", list |-> list]
is_compact(drivers) == drivers.list # <<>> /\ drivers.format = "compact"

\* An empty list stays what it is.
compact_drivers(drivers) ==
    IF drivers.list = <<>> THEN drivers
    ELSE [format |-> "compact",
          list |-> [i \in DOMAIN drivers.list |-> [drivers.list[i] EXCEPT !.description = None]]]
expand_drivers(drivers) == Verbose(drivers.list)

-----------------------------------------------------------------------------
(* Writing.                                                                *)

\* What compute_scored_state assembles of a computation c, given the baseline.
ScoredState(c, baseline) ==
    [timestamp |-> c.timestamp,
     composite_score |-> {c.smoothed}, composite_score_raw |-> {c.effective},
     composite_score_smoothed |-> {c.smoothed}, score_exo |-> c.exo,
     score_change_1d |-> {c.smoothed - b : b \in baseline},
     score_change_1d_pct |-> {<<c.smoothed - b, b>> : b \in baseline \ {0}},
     ema_obs_count |-> c.ema_obs_count, sub_indices |-> c.sub_indices,
     confidence |-> [score |-> c.confidence, flags |-> c.flags],
     top_drivers |-> Verbose(c.drivers), explanation |-> {"text"},
     freshness |-> c.as_of, divergence |-> c.divergence]

\* Fault: the table gets the smoothed score in both columns.
FaultRow(state) ==
    LET score == either(state.composite_score, state.composite_score_raw)
    IN  {[composite_score |-> s, composite_score_smoothed |-> state.composite_score_smoothed,
          composite_score_exo |-> state.score_exo, ema_obs_count |-> state.ema_obs_count,
          index |-> state.sub_indices, confidence_score |-> state.confidence.score,
          confidence_flags |-> state.confidence.flags, top_drivers |-> state.top_drivers,
          divergence |-> state.divergence, as_of |-> state.freshness,
          timestamp |-> state.timestamp] : s \in score}

\* The row of a state; there is none, and a ValueError, when the score is None.
history_row_from_state(state) ==
    LET score == either(state.composite_score_raw, either(state.composite_score, None))
    IN  {[composite_score |-> s, composite_score_smoothed |-> state.composite_score_smoothed,
          composite_score_exo |-> state.score_exo, ema_obs_count |-> state.ema_obs_count,
          index |-> state.sub_indices, confidence_score |-> state.confidence.score,
          confidence_flags |-> state.confidence.flags, top_drivers |-> state.top_drivers,
          divergence |-> state.divergence, as_of |-> state.freshness,
          timestamp |-> state.timestamp] : s \in score}

\* The score that a row shows; rows from before the smoothing have one column only.
Shown(row) == given(row.composite_score_smoothed, {row.composite_score})

\* The score a day ago: what is shown of the newest row that is a day old and not older
\* than two.  No key forbids two rows of one time, and either may be selected.
get_baseline_scores(rows, now, day) ==
    LET aged == {r \in rows : now - r.timestamp >= day /\ now - r.timestamp <= 2 * day}
    IN  {Shown(r) : r \in {x \in aged : \A y \in aged : y.timestamp <= x.timestamp}}

\* What _score_all hands a ticker: one query is made for all of them when the tick starts,
\* at asked; without a row, or when the query fails, there is no baseline.
Baselines(rows, asked, query, day) ==
    LET found == get_baseline_scores(rows, asked, day)
    IN  IF query = "failed" \/ found = {} THEN {None} ELSE found

-----------------------------------------------------------------------------
(* Reading.                                                                *)

\* _load_from_db: a row in the layout of a state.
_load_from_db(row) ==
    [timestamp |-> row.timestamp,
     composite_score |-> Shown(row), composite_score_raw |-> {row.composite_score},
     composite_score_smoothed |-> row.composite_score_smoothed,
     score_exo |-> row.composite_score_exo,
     score_change_1d |-> None, score_change_1d_pct |-> None,
     ema_obs_count |-> row.ema_obs_count, sub_indices |-> row.index,
     confidence |-> [score |-> row.confidence_score, flags |-> row.confidence_flags],
     top_drivers |-> row.top_drivers, explanation |-> None,
     freshness |-> row.as_of, divergence |-> row.divergence]

_composite_score(state) ==
    LET score == given(state.composite_score, {0}) IN int_round(CHOOSE s \in score : TRUE)
score_raw(state) == {int_round(s) : s \in state.composite_score_raw}
missing_layers(sub_indices) == {l \in LAYERS : sub_indices[l] = None}

_build_free(state) ==
    [score |-> _composite_score(state), score_raw |-> score_raw(state),
     score_change_1d |-> state.score_change_1d, score_change_1d_pct |-> state.score_change_1d_pct,
     label |-> score_to_label(_composite_score(state)),
     confidence |-> state.confidence.score, timestamp |-> state.timestamp]

\* Compact drivers are not objects, and are left out.
_build_pro(state, universe_percentile, xs) ==
    [score |-> _composite_score(state), score_raw |-> score_raw(state),
     score_change_1d |-> state.score_change_1d, score_change_1d_pct |-> state.score_change_1d_pct,
     label |-> score_to_label(_composite_score(state)),
     confidence |-> state.confidence.score, timestamp |-> state.timestamp,
     universe_percentile |-> universe_percentile, xs |-> xs,
     score_exo |-> state.score_exo, ema_obs_count |-> state.ema_obs_count,
     sub_indices |-> state.sub_indices, missing_layers |-> missing_layers(state.sub_indices),
     divergence |-> state.divergence, explanation |-> state.explanation,
     top_drivers |-> IF is_compact(state.top_drivers) THEN <<>> ELSE state.top_drivers.list,
     freshness |-> state.freshness, confidence_flags |-> state.confidence.flags]

\* An entry of the history.
HistoryEntry(row) ==
    LET score == int_round(CHOOSE s \in Shown(row) : TRUE)
    IN  [timestamp |-> row.timestamp, score |-> score, score_raw |-> {int_round(row.composite_score)},
         score_exo |-> row.composite_score_exo, label |-> score_to_label(score),
         confidence |-> row.confidence_score, sub_indices |-> row.index,
         missing_layers |-> missing_layers(row.index)]

-----------------------------------------------------------------------------
(* Properties of a computation c, with the baseline that its tick has.      *)

\* The answer a that is made of a stored row tells what the answer b of the state told,
\* but for the fields that are lost.
Retells(a, b, lost) ==
    /\ DOMAIN a = DOMAIN b
    /\ \A f \in DOMAIN a : a[f] = IF f \in lost THEN None ELSE b[f]

\* A score is the same in whatever form a client meets it.  The row that a tick records
\* is answered, when Redis has lost the state, as the state itself would have been, but
\* for the changes and the explanation, which are not stored; compaction costs it the
\* drivers and nothing else; and the history shows what the answer showed.  Of an
\* unsmoothed score of exactly 0 nothing is claimed: its row is made of another score.
FormsAgree(c, baseline) ==
    LET state == ScoredState(c, baseline)
        changes == {"score_change_1d", "score_change_1d_pct"}
        Free(x) == _build_free(x)
        Pro(x) == _build_pro(x, 1, 2)
    IN  c.effective # 0 =>
        /\ \E row \in history_row_from_state(state) :
              LET loaded == _load_from_db(row)
                  compacted == _load_from_db([row EXCEPT !.top_drivers = compact_drivers(@)])
              IN  /\ Retells(Free(loaded), Free(state), changes)
                  /\ Retells(Pro(loaded), Pro(state), changes \cup {"explanation"})
                  /\ Pro(compacted) = [Pro(loaded) EXCEPT !.top_drivers = <<>>]
                  /\ \A f \in DOMAIN HistoryEntry(row) : HistoryEntry(row)[f] = Pro(loaded)[f]
        /\ Free(state).score_change_1d = Pro(state).score_change_1d

\* The change of a day is that between the scores shown then and now.  Then is when the
\* newest row was written that was a day old when the tick asked: a day before the score at
\* least, and two days at most but for the time since the tick asked.  A change is not
\* told when there was no such row, or the query failed.
ChangeIsShown(c, rows, asked, query, baseline, day) ==
    LET Age(r) == asked - r.timestamp
        late == c.timestamp - asked
        state == ScoredState(c, baseline)
    IN  /\ \A change \in state.score_change_1d :
              \E r \in rows :
                 /\ c.timestamp - r.timestamp \in day .. 2 * day + late
                 /\ \A x \in rows : Age(x) < Age(r) => Age(x) < day
                 /\ LET told == 2 * (_build_free(state).score - int_round(CHOOSE b \in Shown(r) : TRUE))
                    IN  change - told \in -2 .. 2
        /\ state.score_change_1d = None =>
              query = "failed" \/ \A r \in rows : Age(r) \notin day .. 2 * day
=============================================================================
