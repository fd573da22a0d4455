-------------------------- MODULE NarrativeRebuild --------------------------
(***************************************************************************)
(* The tool that rescores the rows of a news outage once its articles have *)
(* been backfilled (scripts/backfill/rebuild_narrative.py), beside the     *)
(* tick that would have scored them (pipeline/orchestrator.py).  The runs  *)
(* of the tool are in NarrativeRuns.                                       *)
(*                                                                         *)
(* Times are hours.  A number that is computed from others stands for      *)
(* itself: a sub-index is the articles it is made of and the time it was   *)
(* made at, a smoothed score the chain of what went into it.  So two       *)
(* values are equal when the code computes them from the same data.        *)
(***************************************************************************)
EXTENDS Integers, Sequences, FiniteSets, FiniteSetsExt, SequencesExt

LOCAL Codec == INSTANCE AnswerFormats   \* driver_codec.py

None == -1

NARRATIVE_LOOKBACK == 72
NARRATIVE_FALLBACK == 6
STALE_NEWS == 6
LOW_VOLUME_THRESHOLD == 5
CURRENT_WINDOW_HOURS == 24
BASELINE_DAYS == 14
MIN_BASELINE_ARTICLES == 10
MIN_BASELINE_MEANS == 7      \* half of the scorer's window of days
SCORED_RELEVANCE == 6        \* relevance is in tenths

-----------------------------------------------------------------------------
(* Articles: [id, published, cluster, relevance, importance].  The tool    *)
(* has them in a sequence, by time; the tick in the table.                 *)

Key(a) == IF a.cluster = None THEN <<"id", a.id>> ELSE <<"cluster", a.cluster>>

\* _dedup_rank: a relevance before none, the higher one, then the later article.
Outranks(a, b) ==
    a.relevance > b.relevance \/ (a.relevance = b.relevance /\ a.published > b.published)

\* Of the articles in a window, the best of each event.
select_articles(articles, since, until, include_until) ==
    LET window == SelectSeq(articles, LAMBDA a : /\ since <= a.published
                                                 /\ a.published <= until
                                                 /\ a.published = until => include_until)
        best[i \in 0 .. Len(window)] ==
            IF i = 0 THEN {}
            ELSE LET cur == {b \in best[i - 1] : Key(b) = Key(window[i])}
                 IN  IF \A b \in cur : Outranks(window[i], b)
                     THEN (best[i - 1] \ cur) \cup {window[i]} ELSE best[i - 1]
    IN  best[Len(window)]

\* DISTINCT ON the event, by relevance (NULLS LAST), then the newest.
DistinctEvents(found) ==
    {CHOOSE a \in found : Key(a) = k /\ \A b \in found :
        Key(b) = k => a.relevance > b.relevance
                      \/ (a.relevance = b.relevance /\ a.published >= b.published)
        : k \in {Key(a) : a \in found}}

get_articles_since(stored, since, as_of) ==
    DistinctEvents({a \in stored : since <= a.published /\ a.published <= as_of})
get_article_scores_between(stored, since, until) ==
    DistinctEvents({a \in stored : since <= a.published /\ a.published < until})

\* score_narrative_signals leaves out an article without sufficient relevance.
score_narrative_signals(arts) == {a \in arts : a.relevance >= SCORED_RELEVANCE}

NoIndex == [of |-> {}, at |-> None]
compute_sub_index(arts, t) ==
    LET sigs == score_narrative_signals(arts)
    IN  IF sigs = {} THEN NoIndex ELSE [of |-> {a.id : a \in sigs}, at |-> t]

latest_published(arts) == Max({a.published : a \in arts})

-----------------------------------------------------------------------------
(* surprise.py: the coverage of a day against that of two weeks before.    *)

\* Articles count with their relevance, however low.
_weighted_mean(arts) == {a.id : a \in {x \in arts : x.relevance > 0}}

\* The means of the days on which there were articles that count.
_daily_means(arts) ==
    {_weighted_mean({a \in arts : a.published \div 24 = d})
        : d \in {a.published \div 24 : a \in arts}} \ {{}}

surprise_from_rows(current, baseline) ==
    IF \/ _weighted_mean(current) = {}
       \/ Cardinality(baseline) < MIN_BASELINE_ARTICLES
       \/ Cardinality(_daily_means(baseline)) < MIN_BASELINE_MEANS
    THEN {} ELSE {<<_weighted_mean(current), _daily_means(baseline)>>}

compute_narrative_surprise(stored, t) ==
    LET start == t - CURRENT_WINDOW_HOURS
        current == get_article_scores_between(stored, start, t)
        baseline == get_article_scores_between(stored, start - 24 * BASELINE_DAYS, start)
    IN  IF _weighted_mean(current) = {} THEN {} ELSE surprise_from_rows(current, baseline)

-----------------------------------------------------------------------------
(* Drivers, the most important first.                                      *)

\* One driver per type of signal, and all articles are of one type.
narrative_drivers(sigs) ==
    {[signal |-> "finbert_sentiment", description |-> {"text"}, layer |-> "narrative", importance |-> n]
        : n \in {m \in {a.importance : a \in sigs} : \A a \in sigs : a.importance <= m}}

Ranked(drivers, top_n) ==
    LET s == SetToSortSeq(drivers, LAMBDA a, b : a.importance > b.importance)
    IN  SubSeq(s, 1, Min({top_n, Len(s)}))

merge_drivers(stored, narrative, top_n) ==
    LET base == Range((IF Codec!is_compact(stored) THEN Codec!expand_drivers(stored) ELSE stored).list)
    IN  Codec!Verbose(Ranked({d \in base : d.layer # "narrative"} \cup narrative, top_n))

-----------------------------------------------------------------------------
(* The tick.  What it finds besides articles: the other layers and their   *)
(* drivers, how many of their signals there are, which of them are missing *)
(* or stale.                                                               *)

Extended(smoothed, effective, dt) == Append(smoothed, <<effective, dt>>)

\* The layer of a tick, fresh or, failing that, from the previous state (last is empty or
\* has that one state), with its as_of and its signals.
Layer(index, as_of, sigs) == [index |-> index, as_of |-> as_of, sigs |-> sigs]

_score_narrative(stored, last, t) ==
    LET arts == get_articles_since(stored, t - NARRATIVE_LOOKBACK, t)
        usable == {s \in last : s.index # NoIndex /\ s.as_of # None /\ t - s.as_of <= NARRATIVE_FALLBACK}
    IN  IF compute_sub_index(arts, t) # NoIndex
        THEN Layer(compute_sub_index(arts, t), latest_published(arts), score_narrative_signals(arts))
        ELSE CHOOSE r \in {Layer(s.index, s.as_of, {}) : s \in usable}
                              \cup (IF usable = {} THEN {Layer(NoIndex, None, {})} ELSE {}) : TRUE

check_staleness(as_of, t) == as_of = None \/ t - as_of > STALE_NEWS

live_row(other, stored, last, t, top_n) ==
    LET narr == _score_narrative(stored, last, t)
        effective == <<other.values, narr.index>>
    IN  [timestamp |-> t, others |-> other.values, index |-> narr.index, as_of |-> narr.as_of,
         smoothed |-> IF last = {} THEN Extended(<<>>, effective, 0)
                      ELSE LET s == CHOOSE x \in last : TRUE
                           IN  Extended(s.smoothed, effective, t - s.timestamp),
         missing |-> other.missing \cup (IF narr.index = NoIndex THEN {"narrative"} ELSE {}),
         stale |-> other.stale \cup (IF narr.index # NoIndex /\ check_staleness(narr.as_of, t)
                                     THEN {"news"} ELSE {}),
         low_signal_volume |-> other.n + Cardinality(narr.sigs) < LOW_VOLUME_THRESHOLD,
         top_drivers |-> Codec!Verbose(Ranked(Range(other.drivers) \cup narrative_drivers(narr.sigs), top_n)),
         narrative_surprise |-> compute_narrative_surprise(stored, t)]

\* Ticks at one time after the other.
live_rows(others, stored, seed, top_n) ==
    LET chain[i \in 0 .. Len(others)] ==
            IF i = 0 THEN <<>>
            ELSE LET last == IF i = 1 THEN seed ELSE {chain[i - 1][i - 1]}
                 IN  Append(chain[i - 1], live_row(others[i], stored, last, others[i].time, top_n))
    IN  chain[Len(others)]

-----------------------------------------------------------------------------
(* The tool's rows.                                                        *)

\* What is kept of the other sources; that of news is decided again.
rebuilt_stale_sources(orig, as_of, t) ==
    (orig \ {"news"}) \cup (IF check_staleness(as_of, t) THEN {"news"} ELSE {})

\* Between rows: the last smoothed score with its time, and the last narrative there was.
Memory(smoothed, ts, index, as_of) ==
    [smoothed |-> smoothed, ts |-> ts, index |-> index, as_of |-> as_of]
NoMemory == Memory(<<>>, None, NoIndex, None)
Remembered(seed) ==
    LET known == {Memory(s.smoothed, s.timestamp, s.index, s.as_of) : s \in seed}
    IN  IF known = {} THEN NoMemory ELSE CHOOSE m \in known : TRUE

\* Fault: what was remembered counts from the previous row.
FaultCarried(m, t) ==
    m.index # NoIndex /\ m.as_of # None /\ t - m.ts <= NARRATIVE_FALLBACK

IsCarried(m, t) ==
    m.index # NoIndex /\ m.as_of # None /\ t - m.as_of <= NARRATIVE_FALLBACK

rebuilt_row(row, m, articles, top_n) ==
    LET t == row.timestamp
        start == t - CURRENT_WINDOW_HOURS
        arts == select_articles(articles, t - NARRATIVE_LOOKBACK, t, TRUE)
        fresh == compute_sub_index(arts, t)
        narr == IF fresh # NoIndex THEN Layer(fresh, latest_published(arts), score_narrative_signals(arts))
                ELSE IF IsCarried(m, t) THEN Layer(m.index, m.as_of, {}) ELSE Layer(NoIndex, None, {})
        n_narr == Cardinality(narr.sigs)
        n_signals == IF row.low_signal_volume THEN n_narr ELSE LOW_VOLUME_THRESHOLD + n_narr
        merged == merge_drivers(row.top_drivers, narrative_drivers(narr.sigs), top_n)
    IN  [row EXCEPT
            !.index = narr.index, !.as_of = narr.as_of,
            !.smoothed = Extended(m.smoothed, <<row.others, narr.index>>, IF m.ts = None THEN 0 ELSE t - m.ts),
            !.missing = (@ \ {"narrative"}) \cup (IF narr.index = NoIndex THEN {"narrative"} ELSE {}),
            !.stale = rebuilt_stale_sources(@, narr.as_of, t),
            !.low_signal_volume = n_signals < LOW_VOLUME_THRESHOLD,
            !.top_drivers = IF Codec!is_compact(@) THEN Codec!compact_drivers(merged) ELSE merged,
            !.narrative_surprise = surprise_from_rows(
                select_articles(articles, start, t, FALSE),
                select_articles(articles, start - 24 * BASELINE_DAYS, start, FALSE))]

rebuild_rows(rows, seed, articles, top_n) ==
    LET step[i \in 0 .. Len(rows)] ==
            IF i = 0 THEN [out |-> <<>>, m |-> Remembered(seed)]
            ELSE LET r == rebuilt_row(rows[i], step[i - 1].m, articles, top_n)
                     m == step[i - 1].m
                 IN  [out |-> Append(step[i - 1].out, r),
                      m |-> IF r.index = NoIndex THEN Memory(r.smoothed, r.timestamp, m.index, m.as_of)
                            ELSE Memory(r.smoothed, r.timestamp, r.index, r.as_of)]
    IN  step[Len(rows)].out

-----------------------------------------------------------------------------
(* Properties.                                                             *)

\* Of originals, the rows that the tick would have written, and the rebuilt ones.
Matches(rows, target, done) ==
    \A i \in DOMAIN target :
        /\ \A f \in {"timestamp", "others", "index", "as_of", "smoothed", "missing",
                       "narrative_surprise"} : done[i][f] = target[i][f]
        /\ done[i].stale = target[i].stale \cup
                              (IF "narrative" \in target[i].missing THEN {"news"} ELSE {})
        /\ target[i].low_signal_volume => done[i].low_signal_volume
        /\ (\A d \in Range(rows[i].top_drivers.list) : d.layer # "narrative")
              => done[i].top_drivers.list = target[i].top_drivers.list

\* A rebuilt row is the row that the live tick would have written with the articles, in
\* the layer, the smoothed score and the surprise; its drivers too, where the original
\* had none of narrative to displace the others; and it never claims more confidence
\* than the tick would have, though less: news counts as stale beside a missing layer,
\* and the signals of the other layers are not known where there were few.  Doing it
\* again changes nothing.
AsTheTickWouldHave(others, articles, seed, rows, top_n) ==
    \A done \in {rebuild_rows(rows, seed, articles, top_n)} :
        /\ Matches(rows, live_rows(others, Range(articles), seed, top_n), done)
        /\ rebuild_rows(done, seed, articles, top_n) = done
=============================================================================
