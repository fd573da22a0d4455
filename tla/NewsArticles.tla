--------------------------- MODULE NewsArticles ---------------------------
(***************************************************************************)
(* The stored news of one ticker (raw_articles) and those that work on it: *)
(* narrative_job, which fetches, clusters and scores what is recent; the   *)
(* tool scripts/backfill/news_backfill.py, which runs alongside on a       *)
(* window of the past; the nightly blanking of old texts; and the scoring  *)
(* tick, which hears one article of every event cluster.                   *)
(*                                                                         *)
(* The two writers read, run a model for minutes, and write what they      *)
(* concluded from the read.  An article is a URL.  That two titles are     *)
(* similar and close in time is a constant relation; the tone itself is    *)
(* left out, only whether it is there.  A uuid4 is written as the writer   *)
(* and the group it was drawn for.  The purge after a year, --dry-run and  *)
(* --skip-backlog are left out.                                            *)
(***************************************************************************)
EXTENDS Integers, FiniteSets

CONSTANTS
    Articles,    \* URLs
    Published,   \* Published[a]: when a is published
    Relevance,   \* Relevance[a]: 0 for NULL
    Threshold,   \* the least relevance that is scored
    English,     \* the articles whose detected language is "en"
    Near,        \* the pairs with similar titles within four hours
    LiveAge,     \* since_hours of clustering and FinBERT
    ScoreAge,    \* _NARRATIVE_SCORE_LOOKBACK
    BlankAge,    \* ARTICLE_TEXT_COMPACT_DAYS
    Limit,       \* articles per FinBERT batch of narrative_job
    Start, End,  \* the window of the backfill, End exclusive
    Pad,         \* CLUSTER_WINDOW_H
    Now,         \* the time at which the model begins
    LastTime,    \* bound: where the clock stops
    MaxRuns      \* bound: how often the backfill is run

ASSUME NewsAssumption ==
    /\ IsFiniteSet(Articles) /\ English \subseteq Articles
    /\ Published \in [Articles -> Nat] /\ Relevance \in [Articles -> Nat]
    /\ Near \subseteq {{a, b} : a, b \in Articles}
    /\ {LiveAge, ScoreAge, BlankAge, Pad} \subseteq Nat
    /\ {Start, End, Now, LastTime, MaxRuns} \subseteq Nat
    /\ Limit \in Nat \ {0} /\ Threshold \in Nat \ {0} /\ End <= Now

VARIABLES
    now,
    stored, scored, blank,  \* the rows; with a finbert_score; with their text blanked
    cluster,                \* event_cluster_id
    live,                   \* the run of narrative_job
    fill                    \* the run of the backfill

vars == <<now, stored, scored, blank, cluster, live, fill>>

Single == [by |-> "none", group |-> {}]
Ids == [by : {"live", "fill"}, group : SUBSET Articles]

LivePhases == {"idle", "fetch", "cluster", "score"}
FillPhases == {"idle", "read", "insert", "repair", "assign", "backlog", "batch"}

\* The types, and no phase holds what it has not read: a run scores at most
\* Limit articles, and what the backfill repairs is in the table.
TypeOK ==
    /\ now \in Nat
    /\ stored \subseteq Articles /\ scored \subseteq stored /\ blank \subseteq stored
    /\ cluster \in [Articles -> Ids \cup {Single}]
    /\ live \in [phase : LivePhases, groups : SUBSET SUBSET Articles,
                 batch : SUBSET Articles, late : BOOLEAN]
    /\ fill \in [phase : FillPhases, new : SUBSET Articles, repair : SUBSET Articles,
                 open : SUBSET Articles, groups : SUBSET SUBSET Articles,
                 known : SUBSET Articles, batch : SUBSET Articles, since : Nat,
                 fetched : SUBSET Articles, partial : BOOLEAN, done : BOOLEAN,
                 swept : BOOLEAN, run : Nat]
    /\ Cardinality(live.batch) <= Limit /\ live.batch \subseteq stored
    /\ fill.repair \subseteq stored /\ fill.known \subseteq stored

-----------------------------------------------------------------------------
(* cluster_members: union-find joins what a chain of near pairs connects.  *)

Chained(C) ==
    \A S \in SUBSET C : S # {} /\ S # C => \E a \in S, b \in C \ S : {a, b} \in Near

\* The classes of the articles P that have two members, counting twice those
\* in Twice, which the backfill holds both fetched and stored.
Groups(P, Twice) ==
    {C \in SUBSET P :
        /\ Chained(C) /\ C # {}
        /\ \A a \in C, b \in P \ C : {a, b} \notin Near
        /\ Cardinality(C) >= 2 \/ C \cap Twice # {}}

Assigned(S, by, C) ==
    [a \in Articles |-> IF a \in S THEN [by |-> by, group |-> C] ELSE cluster[a]]

Since(age) == {a \in stored : Published[a] >= now - age}
InWindow == {a \in Articles : Published[a] >= Start /\ Published[a] < End}
Padded == {a \in Articles : Published[a] >= Start - Pad /\ Published[a] < End + Pad}

\* Fault: event_cluster_id IS NULL is missing.
UnclusteredOrNot == stored

Unclustered == {a \in stored : cluster[a] = Single}

\* Fault: finbert_score IS NULL is missing.
UnscoredOrNot == stored \cap English

Unscored == (stored \cap English) \ scored

-----------------------------------------------------------------------------
(* narrative_job                                                           *)

Idle == [phase |-> "idle", groups |-> {}, batch |-> {}, late |-> FALSE]

StartRun ==
    /\ live.phase = "idle"
    /\ live' = [Idle EXCEPT !.phase = "fetch"]
    /\ UNCHANGED <<now, stored, scored, blank, cluster, fill>>

\* _run_narrative: hash_exists and insert_article, which ignores a duplicate.
\* What the providers return, and which requests fail, is open: Alpha Vantage is asked
\* for the latest articles however old they are.
Fetch(a) ==
    /\ live.phase = "fetch" /\ a \notin stored
    /\ Published[a] <= now
    /\ stored' = stored \cup {a}
    /\ UNCHANGED <<now, scored, blank, cluster, live, fill>>

\* cluster_articles: the read, and the classes the embeddings give.
ReadUnclustered ==
    /\ live.phase = "fetch"
    /\ live' = [live EXCEPT !.phase = "cluster",
                            !.groups = Groups(Since(LiveAge) \cap Unclustered, {})]
    /\ UNCHANGED <<now, stored, scored, blank, cluster, fill>>

WriteCluster(C) ==
    /\ live.phase = "cluster" /\ C \in live.groups
    /\ cluster' = Assigned(C, "live", C)
    /\ live' = [live EXCEPT !.groups = @ \ {C}]
    /\ UNCHANGED <<now, stored, scored, blank, fill>>

\* The exception of one ticker's clustering is logged and the run goes on.
ClusterFails ==
    /\ live.phase = "cluster" /\ live.groups # {}
    /\ live' = [live EXCEPT !.groups = {}]
    /\ UNCHANGED <<now, stored, scored, blank, cluster, fill>>

\* get_unscored_articles: the oldest Limit, with ties in any order.
Oldest(U) ==
    {B \in SUBSET U :
        /\ Cardinality(B) <= Limit /\ (B # U => Cardinality(B) = Limit)
        /\ \A a \in B, b \in U \ B : Published[a] <= Published[b]}

ReadUnscored ==
    /\ live.phase = "cluster" /\ live.groups = {}
    /\ \E B \in Oldest(Since(LiveAge) \cap Unscored) :
        live' = [live EXCEPT !.phase = "score", !.batch = B]
    /\ UNCHANGED <<now, stored, scored, blank, cluster, fill>>

WriteScores ==
    /\ live.phase = "score"
    /\ scored' = scored \cup live.batch
    /\ live' = Idle
    /\ UNCHANGED <<now, stored, blank, cluster, fill>>

\* FinBERT fails for the whole batch, the ceiling cuts the run off, or the
\* process is replaced.
RunFails ==
    /\ live.phase # "idle"
    /\ live' = Idle
    /\ UNCHANGED <<now, stored, scored, blank, cluster, fill>>

-----------------------------------------------------------------------------
(* news_backfill                                                           *)

\* The fetch of all windows, of which some may fail, and existing_articles.
BeginFill(F, failed) ==
    /\ fill.phase = "idle" /\ ~fill.done /\ fill.run < MaxRuns
    /\ F \subseteq InWindow /\ (~failed => F = InWindow)
    /\ LET repair == (F \cap stored) \ scored
       IN  fill' = [phase |-> "read", new |-> F \ stored, repair |-> repair,
                    open |-> repair \cap Unclustered, groups |-> {}, known |-> {},
                    batch |-> {}, since |-> now, fetched |-> F, partial |-> failed,
                    done |-> FALSE, swept |-> FALSE, run |-> fill.run + 1]
    /\ UNCHANGED <<now, stored, scored, blank, cluster, live>>

\* A ticker in the progress file is skipped: only the backlog is left.
SkipTicker ==
    /\ fill.phase = "idle" /\ fill.done /\ fill.run < MaxRuns
    /\ fill' = [fill EXCEPT !.phase = "backlog", !.swept = FALSE, !.run = @ + 1]
    /\ UNCHANGED <<now, stored, scored, blank, cluster, live>>

\* _score_and_cluster, after the inference: the pool of the new articles, the
\* stored ones without a cluster near the window and those being repaired.
ReadPool ==
    /\ fill.phase = "read"
    /\ LET known == (Unclustered \cap Padded) \ blank
       IN  fill' = [fill EXCEPT !.phase = "insert", !.known = known,
                        !.groups = Groups(fill.new \cup known \cup fill.open,
                                          fill.new \cap known)]
    /\ UNCHANGED <<now, stored, scored, blank, cluster, live>>

\* insert_scored_articles: what was stored in the meantime is left as it is.
InsertNew ==
    /\ fill.phase = "insert"
    /\ LET fresh == fill.new \ stored
           GroupOf(a) == {C \in fill.groups : a \in C}
       IN  /\ stored' = stored \cup fresh
           /\ scored' = scored \cup (fresh \cap English)
           /\ cluster' = [a \in Articles |->
                  IF a \in fresh /\ GroupOf(a) # {}
                  THEN [by |-> "fill", group |-> UNION GroupOf(a)]
                  ELSE cluster[a]]
    /\ fill' = [fill EXCEPT !.phase = "repair"]
    /\ UNCHANGED <<now, blank, live>>

\* Fault: the id goes to every row of the pool.
RowsOfPool(C) == fill.known \cup fill.open

\* The members of a group that the pool held as rows of the table.
Rows(C) == C \cap (fill.known \cup fill.open)

\* update_finbert_scores of the repaired rows.
Repair ==
    /\ fill.phase = "repair"
    /\ scored' = scored \cup (fill.repair \cap English)
    /\ fill' = [fill EXCEPT !.phase = "assign",
                            !.groups = {C \in fill.groups : Rows(C) # {}}]
    /\ UNCHANGED <<now, stored, blank, cluster, live>>

\* set_cluster_ids of one group, whatever the rows hold by now.
AssignStored(C) ==
    /\ fill.phase = "assign" /\ C \in fill.groups
    /\ cluster' = Assigned(Rows(C), "fill", C)
    /\ fill' = [fill EXCEPT !.groups = @ \ {C}]
    /\ UNCHANGED <<now, stored, scored, blank, live>>

\* A ticker is recorded as done unless a window failed.
FinishTicker ==
    /\ fill.phase = "assign" /\ fill.groups = {}
    /\ fill' = [fill EXCEPT !.phase = "backlog", !.done = ~fill.partial]
    /\ UNCHANGED <<now, stored, scored, blank, cluster, live>>

\* The exception of one ticker is logged; the backlog is still worked on.
TickerFails ==
    /\ fill.phase \in {"read", "insert", "repair", "assign"}
    /\ fill' = [fill EXCEPT !.phase = "backlog", !.groups = {}]
    /\ UNCHANGED <<now, stored, scored, blank, cluster, live>>

Backlog == (InWindow \cap Unscored) \ blank

\* _score_stored_backlog, until nothing is left.
ReadBacklog ==
    /\ fill.phase = "backlog" /\ Backlog # {}
    /\ fill' = [fill EXCEPT !.phase = "batch", !.batch = Backlog]
    /\ UNCHANGED <<now, stored, scored, blank, cluster, live>>

WriteBacklog ==
    /\ fill.phase = "batch"
    /\ scored' = scored \cup fill.batch
    /\ fill' = [fill EXCEPT !.phase = "backlog", !.batch = {}]
    /\ UNCHANGED <<now, stored, blank, cluster, live>>

\* Fault: the backlog is passed over once only.
EndFillAtOnce ==
    /\ fill.phase = "backlog"
    /\ fill' = [fill EXCEPT !.phase = "idle", !.swept = TRUE]
    /\ UNCHANGED <<now, stored, scored, blank, cluster, live>>

EndFill ==
    /\ fill.phase = "backlog" /\ Backlog = {}
    /\ fill' = [fill EXCEPT !.phase = "idle", !.swept = TRUE]
    /\ UNCHANGED <<now, stored, scored, blank, cluster, live>>

\* The tool is killed or aborts, or the backlog raises.
FillKilled ==
    /\ fill.phase # "idle"
    /\ fill' = [fill EXCEPT !.phase = "idle", !.groups = {}, !.batch = {}]
    /\ UNCHANGED <<now, stored, scored, blank, cluster, live>>

-----------------------------------------------------------------------------
(* Retention and time                                                      *)

\* strip_article_text_before
Strip ==
    /\ blank' = blank \cup {a \in stored : Published[a] < now - BlankAge}
    /\ blank' # blank
    /\ UNCHANGED <<now, stored, scored, cluster, live, fill>>

\* A run of narrative_job is shorter than a unit of time.
Tick ==
    /\ now < LastTime /\ ~live.late
    /\ now' = now + 1
    /\ live' = [live EXCEPT !.late = live.phase # "idle"]
    /\ UNCHANGED <<stored, scored, blank, cluster, fill>>

-----------------------------------------------------------------------------
(* get_articles_since and score_narrative_signals: of a cluster the scored *)
(* article of the highest relevance is taken, and then kept if relevant.   *)

Recent == Since(ScoreAge) \cap scored
Rivals(a) == {b \in Recent : cluster[b] = cluster[a] /\ cluster[a] # Single} \cup {a}
\* Fault: NULLS FIRST, the default of a descending order.
OutranksNullsFirst(a, b) ==
    \/ Relevance[b] # 0 /\ (Relevance[a] = 0 \/ Relevance[a] > Relevance[b])
    \/ Relevance[a] = Relevance[b] /\ Published[a] > Published[b]

Outranks(a, b) ==
    \/ Relevance[a] > Relevance[b]
    \/ Relevance[a] = Relevance[b] /\ Published[a] > Published[b]
Chosen == {CHOOSE b \in Rivals(a) : \A c \in Rivals(a) : ~Outranks(c, b) : a \in Recent}
Voices == {a \in Chosen : Relevance[a] >= Threshold}

-----------------------------------------------------------------------------

Init ==
    /\ now = Now
    /\ stored = {} /\ scored = {} /\ blank = {}
    /\ cluster = [a \in Articles |-> Single]
    /\ live = Idle
    /\ fill = [phase |-> "idle", new |-> {}, repair |-> {}, open |-> {}, groups |-> {},
               known |-> {}, batch |-> {}, since |-> Now, fetched |-> {},
               partial |-> FALSE, done |-> FALSE, swept |-> FALSE, run |-> 0]

NarrativeJob ==
    \/ StartRun \/ ReadUnclustered \/ ClusterFails \/ ReadUnscored \/ WriteScores
    \/ \E a \in Articles : Fetch(a)
    \/ \E C \in live.groups : WriteCluster(C)

NewsBackfill ==
    \/ \E F \in SUBSET Articles, failed \in BOOLEAN : BeginFill(F, failed)
    \/ SkipTicker \/ ReadPool \/ InsertNew \/ Repair \/ FinishTicker \/ TickerFails
    \/ ReadBacklog \/ WriteBacklog \/ EndFill \/ FillKilled
    \/ \E C \in fill.groups : AssignStored(C)

Next == NarrativeJob \/ RunFails \/ NewsBackfill \/ Strip \/ Tick

Spec == Init /\ [][Next]_vars

\* The scheduler starts narrative_job again and again, and a run goes on.
FairSpec ==
    /\ Spec
    /\ WF_vars(StartRun) /\ WF_vars(ReadUnclustered) /\ WF_vars(ReadUnscored)
    /\ WF_vars(WriteScores)
    /\ WF_vars(ClusterFails \/ \E C \in live.groups : WriteCluster(C))

-----------------------------------------------------------------------------

\* An id stands for one event: whoever drew it, an article carries only the
\* id of a group that it belongs to and that a chain of near pairs connects
\* (cluster_members; set_cluster_ids is unconditional and uses stale reads).
ClustersAreEvents ==
    \A a \in Articles : cluster[a] # Single =>
        /\ a \in stored /\ a \in cluster[a].group
        /\ Chained(cluster[a].group)

\* Articles that narrative_job may have read as unclustered while the
\* backfill had them in its pool.
Contested(a) == a \in Padded /\ Published[a] >= fill.since - LiveAge - 1

\* Both writers leave clustered articles alone (event_cluster_id IS NULL): an
\* article keeps its id unless the windows of the two overlap on it.
ClusterIsFinal ==
    [][\A a \in Articles :
        cluster[a] # Single /\ cluster'[a] # cluster[a] => Contested(a)]_vars

\* Whatever narrative_job and the retention do meanwhile, once a backfill has
\* recorded its ticker and worked off the backlog, every English article it
\* fetched has a score: also what was stored unscored before, even with its
\* text blanked, and what narrative_job inserted first, if its text is there.
BackfillScores ==
    fill.done /\ fill.swept =>
        fill.repair \cup (fill.fetched \ blank) \subseteq scored \cup (Articles \ English)

\* An article of an event that is relevant enough is never silenced by
\* another report of the event: the cluster's vote is cast.
UsableNewsIsHeard ==
    \A a \in Recent : Relevance[a] >= Threshold => Rivals(a) \cap Voices # {}

\* Once runs are no longer cut off, every English article in the table gets
\* its score or leaves the 48 hours: a batch of the oldest Limit does not
\* starve the rest.
RunsSucceed == <>[][~(RunFails /\ ~WriteScores)]_vars
NewsIsScored ==
    RunsSucceed =>
        \A a \in English :
            a \in stored ~> (a \in scored \/ Published[a] < now - LiveAge)
=============================================================================
