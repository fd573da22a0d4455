----------------------- MODULE NewsArticles_proofs -----------------------
(***************************************************************************)
(* Proofs about NewsArticles for any articles, windows and numbers of      *)
(* runs: the ids stand for events, an id changes only where the windows of *)
(* the two writers overlap, a completed backfill leaves nothing it fetched *)
(* without a score, and every event with an article that can be used is    *)
(* heard.  The invariants say what a writer may still assume of what it    *)
(* read: the groups it holds are disjoint and connected, and an article in *)
(* them has remained without an id or is contested.                        *)
(***************************************************************************)
EXTENDS NewsArticles, FiniteSetTheorems, TLAPS

---------------------------------------------------------------------------
(* The groups of cluster_members.                                          *)

\* Two classes of one pool that meet are the same.
LEMMA GroupsMeet ==
    ASSUME NEW P, NEW T, NEW C \in Groups(P, T), NEW D \in Groups(P, T),
           C \cap D # {}
    PROVE  C = D
<1>1. ASSUME NEW K \in Groups(P, T), NEW L \in Groups(P, T), K \cap L # {}
      PROVE  L \subseteq K
    <2>1. CASE K \cap L = L BY <2>1
    <2>2. CASE K \cap L # L
        <3>1. Chained(L) /\ L \subseteq P BY DEF Groups
        <3>2. K \cap L \in SUBSET L OBVIOUS
        <3>3. \E a \in K \cap L, b \in L \ (K \cap L) : {a, b} \in Near
            BY <1>1, <2>2, <3>1, <3>2 DEF Chained
        <3>4. PICK a \in K \cap L, b \in L \ (K \cap L) : {a, b} \in Near BY <3>3
        <3>5. b \in P \ K BY <3>1, <3>4
        <3>6. {a, b} \notin Near BY <3>4, <3>5 DEF Groups
        <3> QED BY <3>4, <3>6
    <2> QED BY <2>1, <2>2
<1>2. C \subseteq D BY <1>1
<1>3. D \subseteq C BY <1>1
<1> QED BY <1>2, <1>3

\* The classes of a pool are connected parts of it.
LEMMA GroupsConnect ==
    ASSUME NEW P, NEW T, NEW C \in Groups(P, T)
    PROVE  Chained(C) /\ C \subseteq P
BY DEF Groups

\* The articles that cluster, score and backfill read are rows of the table.
LEMMA ReadsAreRows ==
    /\ Unclustered \subseteq stored /\ Unscored \subseteq stored
    /\ Backlog \subseteq stored /\ \A n : Since(n) \subseteq stored
BY DEF Unclustered, Unscored, Backlog, Since

---------------------------------------------------------------------------
(* Types.                                                                  *)

Typed == TypeOK /\ fill.batch \subseteq stored /\ fill.open \subseteq stored

\* The initial state is well typed.
LEMMA InitTyped == Init => Typed
<1> SUFFICES ASSUME Init PROVE Typed
    OBVIOUS
<1>1. Cardinality({}) = 0 BY FS_EmptySet
<1>2. Limit \in Nat /\ Now \in Nat BY NewsAssumption
<1>3. Cardinality(live.batch) <= Limit BY <1>1, <1>2 DEF Init, Idle
<1>4. live \in [phase : LivePhases, groups : SUBSET SUBSET Articles,
                batch : SUBSET Articles, late : BOOLEAN]
    BY DEF Init, Idle, LivePhases
<1>5. cluster \in [Articles -> Ids \cup {Single}] BY DEF Init
<1>6. fill \in [phase : FillPhases, new : SUBSET Articles, repair : SUBSET Articles,
                open : SUBSET Articles, groups : SUBSET SUBSET Articles,
                known : SUBSET Articles, batch : SUBSET Articles, since : Nat,
                fetched : SUBSET Articles, partial : BOOLEAN, done : BOOLEAN,
                swept : BOOLEAN, run : Nat]
    BY <1>2 DEF Init, FillPhases
<1> QED BY <1>2, <1>3, <1>4, <1>5, <1>6 DEF Init, Idle, Typed, TypeOK

\* Every step of narrative_job preserves the types.
LEMMA LiveTyped == Typed /\ (NarrativeJob \/ RunFails) => Typed'
<1> SUFFICES ASSUME Typed, NarrativeJob \/ RunFails PROVE Typed'
    OBVIOUS
<1> USE DEF Typed, TypeOK
<1>0. Limit \in Nat /\ Cardinality({}) = 0 BY NewsAssumption, FS_EmptySet
<1>1. CASE StartRun
    <2>1. live' = [phase |-> "fetch", groups |-> {}, batch |-> {}, late |-> FALSE]
        BY <1>1 DEF StartRun, Idle
    <2>2. live'.batch = {} BY <2>1
    <2>3. Cardinality(live'.batch) <= Limit BY <1>0, <2>2
    <2>4. live' \in [phase : LivePhases, groups : SUBSET SUBSET Articles,
                      batch : SUBSET Articles, late : BOOLEAN]
        BY <2>1 DEF LivePhases
    <2> QED BY <1>1, <2>2, <2>3, <2>4 DEF StartRun
<1>2. CASE ReadUnclustered
    <2>1. Groups(Since(LiveAge) \cap Unclustered, {}) \subseteq SUBSET Articles
        BY ReadsAreRows DEF Groups
    <2> QED BY <1>2, <2>1 DEF ReadUnclustered, LivePhases
<1>3. CASE ClusterFails BY <1>3 DEF ClusterFails
<1>4. CASE ReadUnscored
    <2>1. PICK B \in Oldest(Since(LiveAge) \cap Unscored) :
              live' = [live EXCEPT !.phase = "score", !.batch = B]
        BY <1>4 DEF ReadUnscored
    <2>2. B \subseteq stored /\ Cardinality(B) <= Limit BY ReadsAreRows DEF Oldest
    <2> QED BY <1>4, <2>1, <2>2 DEF ReadUnscored, LivePhases
<1>5. CASE WriteScores BY <1>0, <1>5 DEF WriteScores, Idle, LivePhases
<1>6. CASE RunFails BY <1>0, <1>6 DEF RunFails, Idle, LivePhases
<1>7. ASSUME NEW a \in Articles, Fetch(a) PROVE Typed'
    BY <1>7 DEF Fetch
<1>8. ASSUME NEW C \in live.groups, WriteCluster(C) PROVE Typed'
    <2>1. C \subseteq Articles OBVIOUS
    <2>2. cluster' \in [Articles -> Ids \cup {Single}]
        BY <1>8, <2>1 DEF WriteCluster, Assigned, Ids
    <2> QED BY <1>8, <2>2 DEF WriteCluster
<1> QED BY <1>1, <1>2, <1>3, <1>4, <1>5, <1>6, <1>7, <1>8 DEF NarrativeJob

\* Every step of the backfill preserves the types.
LEMMA FillTyped == Typed /\ NewsBackfill => Typed'
<1> SUFFICES ASSUME Typed, NewsBackfill PROVE Typed'
    OBVIOUS
<1> USE DEF Typed, TypeOK
<1>1. ASSUME NEW F \in SUBSET Articles, NEW failed \in BOOLEAN, BeginFill(F, failed)
      PROVE  Typed'
    <2>1. fill.run + 1 \in Nat OBVIOUS
    <2> QED BY <1>1, <2>1 DEF BeginFill, FillPhases, Unclustered
<1>2. CASE SkipTicker
    <2>1. fill.run + 1 \in Nat OBVIOUS
    <2> QED BY <1>2, <2>1 DEF SkipTicker, FillPhases
<1>3. CASE ReadPool
    <2> DEFINE known == (Unclustered \cap Padded) \ blank
               G == Groups(fill.new \cup known \cup fill.open, fill.new \cap known)
    <2>1. known \subseteq stored BY ReadsAreRows
    <2>2. G \subseteq SUBSET Articles BY <2>1 DEF Groups
    <2>3. fill' = [fill EXCEPT !.phase = "insert", !.known = known, !.groups = G]
        BY <1>3 DEF ReadPool
    <2> HIDE DEF known, G
    <2>4. fill'.batch = fill.batch /\ fill'.open = fill.open /\ fill'.repair = fill.repair
          /\ fill'.known = known
        BY <2>3
    <2>5. fill' \in [phase : FillPhases, new : SUBSET Articles, repair : SUBSET Articles,
                open : SUBSET Articles, groups : SUBSET SUBSET Articles,
                known : SUBSET Articles, batch : SUBSET Articles, since : Nat,
                fetched : SUBSET Articles, partial : BOOLEAN, done : BOOLEAN,
                swept : BOOLEAN, run : Nat]
        BY <2>1, <2>2, <2>3 DEF FillPhases
    <2> QED BY <1>3, <2>1, <2>4, <2>5 DEF ReadPool
<1>4. CASE InsertNew
    <2>1. ASSUME NEW a \in Articles, NEW S \in SUBSET fill.groups
          PROVE  [by |-> "fill", group |-> UNION S] \in Ids
        BY <2>1 DEF Ids
    <2>2. \A a \in Articles : cluster'[a] \in Ids \cup {Single}
        BY <1>4, <2>1 DEF InsertNew
    <2>3. cluster' \in [Articles -> Ids \cup {Single}] BY <1>4, <2>2 DEF InsertNew
    <2>4. stored \subseteq stored' /\ stored' \subseteq Articles /\ scored' \subseteq stored'
        BY <1>4 DEF InsertNew
    <2> QED BY <1>4, <2>3, <2>4 DEF InsertNew, FillPhases
<1>5. CASE Repair BY <1>5 DEF Repair, FillPhases
<1>6. ASSUME NEW C \in fill.groups, AssignStored(C) PROVE Typed'
    <2>1. C \subseteq Articles OBVIOUS
    <2>2. cluster' \in [Articles -> Ids \cup {Single}]
        BY <1>6, <2>1 DEF AssignStored, Assigned, Ids
    <2> QED BY <1>6, <2>2 DEF AssignStored
<1>7. CASE FinishTicker BY <1>7 DEF FinishTicker, FillPhases
<1>8. CASE TickerFails BY <1>8 DEF TickerFails, FillPhases
<1>9. CASE ReadBacklog BY <1>9, ReadsAreRows DEF ReadBacklog, FillPhases
<1>10. CASE WriteBacklog BY <1>10 DEF WriteBacklog, FillPhases
<1>11. CASE EndFill BY <1>11 DEF EndFill, FillPhases
<1>12. CASE FillKilled BY <1>12 DEF FillKilled, FillPhases
<1> QED BY <1>1, <1>2, <1>3, <1>4, <1>5, <1>6, <1>7, <1>8, <1>9, <1>10, <1>11, <1>12
    DEF NewsBackfill

\* Every step preserves the types.
LEMMA StepTyped == Typed /\ [Next]_vars => Typed'
<1> SUFFICES ASSUME Typed, [Next]_vars PROVE Typed'
    OBVIOUS
<1>1. CASE Strip BY <1>1 DEF Typed, TypeOK, Strip
<1>2. CASE Tick
    <2>1. now + 1 \in Nat /\ (live.phase # "idle") \in BOOLEAN BY DEF Typed, TypeOK
    <2> QED BY <1>2, <2>1 DEF Typed, TypeOK, Tick
<1>3. CASE UNCHANGED vars BY <1>3 DEF Typed, TypeOK, vars
<1> QED BY <1>1, <1>2, <1>3, LiveTyped, FillTyped DEF Next

\* The types hold for any articles, windows, ages and limits; in particular a
\* run of narrative_job never scores more than Limit articles.
THEOREM TypeCorrect == Spec => []TypeOK
<1>1. Spec => []Typed BY InitTyped, StepTyped, PTL DEF Spec
<1>2. Typed => TypeOK BY DEF Typed
<1> QED BY <1>1, <1>2, PTL

---------------------------------------------------------------------------
(* What the ids stand for.                                                 *)

\* The groups that a writer still holds: disjoint, connected, and those of
\* narrative_job wholly in the table.
HeldGroups ==
    /\ \A C \in live.groups : Chained(C) /\ C \subseteq stored
    /\ \A C, D \in live.groups : C \cap D # {} => C = D
    /\ \A C \in fill.groups : Chained(C)
    /\ \A C, D \in fill.groups : C \cap D # {} => C = D

\* The held groups remain connected and disjoint.
LEMMA StepHeld == Typed /\ HeldGroups /\ [Next]_vars => HeldGroups'
<1> SUFFICES ASSUME Typed, HeldGroups, [Next]_vars PROVE HeldGroups'
    OBVIOUS
<1> USE DEF HeldGroups
<1>0. live \in [phase : LivePhases, groups : SUBSET SUBSET Articles,
                batch : SUBSET Articles, late : BOOLEAN]
      /\ fill \in [phase : FillPhases, new : SUBSET Articles, repair : SUBSET Articles,
                open : SUBSET Articles, groups : SUBSET SUBSET Articles,
                known : SUBSET Articles, batch : SUBSET Articles, since : Nat,
                fetched : SUBSET Articles, partial : BOOLEAN, done : BOOLEAN,
                swept : BOOLEAN, run : Nat]
    BY DEF Typed, TypeOK
<1>a. ASSUME stored \subseteq stored', live'.groups \subseteq live.groups,
             fill'.groups \subseteq fill.groups
      PROVE  HeldGroups'
    BY <1>a DEF Chained
<1>1. CASE ReadUnclustered
    <2>1. live'.groups = Groups(Since(LiveAge) \cap Unclustered, {})
        BY <1>0, <1>1 DEF ReadUnclustered
    <2>2. \A C \in live'.groups : Chained(C) /\ C \subseteq stored
        BY <2>1, GroupsConnect, ReadsAreRows
    <2>3. \A C, D \in live'.groups : C \cap D # {} => C = D
        BY <2>1, GroupsMeet
    <2>4. fill' = fill /\ stored' = stored BY <1>1 DEF ReadUnclustered
    <2> QED BY <2>2, <2>3, <2>4 DEF Chained
<1>2. CASE ReadPool
    <2> DEFINE known == (Unclustered \cap Padded) \ blank
    <2>1. fill'.groups = Groups(fill.new \cup known \cup fill.open, fill.new \cap known)
        BY <1>0, <1>2 DEF ReadPool
    <2>2. \A C \in fill'.groups : Chained(C)
        BY <2>1, GroupsConnect
    <2>3. \A C, D \in fill'.groups : C \cap D # {} => C = D
        BY <2>1, GroupsMeet
    <2>4. live' = live /\ stored' = stored BY <1>2 DEF ReadPool
    <2> QED BY <2>2, <2>3, <2>4 DEF Chained
<1>3. CASE UNCHANGED vars BY <1>3, <1>a DEF vars
<1>4. CASE Strip \/ Tick BY <1>0, <1>4, <1>a DEF Strip, Tick
<1>5. CASE RunFails \/ (NarrativeJob /\ ~ReadUnclustered)
    <2>1. stored \subseteq stored' /\ fill' = fill
        BY <1>5 DEF RunFails, NarrativeJob, StartRun, ClusterFails, ReadUnscored,
            WriteScores, Fetch, WriteCluster
    <2>2. live'.groups \subseteq live.groups
        <3>1. CASE StartRun BY <3>1 DEF StartRun, Idle
        <3>2. CASE ClusterFails BY <1>0, <3>2 DEF ClusterFails
        <3>3. CASE ReadUnscored BY <1>0, <3>3 DEF ReadUnscored
        <3>4. CASE WriteScores \/ RunFails BY <3>4 DEF WriteScores, RunFails, Idle
        <3>5. ASSUME NEW a \in Articles, Fetch(a) PROVE live'.groups \subseteq live.groups
            BY <3>5 DEF Fetch
        <3>6. ASSUME NEW C \in live.groups, WriteCluster(C)
              PROVE  live'.groups \subseteq live.groups
            BY <1>0, <3>6 DEF WriteCluster
        <3> QED BY <1>5, <3>1, <3>2, <3>3, <3>4, <3>5, <3>6 DEF NarrativeJob
    <2> QED BY <2>1, <2>2, <1>a
<1>6. CASE NewsBackfill /\ ~ReadPool
    <2>1. stored \subseteq stored' /\ live' = live
        BY <1>6 DEF NewsBackfill, BeginFill, SkipTicker, InsertNew, Repair, AssignStored,
            FinishTicker, TickerFails, ReadBacklog, WriteBacklog, EndFill, FillKilled
    <2>2. fill'.groups \subseteq fill.groups
        <3>1. ASSUME NEW F \in SUBSET Articles, NEW failed \in BOOLEAN, BeginFill(F, failed)
              PROVE  fill'.groups \subseteq fill.groups
            BY <3>1 DEF BeginFill
        <3>2. CASE SkipTicker BY <1>0, <3>2 DEF SkipTicker
        <3>3. CASE InsertNew BY <1>0, <3>3 DEF InsertNew
        <3>4. CASE Repair BY <1>0, <3>4 DEF Repair
        <3>5. ASSUME NEW C \in fill.groups, AssignStored(C)
              PROVE  fill'.groups \subseteq fill.groups
            BY <1>0, <3>5 DEF AssignStored
        <3>6. CASE FinishTicker BY <1>0, <3>6 DEF FinishTicker
        <3>7. CASE TickerFails BY <1>0, <3>7 DEF TickerFails
        <3>8. CASE ReadBacklog BY <1>0, <3>8 DEF ReadBacklog
        <3>9. CASE WriteBacklog BY <1>0, <3>9 DEF WriteBacklog
        <3>10. CASE EndFill BY <1>0, <3>10 DEF EndFill
        <3>11. CASE FillKilled BY <1>0, <3>11 DEF FillKilled
        <3> QED BY <1>6, <3>1, <3>2, <3>3, <3>4, <3>5, <3>6, <3>7, <3>8, <3>9, <3>10, <3>11
            DEF NewsBackfill
    <2> QED BY <2>1, <2>2, <1>a
<1> QED BY <1>1, <1>2, <1>3, <1>4, <1>5, <1>6 DEF Next

\* Every step gives an article only an id of a connected group it belongs to.
LEMMA StepEvents ==
    Typed /\ HeldGroups /\ ClustersAreEvents /\ [Next]_vars => ClustersAreEvents'
<1> SUFFICES ASSUME Typed, HeldGroups, ClustersAreEvents, [Next]_vars
             PROVE  ClustersAreEvents'
    OBVIOUS
<1>0. /\ stored \subseteq Articles /\ cluster \in [Articles -> Ids \cup {Single}]
      /\ fill.known \subseteq stored /\ fill.open \subseteq stored
      /\ live.groups \subseteq SUBSET Articles /\ fill.groups \subseteq SUBSET Articles
    BY DEF Typed, TypeOK
<1>a. ASSUME stored \subseteq stored', cluster' = cluster PROVE ClustersAreEvents'
    BY <1>a DEF ClustersAreEvents, Chained
<1>b. ASSUME NEW S \in SUBSET stored, NEW by, NEW C, S \subseteq C, Chained(C),
             cluster' = Assigned(S, by, C), stored' = stored
      PROVE  ClustersAreEvents'
    <2> SUFFICES ASSUME NEW a \in Articles, cluster'[a] # Single
                 PROVE  a \in stored /\ a \in cluster'[a].group /\ Chained(cluster'[a].group)
        BY <1>b DEF ClustersAreEvents, Chained
    <2>1. CASE a \in S
        <3>1. cluster'[a].group = C BY <1>b, <2>1 DEF Assigned
        <3> QED BY <1>b, <2>1, <3>1
    <2>2. CASE a \notin S
        <3>1. cluster'[a] = cluster[a] BY <1>b, <2>2 DEF Assigned
        <3> QED BY <3>1 DEF ClustersAreEvents
    <2> QED BY <2>1, <2>2
<1>1. ASSUME NEW C \in live.groups, WriteCluster(C) PROVE ClustersAreEvents'
    BY <1>1, <1>b DEF WriteCluster, HeldGroups
<1>2. ASSUME NEW C \in fill.groups, AssignStored(C) PROVE ClustersAreEvents'
    <2>1. Rows(C) \subseteq stored /\ Rows(C) \subseteq C BY <1>0 DEF Rows
    <2> QED BY <1>2, <2>1, <1>b DEF AssignStored, HeldGroups
<1>3. CASE InsertNew
    <2> SUFFICES ASSUME NEW a \in Articles, cluster'[a] # Single
                 PROVE  a \in stored' /\ a \in cluster'[a].group /\ Chained(cluster'[a].group)
        BY DEF ClustersAreEvents, Chained
    <2> DEFINE G == {C \in fill.groups : a \in C}
    <2>1. CASE a \in fill.new \ stored /\ G # {}
        <3>1. cluster'[a].group = UNION G BY <1>3, <2>1 DEF InsertNew
        <3>2. PICK C \in fill.groups : a \in C BY <2>1
        <3>3. \A D \in G : D = C BY <3>2 DEF HeldGroups
        <3>4. UNION G = C BY <3>2, <3>3
        <3>5. Chained(C) BY <3>2 DEF HeldGroups
        <3>6. a \in stored' BY <1>3, <2>1 DEF InsertNew
        <3> QED BY <3>1, <3>2, <3>4, <3>5, <3>6
    <2>2. CASE ~(a \in fill.new \ stored /\ G # {})
        <3>1. cluster'[a] = cluster[a] BY <1>3, <2>2 DEF InsertNew
        <3>2. stored \subseteq stored' BY <1>3 DEF InsertNew
        <3> QED BY <3>1, <3>2 DEF ClustersAreEvents
    <2> QED BY <2>1, <2>2
<1>4. CASE UNCHANGED vars \/ Strip \/ Tick \/ RunFails
    BY <1>4, <1>a DEF vars, Strip, Tick, RunFails
<1>5. ASSUME NarrativeJob, \A C \in live.groups : ~WriteCluster(C) PROVE ClustersAreEvents'
    <2>1. stored \subseteq stored' /\ cluster' = cluster
        BY <1>5 DEF NarrativeJob, StartRun, ReadUnclustered, ClusterFails, ReadUnscored,
            WriteScores, Fetch
    <2> QED BY <2>1, <1>a
<1>6. ASSUME NewsBackfill, ~InsertNew, \A C \in fill.groups : ~AssignStored(C)
      PROVE  ClustersAreEvents'
    <2>1. stored \subseteq stored' /\ cluster' = cluster
        BY <1>6 DEF NewsBackfill, BeginFill, SkipTicker, ReadPool, Repair,
            FinishTicker, TickerFails, ReadBacklog, WriteBacklog, EndFill, FillKilled
    <2> QED BY <2>1, <1>a
<1> QED BY <1>1, <1>2, <1>3, <1>4, <1>5, <1>6 DEF Next

\* For any articles and any similarity, whatever the two writers do in between,
\* an id stands for one connected group, and only its members carry it.
THEOREM IdsStandForEvents == Spec => []ClustersAreEvents
<1>1. Init => HeldGroups /\ ClustersAreEvents
    <2> SUFFICES ASSUME Init PROVE HeldGroups /\ ClustersAreEvents
        OBVIOUS
    <2>1. live.groups = {} /\ fill.groups = {} BY DEF Init, Idle
    <2> QED BY <2>1 DEF Init, HeldGroups, ClustersAreEvents
<1> QED BY <1>1, InitTyped, StepTyped, StepHeld, StepEvents, PTL DEF Spec

---------------------------------------------------------------------------
(* What the backfill leaves.                                               *)

\* How far the run has brought what it fetched: before its insertion, after
\* it, after the repair, and after the backlog.
Progress ==
    /\ fill.fetched \subseteq InWindow
    /\ fill.phase \in {"read", "insert"} => fill.fetched \ fill.new \subseteq stored
    /\ fill.phase \in {"repair", "assign"} \/ fill.done => fill.fetched \subseteq stored
    /\ fill.phase = "assign" \/ fill.done => fill.repair \cap English \subseteq scored
    /\ fill.swept => fill.phase = "idle"
    /\ fill.swept /\ fill.done => (fill.fetched \cap English) \ scored \subseteq blank

\* Every step keeps what the backfill has brought about.
LEMMA StepProgress == Typed /\ Progress /\ [Next]_vars => Progress'
<1> SUFFICES ASSUME Typed, Progress, [Next]_vars PROVE Progress'
    OBVIOUS
<1> USE DEF Progress
<1>0. fill \in [phase : FillPhases, new : SUBSET Articles, repair : SUBSET Articles,
                open : SUBSET Articles, groups : SUBSET SUBSET Articles,
                known : SUBSET Articles, batch : SUBSET Articles, since : Nat,
                fetched : SUBSET Articles, partial : BOOLEAN, done : BOOLEAN,
                swept : BOOLEAN, run : Nat]
    BY DEF Typed, TypeOK
<1>i. InWindow' = InWindow BY DEF InWindow
<1>a. ASSUME stored \subseteq stored', scored \subseteq scored', blank \subseteq blank',
             fill' = fill
      PROVE  Progress'
    BY <1>a, <1>i
<1>1. CASE UNCHANGED vars \/ Strip \/ Tick \/ RunFails
    BY <1>1, <1>a DEF vars, Strip, Tick, RunFails
<1>2. CASE NarrativeJob
    <2>1. stored \subseteq stored' /\ scored \subseteq scored' /\ blank \subseteq blank'
          /\ fill' = fill
        BY <1>2 DEF NarrativeJob, StartRun, ReadUnclustered, ClusterFails, ReadUnscored,
            WriteScores, Fetch, WriteCluster
    <2> QED BY <2>1, <1>a
<1>3. ASSUME NEW F \in SUBSET Articles, NEW failed \in BOOLEAN, BeginFill(F, failed)
      PROVE  Progress'
    <2>1. fill'.fetched = F /\ fill'.new = F \ stored /\ fill'.phase = "read"
          /\ fill'.done = FALSE /\ fill'.swept = FALSE
        BY <1>3 DEF BeginFill
    <2>2. F \subseteq InWindow /\ stored' = stored BY <1>3 DEF BeginFill
    <2> QED BY <2>1, <2>2, <1>i
<1>4. CASE SkipTicker BY <1>0, <1>i, <1>4 DEF SkipTicker
<1>5. CASE ReadPool
    <2>1. fill'.fetched = fill.fetched /\ fill'.new = fill.new /\ fill'.phase = "insert"
          /\ fill'.done = fill.done /\ fill'.swept = fill.swept /\ fill'.repair = fill.repair
        BY <1>0, <1>5 DEF ReadPool
    <2>2. fill.phase = "read" /\ stored' = stored /\ scored' = scored /\ blank' = blank
        BY <1>5 DEF ReadPool
    <2> QED BY <2>1, <2>2, <1>i
<1>6. CASE InsertNew
    <2>1. fill' = [fill EXCEPT !.phase = "repair"] /\ fill.phase = "insert"
          /\ stored' = stored \cup (fill.new \ stored) /\ blank' = blank
          /\ scored \subseteq scored'
        BY <1>6 DEF InsertNew
    <2> QED BY <1>0, <1>i, <2>1
<1>7. CASE Repair BY <1>0, <1>i, <1>7 DEF Repair
<1>8. ASSUME NEW C \in fill.groups, AssignStored(C) PROVE Progress'
    BY <1>0, <1>i, <1>8 DEF AssignStored
<1>9. CASE FinishTicker
    <2>1. (~fill.partial) \in BOOLEAN BY <1>0
    <2> QED BY <1>0, <1>i, <1>9, <2>1 DEF FinishTicker
<1>10. CASE TickerFails BY <1>0, <1>i, <1>10 DEF TickerFails
<1>11. CASE ReadBacklog BY <1>0, <1>i, <1>11 DEF ReadBacklog
<1>12. CASE WriteBacklog BY <1>0, <1>i, <1>12 DEF WriteBacklog
<1>13. CASE EndFill
    <2>1. fill.done => (fill.fetched \cap English) \ scored \subseteq blank
        BY <1>13 DEF EndFill, Backlog, Unscored
    <2> QED BY <1>0, <1>i, <1>13, <2>1 DEF EndFill
<1>14. CASE FillKilled BY <1>0, <1>i, <1>14 DEF FillKilled
<1> QED BY <1>1, <1>2, <1>3, <1>4, <1>5, <1>6, <1>7, <1>8, <1>9, <1>10, <1>11, <1>12,
    <1>13, <1>14 DEF Next, NewsBackfill

\* For any articles, windows and failures, a completed run of the backfill has
\* a score for every English article it fetched, whatever narrative_job and
\* the retention did in between.
THEOREM CompletedFillsAreScored == Spec => []BackfillScores
<1>1. Init => Progress
    <2> SUFFICES ASSUME Init PROVE Progress
        OBVIOUS
    <2>1. fill.fetched = {} /\ fill.repair = {} /\ fill.phase = "idle" /\ fill.swept = FALSE
        BY DEF Init
    <2> QED BY <2>1 DEF Progress
<1>2. Typed /\ Progress => BackfillScores
    <2> SUFFICES ASSUME Typed, Progress, fill.done, fill.swept
                 PROVE  fill.repair \cup (fill.fetched \ blank)
                            \subseteq scored \cup (Articles \ English)
        BY DEF BackfillScores
    <2>1. fill.repair \subseteq Articles /\ fill.fetched \subseteq Articles
        BY DEF Typed, TypeOK
    <2> QED BY <2>1 DEF Progress
<1> QED BY <1>1, <1>2, InitTyped, StepTyped, StepProgress, PTL DEF Spec

---------------------------------------------------------------------------
(* Where the two writers overlap.                                          *)

Untouched(a) == cluster[a] = Single \/ Contested(a)

\* What a writer has read as unclustered still is, or is contested: a run of
\* narrative_job holds no group that is older than its window and a unit of
\* time, and the other writer changes only what it has read itself.
Overlap ==
    /\ live.groups # {} => live.phase = "cluster"
    /\ fill.since <= now
    /\ fill.known \subseteq Padded /\ fill.open \subseteq Padded
    /\ \A C \in live.groups : \A a \in C :
           Published[a] >= now - LiveAge - (IF live.late THEN 1 ELSE 0)
    /\ \A C \in live.groups : \A a \in C : Untouched(a)
    /\ fill.phase = "read" => \A a \in fill.open : Untouched(a)
    /\ \A C \in fill.groups : \A a \in Rows(C) : Untouched(a)

\* What narrative_job holds is recent enough to be contested, if the backfill
\* reads it at all.
LEMMA HeldAreRecent ==
    ASSUME Typed, Overlap, NEW C \in live.groups, NEW a \in C
    PROVE  /\ Published[a] >= now - LiveAge - 1
           /\ a \in Padded => Contested(a)
<1>1. /\ a \in Articles /\ Published[a] \in Nat /\ LiveAge \in Nat
      /\ now \in Nat /\ fill.since \in Nat /\ fill.since <= now
    BY NewsAssumption DEF Typed, TypeOK, Overlap
<1>2. Published[a] >= now - LiveAge - (IF live.late THEN 1 ELSE 0) BY DEF Overlap
<1>3. Published[a] >= now - LiveAge - 1 BY <1>1, <1>2
<1> QED BY <1>1, <1>3 DEF Contested

\* An id changes only where the windows of the writers overlap.
LEMMA StepFinal ==
    Typed /\ HeldGroups /\ ClustersAreEvents /\ Overlap /\ [Next]_vars
        => \A a \in Articles :
               cluster[a] # Single /\ cluster'[a] # cluster[a] => Contested(a)
<1> SUFFICES ASSUME Typed, HeldGroups, ClustersAreEvents, Overlap, [Next]_vars,
                    NEW a \in Articles, cluster[a] # Single, cluster'[a] # cluster[a]
             PROVE  Contested(a)
    OBVIOUS
<1>1. ASSUME NEW C \in live.groups, WriteCluster(C) PROVE Contested(a)
    BY <1>1 DEF WriteCluster, Assigned, Overlap, Untouched
<1>2. ASSUME NEW C \in fill.groups, AssignStored(C) PROVE Contested(a)
    BY <1>2 DEF AssignStored, Assigned, Overlap, Untouched
<1>3. CASE InsertNew
    <2>1. a \in stored BY DEF ClustersAreEvents
    <2> QED BY <1>3, <2>1 DEF InsertNew
<1>4. CASE UNCHANGED vars \/ Strip \/ Tick \/ RunFails
    BY <1>4 DEF vars, Strip, Tick, RunFails
<1>5. ASSUME NarrativeJob, \A C \in live.groups : ~WriteCluster(C) PROVE Contested(a)
    BY <1>5 DEF NarrativeJob, StartRun, ReadUnclustered, ClusterFails, ReadUnscored,
        WriteScores, Fetch
<1>6. ASSUME NewsBackfill, ~InsertNew, \A C \in fill.groups : ~AssignStored(C)
      PROVE  Contested(a)
    BY <1>6 DEF NewsBackfill, BeginFill, SkipTicker, ReadPool, Repair,
        FinishTicker, TickerFails, ReadBacklog, WriteBacklog, EndFill, FillKilled
<1> QED BY <1>1, <1>2, <1>3, <1>4, <1>5, <1>6 DEF Next

\* A step that takes no id away and reads nothing keeps the overlap.
LEMMA OverlapStays ==
    ASSUME Typed, Overlap, cluster' = cluster, now' = now,
           live'.groups \subseteq live.groups, live'.late = live.late,
           live'.groups # {} => live'.phase = "cluster",
           fill'.groups \subseteq fill.groups, fill'.since = fill.since,
           fill'.known = fill.known, fill'.open = fill.open,
           fill'.phase = "read" => fill.phase = "read"
    PROVE  Overlap'
BY DEF Overlap, Untouched, Contested, Padded, Rows

\* Every step keeps the overlap.
LEMMA LiveOverlap ==
    Typed /\ HeldGroups /\ Overlap /\ (NarrativeJob \/ RunFails) => Overlap'
<1> SUFFICES ASSUME Typed, HeldGroups, Overlap, NarrativeJob \/ RunFails PROVE Overlap'
    OBVIOUS
<1>0. /\ live \in [phase : LivePhases, groups : SUBSET SUBSET Articles,
                batch : SUBSET Articles, late : BOOLEAN]
      /\ fill.known \subseteq Articles /\ fill.open \subseteq Articles
      /\ fill.known \subseteq Padded /\ fill.open \subseteq Padded
      /\ LiveAge \in Nat /\ now \in Nat /\ Published \in [Articles -> Nat]
      /\ cluster \in [Articles -> Ids \cup {Single}]
    BY NewsAssumption DEF Typed, TypeOK, Overlap
<1>1. CASE StartRun
    <2>1. live'.groups = {} BY <1>1 DEF StartRun, Idle
    <2>2. fill' = fill /\ now' = now /\ cluster' = cluster BY <1>1 DEF StartRun
    <2> QED BY <2>1, <2>2 DEF Overlap, Untouched, Contested, Padded, Rows
<1>2. CASE ReadUnclustered
    <2> DEFINE P == Since(LiveAge) \cap Unclustered
    <2>1. live'.groups = Groups(P, {}) /\ live'.phase = "cluster" /\ live'.late = live.late
          /\ fill' = fill /\ now' = now /\ cluster' = cluster
        BY <1>0, <1>2 DEF ReadUnclustered
    <2>2. \A C \in live'.groups : C \subseteq P BY <2>1, GroupsConnect
    <2>3. \A a \in P : a \in Articles /\ Published[a] >= now - LiveAge /\ cluster[a] = Single
        BY DEF Since, Unclustered, Typed, TypeOK
    <2>4. \A C \in live'.groups : \A a \in C :
              Published[a] >= now - LiveAge - (IF live.late THEN 1 ELSE 0)
        BY <1>0, <2>2, <2>3
    <2>5. \A C \in live'.groups : \A a \in C : cluster[a] = Single BY <2>2, <2>3
    <2> HIDE DEF P
    <2> QED BY <2>1, <2>4, <2>5 DEF Overlap, Untouched, Contested, Padded, Rows
<1>3. CASE ClusterFails
    <2>1. live'.groups = {} /\ fill' = fill /\ now' = now /\ cluster' = cluster
        BY <1>0, <1>3 DEF ClusterFails
    <2> QED BY <2>1 DEF Overlap, Untouched, Contested, Padded, Rows
<1>4. CASE ReadUnscored
    <2>1. live'.groups = {} /\ fill' = fill /\ now' = now /\ cluster' = cluster
        BY <1>0, <1>4 DEF ReadUnscored
    <2> QED BY <2>1 DEF Overlap, Untouched, Contested, Padded, Rows
<1>5. CASE WriteScores \/ RunFails
    <2>1. live'.groups = {} /\ fill' = fill /\ now' = now /\ cluster' = cluster
        BY <1>5 DEF WriteScores, RunFails, Idle
    <2> QED BY <2>1 DEF Overlap, Untouched, Contested, Padded, Rows
<1>6. ASSUME NEW a \in Articles, Fetch(a) PROVE Overlap'
    BY <1>6, OverlapStays DEF Fetch, Overlap
<1>7. ASSUME NEW D \in live.groups, WriteCluster(D) PROVE Overlap'
    <2>1. live'.groups = live.groups \ {D} /\ live'.phase = live.phase
          /\ live'.late = live.late /\ fill' = fill /\ now' = now
          /\ cluster' = Assigned(D, "live", D)
        BY <1>0, <1>7 DEF WriteCluster
    <2>2. \A a \in Articles \ D : cluster'[a] = cluster[a] BY <2>1 DEF Assigned
    <2>3. \A a \in D : a \in Padded => Contested(a) BY HeldAreRecent
    <2>4. \A C \in live'.groups : C \subseteq Articles /\ C \cap D = {}
        BY <1>0, <2>1 DEF HeldGroups
    <2>5. \A C \in live'.groups : \A a \in C : cluster'[a] = Single \/ Contested(a)
        BY <2>1, <2>2, <2>4 DEF Overlap, Untouched
    <2>6. \A a \in Articles : a \in Padded /\ Untouched(a)
              => cluster'[a] = Single \/ Contested(a)
        BY <2>2, <2>3 DEF Untouched
    <2>7. fill.phase = "read" => \A a \in fill.open : cluster'[a] = Single \/ Contested(a)
        BY <1>0, <2>6 DEF Overlap
    <2>8. \A C \in fill.groups : \A a \in Rows(C) : cluster'[a] = Single \/ Contested(a)
        BY <1>0, <2>6 DEF Overlap, Rows
    <2> QED BY <2>1, <2>5, <2>7, <2>8 DEF Overlap, Untouched, Contested, Padded, Rows
<1> QED BY <1>1, <1>2, <1>3, <1>4, <1>5, <1>6, <1>7 DEF NarrativeJob

\* So does every step of the backfill: what it reads is unclustered, and what
\* it writes is in its window.
LEMMA FillOverlap ==
    Typed /\ HeldGroups /\ ClustersAreEvents /\ Overlap /\ NewsBackfill => Overlap'
<1> SUFFICES ASSUME Typed, HeldGroups, ClustersAreEvents, Overlap, NewsBackfill
             PROVE  Overlap'
    OBVIOUS
<1>0. /\ fill \in [phase : FillPhases, new : SUBSET Articles, repair : SUBSET Articles,
                open : SUBSET Articles, groups : SUBSET SUBSET Articles,
                known : SUBSET Articles, batch : SUBSET Articles, since : Nat,
                fetched : SUBSET Articles, partial : BOOLEAN, done : BOOLEAN,
                swept : BOOLEAN, run : Nat]
      /\ stored \subseteq Articles /\ fill.known \subseteq stored /\ fill.open \subseteq stored
      /\ live.groups \subseteq SUBSET Articles
    BY DEF Typed, TypeOK
<1>1. ASSUME NEW F \in SUBSET Articles, NEW failed \in BOOLEAN, BeginFill(F, failed)
      PROVE  Overlap'
    <2>1. fill'.groups = {} /\ fill'.known = {} /\ fill'.since = now
          /\ fill'.open = ((F \cap stored) \ scored) \cap Unclustered
          /\ live' = live /\ now' = now /\ cluster' = cluster /\ F \subseteq InWindow
        BY <1>1 DEF BeginFill
    <2>2. Padded' = Padded /\ InWindow \subseteq Padded
        BY NewsAssumption DEF Padded, InWindow
    <2>3. fill'.open \subseteq Padded /\ \A a \in fill'.open : cluster[a] = Single
        BY <2>1, <2>2 DEF Unclustered
    <2>4. \A C \in live.groups : \A a \in C : cluster[a] = Single \/ Contested(a)'
        <3> SUFFICES ASSUME NEW C \in live.groups, NEW a \in C, cluster[a] # Single
                     PROVE  Contested(a)'
            OBVIOUS
        <3>1. a \in Padded BY DEF Overlap, Untouched, Contested
        <3>2. Published[a] >= now - LiveAge - 1 BY HeldAreRecent
        <3> QED BY <2>1, <2>2, <3>1, <3>2 DEF Contested
    <2>5. now \in Nat /\ now <= now BY DEF Typed, TypeOK
    <2> QED BY <2>1, <2>2, <2>3, <2>4, <2>5 DEF Overlap, Untouched
<1>2. CASE ReadPool
    <2> DEFINE known == (Unclustered \cap Padded) \ blank
               P == fill.new \cup known \cup fill.open
    <2>1. fill'.groups = Groups(P, fill.new \cap known) /\ fill'.known = known
          /\ fill'.open = fill.open /\ fill'.since = fill.since /\ fill'.phase = "insert"
          /\ live' = live /\ now' = now /\ cluster' = cluster /\ fill.phase = "read"
        BY <1>0, <1>2 DEF ReadPool
    <2>2. \A a \in known : cluster[a] = Single /\ a \in Padded BY DEF Unclustered
    <2> HIDE DEF known, P
    <2>3. \A a \in known \cup fill.open : Untouched(a)
        BY <2>1, <2>2 DEF Overlap, Untouched
    <2> QED BY <2>1, <2>2, <2>3 DEF Overlap, Untouched, Contested, Padded, Rows
<1>3. CASE InsertNew
    <2>1. fill' = [fill EXCEPT !.phase = "repair"] /\ live' = live /\ now' = now
        BY <1>3 DEF InsertNew
    <2>2. \A a \in stored : cluster'[a] = cluster[a] BY <1>0, <1>3 DEF InsertNew
    <2>3. fill'.groups = fill.groups /\ fill'.known = fill.known /\ fill'.open = fill.open
          /\ fill'.since = fill.since /\ fill'.phase = "repair"
        BY <1>0, <2>1
    <2>4. \A C \in live.groups : \A a \in C : cluster'[a] = cluster[a]
        BY <2>2 DEF HeldGroups
    <2>5. \A C \in fill.groups : \A a \in Rows(C) : cluster'[a] = cluster[a]
        BY <1>0, <2>2 DEF Rows
    <2> QED BY <2>1, <2>3, <2>4, <2>5 DEF Overlap, Untouched, Contested, Padded, Rows
<1>4. ASSUME NEW D \in fill.groups, AssignStored(D) PROVE Overlap'
    <2>1. fill'.groups = fill.groups \ {D} /\ fill'.known = fill.known
          /\ fill'.open = fill.open /\ fill'.since = fill.since /\ fill'.phase = "assign"
          /\ live' = live /\ now' = now /\ cluster' = Assigned(Rows(D), "fill", D)
        BY <1>0, <1>4 DEF AssignStored
    <2>2. \A a \in Articles \ Rows(D) : cluster'[a] = cluster[a] BY <2>1 DEF Assigned
    <2>3. \A C \in fill'.groups : Rows(C) \cap Rows(D) = {} /\ Rows(C) \subseteq Articles
        BY <1>0, <2>1 DEF HeldGroups, Rows
    <2>4. \A C \in fill'.groups : \A a \in Rows(C) : cluster'[a] = Single \/ Contested(a)
        BY <2>1, <2>2, <2>3 DEF Overlap, Untouched
    <2>5. Rows(D) \subseteq Padded BY DEF Overlap, Rows
    <2>6. \A C \in live.groups : \A a \in C : cluster'[a] = Single \/ Contested(a)
        <3> SUFFICES ASSUME NEW C \in live.groups, NEW a \in C
                     PROVE  cluster'[a] = Single \/ Contested(a)
            OBVIOUS
        <3>1. CASE a \in Rows(D) BY <2>5, <3>1, HeldAreRecent
        <3>2. CASE a \notin Rows(D) BY <1>0, <2>2, <3>2 DEF Overlap, Untouched
        <3> QED BY <3>1, <3>2
    <2> QED BY <2>1, <2>4, <2>6 DEF Overlap, Untouched, Contested, Padded, Rows
<1>5. CASE SkipTicker BY <1>0, <1>5, OverlapStays DEF SkipTicker, Overlap
<1>6. CASE Repair BY <1>0, <1>6, OverlapStays DEF Repair, Overlap
<1>7. CASE FinishTicker BY <1>0, <1>7, OverlapStays DEF FinishTicker, Overlap
<1>8. CASE TickerFails BY <1>0, <1>8, OverlapStays DEF TickerFails, Overlap
<1>9. CASE ReadBacklog BY <1>0, <1>9, OverlapStays DEF ReadBacklog, Overlap
<1>10. CASE WriteBacklog BY <1>0, <1>10, OverlapStays DEF WriteBacklog, Overlap
<1>11. CASE EndFill BY <1>0, <1>11, OverlapStays DEF EndFill, Overlap
<1>12. CASE FillKilled BY <1>0, <1>12, OverlapStays DEF FillKilled, Overlap
<1> QED BY <1>1, <1>2, <1>3, <1>4, <1>5, <1>6, <1>7, <1>8, <1>9, <1>10, <1>11, <1>12
    DEF NewsBackfill

\* Time and retention leave the ids alone; a run that is already late is over
\* before the next unit of time.
LEMMA StepOverlap ==
    Typed /\ HeldGroups /\ ClustersAreEvents /\ Overlap /\ [Next]_vars => Overlap'
<1> SUFFICES ASSUME Typed, HeldGroups, ClustersAreEvents, Overlap, [Next]_vars
             PROVE  Overlap'
    OBVIOUS
<1>1. CASE UNCHANGED vars \/ Strip
    BY <1>1, OverlapStays DEF vars, Strip, Overlap
<1>2. CASE Tick
    <2>1. (live.phase # "idle") \in BOOLEAN OBVIOUS
    <2>2. live \in [phase : LivePhases, groups : SUBSET SUBSET Articles,
                    batch : SUBSET Articles, late : BOOLEAN]
        BY DEF Typed, TypeOK
    <2>3. live'.groups = live.groups /\ live'.phase = live.phase
          /\ (live.groups # {} => live'.late = TRUE) /\ live.late = FALSE
        BY <1>2, <2>1, <2>2 DEF Tick, Overlap
    <2>4. now' = now + 1 /\ fill' = fill /\ cluster' = cluster BY <1>2 DEF Tick
    <2>5. now \in Nat /\ fill.since \in Nat /\ LiveAge \in Nat
          /\ live.groups \subseteq SUBSET Articles /\ Published \in [Articles -> Nat]
        BY NewsAssumption DEF Typed, TypeOK
    <2>6. fill'.since <= now' BY <2>4, <2>5 DEF Overlap
    <2>7. \A C \in live'.groups : \A a \in C :
              Published[a] >= now' - LiveAge - (IF live'.late THEN 1 ELSE 0)
        <3> SUFFICES ASSUME NEW C \in live.groups, NEW a \in C
                     PROVE  Published[a] >= (now + 1) - LiveAge - 1
            BY <2>3, <2>4
        <3>1. Published[a] >= now - LiveAge BY <2>3, <2>5 DEF Overlap
        <3> QED BY <2>5, <3>1
    <2> QED BY <2>3, <2>4, <2>6, <2>7 DEF Overlap, Untouched, Contested, Padded, Rows
<1> QED BY <1>1, <1>2, LiveOverlap, FillOverlap DEF Next

\* For any articles, windows and runs of the two writers, an article keeps its
\* id for good unless the windows of the two overlap on it.
THEOREM IdsAreFinal == Spec => ClusterIsFinal
<1>1. Init => HeldGroups /\ ClustersAreEvents /\ Overlap
    <2> SUFFICES ASSUME Init PROVE HeldGroups /\ ClustersAreEvents /\ Overlap
        OBVIOUS
    <2>1. live.groups = {} /\ fill.groups = {} /\ fill.phase = "idle" /\ fill.since = now
          /\ fill.known = {} /\ fill.open = {} /\ now \in Nat
        BY NewsAssumption DEF Init, Idle
    <2> QED BY <2>1 DEF Init, HeldGroups, ClustersAreEvents, Overlap
<1> QED BY <1>1, InitTyped, StepTyped, StepHeld, StepEvents, StepOverlap, StepFinal, PTL
    DEF Spec, ClusterIsFinal

---------------------------------------------------------------------------
(***************************************************************************)
(* The voice of a cluster.                                                 *)
(***************************************************************************)

\* Among finitely many articles one has the greatest value of f: what lies above an
\* article shrinks as its value grows, and proper inclusion is well-founded here.
LEMMA GreatestOf ==
    ASSUME NEW S \in SUBSET Articles, S # {}, NEW f \in [Articles -> Nat]
    PROVE  \E a \in S : \A b \in S : f[b] <= f[a]
<1> DEFINE Above(a) == {b \in S : f[a] < f[b]}
           T == {Above(a) : a \in S}
<1>0. IsFiniteSet(S) BY NewsAssumption, FS_Subset
<1>1. T \subseteq SUBSET S /\ \E x : x \in T
    <2>1. PICK a \in S : TRUE OBVIOUS
    <2> QED BY <2>1
<1> HIDE DEF T
<1>2. PICK x \in T : \A y \in T : ~ (<<y, x>> \in StrictSubsetOrdering(S))
    <2>1. IsWellFoundedOn(StrictSubsetOrdering(S), SUBSET S)
        BY <1>0, FS_StrictSubsetOrderingWellFounded, FS_FiniteSubsetsOfFinite
    <2>2. T \subseteq SUBSET S /\ T # {} BY <1>1
    <2> QED BY <2>1, <2>2, WFMin
<1>3. PICK a \in S : x = Above(a) BY DEF T
<1>4. ASSUME NEW b \in S, f[a] < f[b] PROVE FALSE
    <2>1. Above(b) \in T BY DEF T
    <2>2. Above(b) \subseteq Above(a) /\ b \in Above(a) /\ b \notin Above(b) BY <1>4
    <2> QED BY <1>1, <1>2, <1>3, <2>1, <2>2 DEF StrictSubsetOrdering
<1> QED BY <1>4

\* Relevance, and time where it ties, always leaves an article that none outranks.
LEMMA OneLeads ==
    ASSUME NEW S \in SUBSET Articles, S # {}
    PROVE  \E b \in S : \A c \in S : ~Outranks(c, b)
<1>1. Relevance \in [Articles -> Nat] /\ Published \in [Articles -> Nat]
    BY NewsAssumption
<1>2. PICK a \in S : \A b \in S : Relevance[b] <= Relevance[a] BY <1>1, GreatestOf
<1> DEFINE Best == {b \in S : Relevance[b] = Relevance[a]}
<1>3. PICK b \in Best : \A c \in Best : Published[c] <= Published[b]
    BY <1>1, <1>2, GreatestOf
<1>4. ASSUME NEW c \in S PROVE ~Outranks(c, b)
    <2>1. Relevance[c] \in Nat /\ Relevance[b] \in Nat /\ Published[c] \in Nat /\ Published[b] \in Nat
        BY <1>1
    <2>2. Relevance[c] <= Relevance[b] BY <1>2, <1>3
    <2>3. Relevance[c] = Relevance[b] => Published[c] <= Published[b] BY <1>3
    <2> QED BY <2>1, <2>2, <2>3 DEF Outranks
<1> QED BY <1>3, <1>4

\* The vote of an event with a relevant article is cast, by that article or by
\* another of its cluster: for any clusters, relevances and times.
THEOREM EventsAreHeard == Spec => []UsableNewsIsHeard
<1>1. Typed => UsableNewsIsHeard
    <2> SUFFICES ASSUME Typed, NEW a \in Recent, Relevance[a] >= Threshold
                 PROVE  \E b \in Rivals(a) : b \in Voices
        BY DEF UsableNewsIsHeard
    <2>1. a \in Articles /\ Rivals(a) \in SUBSET Articles /\ a \in Rivals(a)
        BY DEF Recent, Rivals, Since, Typed, TypeOK
    <2> DEFINE b == CHOOSE x \in Rivals(a) : \A c \in Rivals(a) : ~Outranks(c, x)
    <2>2. b \in Rivals(a) /\ \A c \in Rivals(a) : ~Outranks(c, b)
        BY <2>1, OneLeads
    <2>3. b \in Chosen BY DEF Chosen
    <2> HIDE DEF b
    <2>4. Relevance[a] \in Nat /\ Relevance[b] \in Nat /\ Threshold \in Nat
        BY <2>1, <2>2, NewsAssumption
    <2>5. ~Outranks(a, b) BY <2>1, <2>2
    <2>6. Relevance[b] >= Threshold BY <2>4, <2>5 DEF Outranks
    <2> QED BY <2>2, <2>3, <2>6 DEF Voices
<1>2. Typed /\ [Next]_vars => Typed' BY StepTyped
<1> QED BY <1>1, <1>2, InitTyped, PTL DEF Spec
=============================================================================
