------------------------ MODULE ServedScores_proofs ------------------------
(***************************************************************************)
(* Proofs about ServedScores for any table, snapshots, rows, prices and    *)
(* numbers of jobs, requests and runs of the tool: the table stays         *)
(* consistent with its past and with a run that has committed, a retired   *)
(* symbol stays silent, and an answer is as new as what there was when the *)
(* request came in.  The invariant says what each actor may still assume   *)
(* of what it read: the tool of its plan and of the rows it counted, the   *)
(* job of the state it published, and the request of what it has so far.   *)
(* Its scores make the moves of ScoreLedger, as those of the tick do.      *)
(* About the formulas: the ranks of a cross-section and the forms in which *)
(* one score is served.                                                    *)
(***************************************************************************)
EXTENDS ServedScores, AnswersAlike, CrossSection, FiniteSetTheorems, TLAPS

Plans == [retire : SUBSET Symbols, flag : SUBSET Symbols, resector : SUBSET Symbols,
          add : SUBSET Symbols]
Stages == {"idle", "planned", "archived", "committed"}
RunRecords == [stage : Stages, plan : Plans, queries : SUBSET QueryKinds, due : Nat, calm : BOOLEAN]
RequestRecords ==
    [stage : {"idle", "redis", "fallback", "found", "percentile", "done"},
     before : SUBSET Nat, since : Nat, at : Nat, pct : Nat, xs : Nat,
     answer : {"none", "score", "insufficient_data", "ticker_not_found", "delisted"},
     failed : BOOLEAN]

\* The snapshots, as a behaviour starts with them: c of the constituents, x of the
\* symbols that stopped trading.
AreConstituents(c) == DOMAIN c \subseteq Symbols /\ \A t \in DOMAIN c : c[t] # NoSector
AreChanges(x) ==
    /\ DOMAIN x \subseteq Symbols
    /\ \A t \in DOMAIN x : /\ x[t] \in [last : Nat \ {Listed}, successor : Symbols \cup {NoSymbol}]
                           /\ x[t].successor \notin DOMAIN x
FixedOK ==
    /\ symbol \in Symbols /\ AreConstituents(constituents) /\ AreChanges(changes)
    /\ \A t \in DOMAIN reused : reused[t] \in Nat

\* The types, with the parts of the records.
Typed ==
    /\ TypeOK /\ FixedOK /\ IsFiniteSet(rows)
    /\ tool \in RunRecords /\ req \in RequestRecords
USE DEF RunRecords, RequestRecords

\* What the columns of retirement say is what the snapshot says, and lies in the past.
Agrees(u, x, n) ==
    \A t \in DOMAIN u :
        /\ u[t].added <= n
        /\ u[t].delisted # Listed => t \in DOMAIN x /\ u[t].delisted = x[t].last /\ x[t].last < n
        /\ u[t].successor # NoSymbol => u[t].delisted # Listed /\ u[t].successor = x[t].successor
ColumnsAgree == Agrees(universe, changes, now)

\* An active ticker of the past is in the table, from no later than then; and who was
\* listed then was active.
PastKept ==
    \A w \in 1 .. now - 1 :
        /\ \A t \in activeAt[w] : t \in DOMAIN universe /\ universe[t].added <= w
        /\ \A t \in DOMAIN universe :
              /\ universe[t].added <= w
              /\ universe[t].delisted = Listed \/ universe[t].delisted > w
              => t \in activeAt[w]

\* Until the transaction the plan is the one that would be made now; and what it adds
\* is in no snapshot of changes.
PlanStands ==
    /\ tool.stage \in {"planned", "archived"} =>
          /\ tool.plan = plan_update(universe, constituents, changes)
          /\ IsSound(universe, constituents, changes, tool.plan)
          /\ \A t \in DOMAIN changes : changes[t].last < now
    /\ tool.stage # "idle" => tool.plan.add \cap DOMAIN changes = {}

UniverseInv == Typed /\ ColumnsAgree /\ PastKept /\ PlanStands /\ UpdateConverges

---------------------------------------------------------------------------
(* The plan.                                                               *)

\* A plan is made of tickers, and adds none that stopped trading.
LEMMA PlanTyped ==
    ASSUME NEW u, IsTable(u), NEW c, AreConstituents(c), NEW x, AreChanges(x)
    PROVE  /\ plan_update(u, c, x) \in Plans
           /\ plan_update(u, c, x).add \cap DOMAIN x = {}
<1> DEFINE p == plan_update(u, c, x)
<1>1. p.retire \subseteq Symbols /\ p.flag \subseteq Symbols /\ p.resector \subseteq Symbols
    BY DEF plan_update, PlanRetire, PlanFlag, PlanResector, retired, IsTable, AreConstituents
<1>2. AddMembers(u, c, x) \subseteq Symbols /\ AddMembers(u, c, x) \cap DOMAIN x = {}
    BY DEF AddMembers, AreConstituents
<1>3. AddSuccessors(u, c, x) \subseteq Symbols /\ AddSuccessors(u, c, x) \cap DOMAIN x = {}
    BY DEF AddSuccessors, AreChanges
<1> QED BY <1>1, <1>2, <1>3 DEF plan_update, Plans

\* A flag that is set anew or kept is a flag.
LEMMA FlagIsBoolean ==
    ASSUME NEW A, NEW B, NEW flag \in BOOLEAN, NEW t
    PROVE  (IF t \in A THEN t \in B ELSE flag) \in BOOLEAN
<1>1. (t \in B) \in BOOLEAN OBVIOUS
<1>2. CASE t \in A
    <2>1. (IF t \in A THEN t \in B ELSE flag) = (t \in B) BY <1>2, Zenon
    <2> QED BY <1>1, <2>1, Zenon
<1>3. CASE t \notin A
    <2>1. (IF t \in A THEN t \in B ELSE flag) = flag BY <1>3, Zenon
    <2> QED BY <2>1, Zenon
<1> QED BY <1>2, <1>3

\* A row is made of its fields.
LEMMA RowMade ==
    ASSUME NEW a \in Nat, NEW d \in Nat, NEW r \in Symbols \cup {NoSymbol}, NEW b \in BOOLEAN,
           NEW e \in SECTOR_ETFS \cup {NoSector}
    PROVE  [added |-> a, delisted |-> d, successor |-> r, sp500 |-> b, sector |-> e] \in Row
BY DEF Row

\* A sound plan leaves a table behind.
LEMMA AppliedIsTable ==
    ASSUME NEW u, IsTable(u), NEW c, AreConstituents(c), NEW x, AreChanges(x), NEW n \in Nat,
           IsSound(u, c, x, plan_update(u, c, x))
    PROVE  IsTable(Applied(u, c, x, plan_update(u, c, x), n))
<1> DEFINE p == plan_update(u, c, x)
           v == Applied(u, c, x, p, n)
<1>1. DOMAIN v = DOMAIN u \cup p.add /\ p \in Plans BY PlanTyped DEF Applied
<1>2. ASSUME NEW t \in DOMAIN u PROVE v[t] \in Row
    <2>1. u[t] \in Row BY DEF IsTable
    <2>2. t \in p.retire => x[t].last \in Nat /\ x[t].successor \in Symbols \cup {NoSymbol}
        BY DEF plan_update, PlanRetire, retired, AreChanges
    <2>3. t \in p.resector => c[t] \in SECTOR_ETFS
        BY DEF IsSound, PlannedSector, plan_update, PlanResector
    <2> DEFINE d == IF t \in p.retire THEN x[t].last ELSE u[t].delisted
               r == IF t \in p.retire THEN x[t].successor ELSE u[t].successor
               b == IF t \in p.flag THEN t \in DOMAIN c ELSE u[t].sp500
               e == IF t \in p.resector THEN c[t] ELSE u[t].sector
    <2>4. v[t] = [added |-> u[t].added, delisted |-> d, successor |-> r, sp500 |-> b, sector |-> e]
        BY DEF Applied
    <2> HIDE DEF p
    <2>5. u[t].sp500 \in BOOLEAN BY <2>1 DEF Row
    <2>6. b \in BOOLEAN BY <2>5, FlagIsBoolean
    <2>7. /\ u[t].added \in Nat /\ d \in Nat /\ r \in Symbols \cup {NoSymbol}
          /\ e \in SECTOR_ETFS \cup {NoSector}
        BY <2>1, <2>2, <2>3 DEF Row
    <2> HIDE DEF d, r, b, e, v
    <2> QED BY <2>4, <2>6, <2>7, RowMade
<1>3. ASSUME NEW t \in p.add \ DOMAIN u PROVE v[t] \in Row
    <2>1. PlannedSector(u, c, x, t) \in SECTOR_ETFS BY DEF IsSound
    <2> DEFINE b == t \in DOMAIN c
               e == PlannedSector(u, c, x, t)
    <2>2. v[t] = [added |-> n, delisted |-> 0, successor |-> NoSymbol, sp500 |-> b, sector |-> e]
        BY DEF Applied, Listed
    <2>3. b \in BOOLEAN OBVIOUS
    <2>4. 0 \in Nat /\ e \in SECTOR_ETFS \cup {NoSector} /\ NoSymbol \in Symbols \cup {NoSymbol}
        BY <2>1
    <2> HIDE DEF p, v, b, e
    <2> QED BY <2>2, <2>3, <2>4, RowMade
<1>4. DOMAIN v \subseteq Symbols /\ \A t \in DOMAIN v : v[t] \in Row
    <2> HIDE DEF v, p
    <2> QED BY <1>1, <1>2, <1>3 DEF IsTable, Plans
<1> QED BY <1>4 DEF IsTable

\* What the plan did, it does not plan again.
LEMMA AppliedConverges ==
    ASSUME NEW u, IsTable(u), NEW c, AreConstituents(c), NEW x, AreChanges(x), NEW n \in Nat,
           IsSound(u, c, x, plan_update(u, c, x))
    PROVE  plan_update(Applied(u, c, x, plan_update(u, c, x), n), c, x) = NothingToDo
<1> DEFINE p == plan_update(u, c, x)
           v == Applied(u, c, x, p, n)
<1>1. DOMAIN v = DOMAIN u \cup p.add /\ p.add \cap DOMAIN x = {} BY PlanTyped DEF Applied
<1>2. PlanRetire(v, x) = {}
    <2> SUFFICES ASSUME NEW t \in DOMAIN v \cap DOMAIN x PROVE v[t].delisted = x[t].last
        BY DEF PlanRetire, retired
    <2>1. t \in DOMAIN u BY <1>1
    <2>2. t \in p.retire \/ u[t].delisted = x[t].last
        BY <2>1 DEF plan_update, PlanRetire, retired
    <2> HIDE DEF p
    <2> QED BY <2>1, <2>2 DEF Applied
<1>3. PlanFlag(v, c) = {}
    <2> SUFFICES ASSUME NEW t \in DOMAIN v PROVE v[t].sp500 = (t \in DOMAIN c)
        BY DEF PlanFlag
    <2>1. CASE t \in DOMAIN u
        <3>1. t \in p.flag \/ u[t].sp500 = (t \in DOMAIN c)
            BY <2>1 DEF plan_update, PlanFlag
        <3> HIDE DEF p
        <3> QED BY <2>1, <3>1 DEF Applied
    <2>2. CASE t \notin DOMAIN u
        <3> HIDE DEF p
        <3> QED BY <1>1, <2>2 DEF Applied
    <2> QED BY <2>1, <2>2
<1>4. PlanResector(v, c, x) = {}
    <2> SUFFICES ASSUME NEW t \in DOMAIN v \cap DOMAIN c, t \notin DOMAIN x PROVE v[t].sector = c[t]
        BY DEF PlanResector
    <2>1. CASE t \in DOMAIN u
        <3>1. t \in p.resector \/ u[t].sector = c[t]
            BY <2>1 DEF plan_update, PlanResector
        <3> HIDE DEF p
        <3> QED BY <2>1, <3>1 DEF Applied
    <2>2. CASE t \notin DOMAIN u
        <3> HIDE DEF p
        <3> QED BY <1>1, <2>2 DEF Applied, PlannedSector
    <2> QED BY <2>1, <2>2
<1>5. p.add = AddMembers(u, c, x) \cup AddSuccessors(u, c, x) BY DEF plan_update
<1>6. AddMembers(v, c, x) = {}
    <2> HIDE DEF p, v
    <2> QED BY <1>1, <1>5 DEF AddMembers
<1>7. AddSuccessors(v, c, x) = {}
    <2> HIDE DEF p, v
    <2> QED BY <1>1, <1>5 DEF AddSuccessors
<1> HIDE DEF p, v
<1>8. plan_update(v, c, x) = NothingToDo
    BY <1>2, <1>3, <1>4, <1>6, <1>7 DEF plan_update, NothingToDo
<1> QED BY <1>8 DEF p, v

---------------------------------------------------------------------------
(* Types.                                                                  *)

\* What queries select are rows, finitely many.
LEMMA SelectsRows ==
    ASSUME Typed, NEW Q \in SUBSET QueryKinds
    PROVE  SelectedBy(Q) \subseteq rows /\ Cardinality(SelectedBy(Q)) \in Nat
<1>1. After \subseteq rows /\ OfAnother \subseteq rows BY DEF After, OfAnother
<1>2. ASSUME NEW q \in QueryKinds PROVE Selected(q) \subseteq rows
    BY <1>1 DEF Selected, QueryKinds
<1>3. SelectedBy(Q) \subseteq rows BY <1>2 DEF SelectedBy
<1>4. IsFiniteSet(rows) BY DEF Typed
<1>5. IsFiniteSet(SelectedBy(Q)) BY <1>3, <1>4, FS_Subset
<1> QED BY <1>3, <1>5, FS_CardinalityType

\* Scores are times, and those of the rows that are kept.
LEMMA ScoresTyped ==
    ASSUME Typed
    PROVE  /\ Scores \subseteq Nat
           /\ \A a : a \in Scores <=> \E r \in rows : r.kind = "score" /\ r.at = a
<1>1. \A r \in rows : r.at \in Nat BY DEF Typed, TypeOK, IsRow
<1> QED BY <1>1 DEF Scores

\* Finitely many times have a latest one: what lies after a time shrinks as the time
\* grows, and proper inclusion is well-founded on the subsets of a finite set.
LEMMA LatestOf ==
    ASSUME NEW S \in SUBSET Nat, IsFiniteSet(S), S # {}
    PROVE  Latest(S) \in S /\ \A b \in S : b <= Latest(S)
<1> DEFINE Later(a) == {b \in S : a < b}
           T == {Later(a) : a \in S}
<1>1. T \subseteq SUBSET S /\ \E x : x \in T
    <2>1. PICK a \in S : TRUE OBVIOUS
    <2> QED BY <2>1
<1> HIDE DEF T
<1>2. PICK x \in T : \A y \in T : ~ (<<y, x>> \in StrictSubsetOrdering(S))
    <2>1. IsWellFoundedOn(StrictSubsetOrdering(S), SUBSET S)
        BY FS_StrictSubsetOrderingWellFounded, FS_FiniteSubsetsOfFinite
    <2>2. T \subseteq SUBSET S /\ T # {} BY <1>1
    <2> QED BY <2>1, <2>2, WFMin
<1>3. PICK a \in S : x = Later(a) BY DEF T
<1>4. ASSUME NEW b \in S, a < b PROVE FALSE
    <2>1. Later(b) \in T BY DEF T
    <2>2. Later(b) \subseteq Later(a) /\ b \in Later(a) /\ b \notin Later(b)
        <3>1. a \in Nat /\ b \in Nat /\ S \subseteq Nat OBVIOUS
        <3>2. ASSUME NEW c \in S, b < c PROVE a < c BY <1>4, <3>1, <3>2
        <3>3. ~(b < b) BY <3>1
        <3> QED BY <1>4, <3>2, <3>3
    <2> QED BY <1>1, <1>2, <1>3, <2>1, <2>2 DEF StrictSubsetOrdering
<1>5. \A b \in S : b <= a BY <1>4
<1> QED BY <1>5 DEF Latest

\* The rows are finitely many, and so are the scores.
LEMMA LatestScore ==
    ASSUME Typed, Scores # {}
    PROVE  Latest(Scores) \in Scores /\ \A b \in Scores : b <= Latest(Scores)
<1> DEFINE at == [r \in rows |-> r.at]
           all == {at[r] : r \in rows}
<1>1. IsFiniteSet(all)
    <2>1. IsFiniteSet(rows) BY DEF Typed
    <2>2. at \in Surjection(rows, all) BY DEF Surjection
    <2> HIDE DEF at, all
    <2> QED BY <2>1, <2>2, FS_Surjection
<1>2. Scores \subseteq all BY DEF Scores
<1>3. IsFiniteSet(Scores) BY <1>1, <1>2, FS_Subset
<1> QED BY <1>3, ScoresTyped, LatestOf

\* The queries of a run are kinds of queries.
LEMMA CleanupTyped == Cleanup \subseteq QueryKinds
BY DEF Cleanup, QueryKinds

\* The initial state is typed.
LEMMA InitTyped == Init => Typed
<1> SUFFICES ASSUME Init PROVE Typed
    OBVIOUS
<1>1. FixedOK BY DEF Init, Snapshots, FixedOK, AreConstituents, AreChanges
<1>2. rows = {} /\ IsFiniteSet(rows) BY FS_EmptySet DEF Init
<1>3. tool \in RunRecords
    <2>1. NothingToDo \in Plans BY DEF NothingToDo, Plans
    <2> QED BY <2>1 DEF Init, NoRun, Stages
<1>4. req \in RequestRecords
    BY DEF Init, NoRequest, Never
<1>5. now = 1 /\ now \in 1 .. MaxTime + 1 /\ runs \in 0 .. MaxRuns
    BY ServingAssumption DEF Init
<1>6. activeAt \in [1 .. now - 1 -> SUBSET Symbols]
    <2>1. 1 .. now - 1 = {} BY <1>5
    <2>2. activeAt = <<>> BY DEF Init
    <2> QED BY <2>1, <2>2
<1>7. /\ IsTable(universe) /\ redis \in [at : Nat, live : BOOLEAN]
      /\ pct \in [at : Nat, has : BOOLEAN] /\ xs \in [at : Nat, has : BOOLEAN]
      /\ batch = {} /\ wrote = "nothing" /\ clean = FALSE
    BY DEF Init, Snapshots, NoStats, Never
<1> QED BY <1>1, <1>2, <1>3, <1>4, <1>5, <1>6, <1>7 DEF Typed, TypeOK, Stages

\* The snapshots do not change.
LEMMA FixedKept == ASSUME FixedOK, UNCHANGED fixed PROVE FixedOK'
BY DEF FixedOK, fixed

\* The steps of the job keep the types.
LEMMA JobsTyped == ASSUME Typed, Jobs PROVE Typed'
<1> USE DEF Typed, TypeOK
<1>1. CASE Load
    <2>1. FixedOK' BY <1>1, FixedKept DEF Load
    <2>2. batch' \subseteq Symbols BY <1>1 DEF Load, get_active_tickers, IsTable
    <2>3. tool' \in RunRecords
        <3> DEFINE calm == tool.calm /\ batch' \cap retired(universe, changes) = {}
        <3>1. calm \in BOOLEAN OBVIOUS
        <3>2. tool' = [tool EXCEPT !.calm = calm] BY <1>1 DEF Load
        <3> HIDE DEF calm
        <3> QED BY <3>1, <3>2
    <2>4. wrote' = "nothing" BY <1>1 DEF Load
    <2> QED BY <1>1, <2>1, <2>2, <2>3, <2>4 DEF Load, table, Stages
<1>2. CASE Publish
    <2>1. FixedOK' BY <1>2, FixedKept DEF Publish
    <2>2. redis' = [at |-> now, live |-> TRUE] /\ now \in Nat BY <1>2, ServingAssumption DEF Publish
    <2> QED BY <1>2, <2>1, <2>2 DEF Publish, table, update
<1>3. CASE Record
    <2>1. FixedOK' BY <1>3, FixedKept DEF Record
    <2> DEFINE new == [kind |-> "score", at |-> redis.at, value |-> Never]
    <2>2. IsRow(new) BY DEF IsRow
    <2>3. rows' = rows \cup {new} BY <1>3 DEF Record
    <2> HIDE DEF new
    <2>4. IsFiniteSet(rows') /\ \A r \in rows' : IsRow(r) BY <2>2, <2>3, FS_AddElement
    <2>5. \A r \in rows' : IsRow(r)' BY <2>4 DEF IsRow
    <2> QED BY <1>3, <2>1, <2>4, <2>5 DEF Record, table, update
<1>4. CASE Finish
    <2>1. FixedOK' BY <1>4, FixedKept DEF Finish
    <2>2. (wrote = "row") \in BOOLEAN /\ now \in Nat BY ServingAssumption
    <2> DEFINE new == [at |-> now, has |-> wrote = "row"]
    <2>3. new \in [at : Nat, has : BOOLEAN] BY <2>2
    <2>4. (pct' = new /\ xs' = new) \/ (pct' = pct /\ xs' = xs) BY <1>4 DEF Finish
    <2> HIDE DEF new
    <2> QED BY <1>4, <2>1, <2>3, <2>4 DEF Finish, table, update
<1>5. CASE LoseKey
    <2>1. FixedOK' BY <1>5, FixedKept DEF LoseKey
    <2> QED BY <1>5, <2>1 DEF LoseKey, table, update
<1>6. ASSUME NEW v \in Values, Ingest(v) PROVE Typed'
    <2>1. FixedOK' BY <1>6, FixedKept DEF Ingest
    <2> DEFINE one == [kind |-> "derived", at |-> now, value |-> Never]
               two == [kind |-> "price", at |-> now, value |-> v]
    <2>2. IsRow(one) /\ IsRow(two) BY ServingAssumption DEF IsRow
    <2>3. rows' = (rows \cup {one}) \cup {two} BY <1>6 DEF Ingest
    <2> HIDE DEF one, two
    <2>4. IsFiniteSet(rows') /\ \A r \in rows' : IsRow(r) BY <2>2, <2>3, FS_AddElement
    <2> QED BY <1>6, <2>1, <2>4 DEF Ingest, table, update, scores
<1> QED BY <1>1, <1>2, <1>3, <1>4, <1>5, <1>6 DEF Jobs

\* The steps of the tool keep the types.
LEMMA ToolTyped == ASSUME Typed, PlanStands, Tool PROVE Typed'
<1> USE DEF Typed, TypeOK
<1>0. NoRun \in RunRecords
    <2>1. NothingToDo \in Plans BY DEF NothingToDo, Plans
    <2> QED BY <2>1 DEF NoRun, Stages
<1>1. CASE UpdatePlan
    <2> DEFINE plan == plan_update(universe, constituents, changes)
               queries == {q \in Cleanup : Selected(q) # {}}
               due == Cardinality(SelectedBy(queries))
               calm == batch \cap Gone = {}
    <2>1. FixedOK' BY <1>1, FixedKept DEF UpdatePlan
    <2>2. plan \in Plans BY PlanTyped DEF FixedOK
    <2>3. queries \in SUBSET QueryKinds BY CleanupTyped
    <2>4. due \in Nat
        <3> HIDE DEF queries
        <3> QED BY <2>3, SelectsRows
    <2>5. calm \in BOOLEAN OBVIOUS
    <2>6. tool' = [stage |-> "planned", plan |-> plan, queries |-> queries, due |-> due, calm |-> calm]
        BY <1>1 DEF UpdatePlan
    <2> HIDE DEF plan, queries, due, calm
    <2>7. tool' \in RunRecords BY <2>2, <2>3, <2>4, <2>5, <2>6 DEF Stages
    <2>8. runs' \in 0 .. MaxRuns BY <1>1, ServingAssumption DEF UpdatePlan
    <2> QED BY <1>1, <2>1, <2>7, <2>8 DEF UpdatePlan, table, scores, Stages
<1>2. CASE UpdateArchive
    <2>1. FixedOK' BY <1>2, FixedKept DEF UpdateArchive
    <2>2. tool' \in RunRecords
        <3>1. tool' = [tool EXCEPT !.stage = "archived"] \/ tool' = NoRun BY <1>2 DEF UpdateArchive
        <3> QED BY <1>0, <3>1 DEF Stages
    <2> QED BY <1>2, <2>1, <2>2 DEF UpdateArchive, table, scores, Stages
<1>3. CASE UpdateCommit
    <2>1. FixedOK' BY <1>3, FixedKept DEF UpdateCommit
    <2>2. tool' \in RunRecords BY <1>3 DEF UpdateCommit, Stages
    <2>3. IsTable(universe')
        <3>1. universe' = Applied(universe, constituents, changes, tool.plan, now) BY <1>3 DEF UpdateCommit
        <3>2. /\ tool.plan = plan_update(universe, constituents, changes)
              /\ IsSound(universe, constituents, changes, tool.plan)
            BY <1>3 DEF UpdateCommit, PlanStands
        <3>3. now \in Nat BY ServingAssumption
        <3> QED BY <3>1, <3>2, <3>3, AppliedIsTable DEF FixedOK
    <2>4. rows' \subseteq rows /\ IsFiniteSet(rows') BY <1>3, FS_Subset DEF UpdateCommit
    <2>5. IsTable(universe)' BY <2>3 DEF IsTable
    <2> QED BY <1>3, <2>1, <2>2, <2>4, <2>5 DEF UpdateCommit, scores, Stages
<1>4. CASE UpdateDeleteKeys
    <2>1. FixedOK' BY <1>4, FixedKept DEF UpdateDeleteKeys
    <2>2. tool' \in RunRecords BY <1>0, <1>4 DEF UpdateDeleteKeys
    <2>3. redis' \in [at : Nat, live : BOOLEAN] BY <1>4 DEF UpdateDeleteKeys
    <2>4. clean' \in BOOLEAN
        <3>1. clean \in BOOLEAN /\ tool.calm \in BOOLEAN OBVIOUS
        <3>2. clean' = (clean \/ tool.calm) BY <1>4 DEF UpdateDeleteKeys
        <3> QED BY <3>1, <3>2
    <2> QED BY <1>4, <2>1, <2>2, <2>3, <2>4 DEF UpdateDeleteKeys, table, Stages
<1>5. CASE UpdateStops
    <2>1. FixedOK' BY <1>5, FixedKept DEF UpdateStops
    <2>2. tool' \in RunRecords BY <1>0, <1>5 DEF UpdateStops
    <2> QED BY <1>5, <2>1, <2>2 DEF UpdateStops, table, scores, Stages
<1> QED BY <1>1, <1>2, <1>3, <1>4, <1>5 DEF Tool

\* The steps of the request keep the types.
LEMMA RequestTyped == ASSUME Typed, Request PROVE Typed'
<1> USE DEF Typed, TypeOK
<1>1. ASSUME req' \in RequestRecords, UNCHANGED <<fixed, now, table, rows, scores, update>> PROVE Typed'
    <2>1. FixedOK' BY <1>1, FixedKept
    <2> QED BY <1>1, <2>1 DEF table, scores, update
<1>2. CASE Begin
    <2> DEFINE status == get_ticker_status(universe, symbol)
               asked == [NoRequest EXCEPT !.before = Scores, !.since = pct.at]
    <2>1. status \in {"active", "ticker_not_found", "delisted"} BY DEF get_ticker_status
    <2>2. asked \in RequestRecords BY ScoresTyped DEF NoRequest, Never
    <2>3. \/ req' = [asked EXCEPT !.stage = "redis"]
          \/ status # "active" /\ req' = [asked EXCEPT !.stage = "done", !.answer = status]
        <3>1. req' = IF status = "active" THEN [asked EXCEPT !.stage = "redis"]
                     ELSE [asked EXCEPT !.stage = "done", !.answer = status]
            BY <1>2 DEF Begin
        <3> HIDE DEF status, asked
        <3> QED BY <3>1
    <2>4. req' \in RequestRecords
        <3> HIDE DEF status, asked
        <3>1. CASE req' = [asked EXCEPT !.stage = "redis"] BY <2>2, <3>1
        <3>2. CASE status # "active" /\ req' = [asked EXCEPT !.stage = "done", !.answer = status]
            <4>1. ASSUME NEW a \in RequestRecords, NEW said \in {"active", "ticker_not_found", "delisted"}, said # "active"
                  PROVE  [a EXCEPT !.stage = "done", !.answer = said] \in RequestRecords
                BY <4>1
            <4> QED BY <2>1, <2>2, <3>2, <4>1
        <3> QED BY <2>3, <3>1, <3>2
    <2> QED BY <1>1, <1>2, <2>4 DEF Begin
<1>3. CASE ReadState
    <2>1. req' \in RequestRecords BY <1>3 DEF ReadState
    <2> QED BY <1>1, <1>3, <2>1 DEF ReadState
<1>4. CASE ReadRow
    <2>1. Scores # {} => Latest(Scores) \in Nat
        <3> QED BY ScoresTyped, LatestScore
    <2>2. req' \in RequestRecords BY <1>4, <2>1 DEF ReadRow
    <2> QED BY <1>1, <1>4, <2>2 DEF ReadRow
<1>5. CASE AnswerSummary
    <2>1. req' \in RequestRecords BY <1>5 DEF AnswerSummary
    <2> QED BY <1>1, <1>5, <2>1 DEF AnswerSummary
<1>6. CASE ReadPercentile
    <2>1. Parts(pct) \subseteq Nat BY DEF Parts, Never
    <2>2. req' \in RequestRecords BY <1>6, <2>1 DEF ReadPercentile
    <2> QED BY <1>1, <1>6, <2>2 DEF ReadPercentile
<1>7. CASE ReadXs
    <2>1. Parts(xs) \subseteq Nat BY DEF Parts, Never
    <2>2. req' \in RequestRecords BY <1>7, <2>1 DEF ReadXs
    <2> QED BY <1>1, <1>7, <2>2 DEF ReadXs
<1> QED BY <1>2, <1>3, <1>4, <1>5, <1>6, <1>7 DEF Request

\* Time passes: a day is added to the past.
LEMMA PassTyped == ASSUME Typed, Pass PROVE Typed'
<1> USE DEF Typed, TypeOK
<1>1. FixedOK' BY FixedKept DEF Pass
<1>2. PICK n \in Nat : n = now' /\ n = now + 1 BY ServingAssumption DEF Pass
<1>3. 1 .. n - 1 = 1 .. now /\ n \in 1 .. MaxTime + 1 BY <1>2, ServingAssumption DEF Pass
<1>4. activeAt' \in [1 .. n - 1 -> SUBSET Symbols]
    <2>1. get_active_tickers(universe) \subseteq Symbols BY DEF get_active_tickers, IsTable
    <2>2. \A w \in 1 .. now : w # now => w \in 1 .. now - 1 BY ServingAssumption
    <2> QED BY <1>3, <2>1, <2>2 DEF Pass
<1>5. now' \in 1 .. MaxTime + 1 /\ activeAt' \in [1 .. now' - 1 -> SUBSET Symbols] BY <1>2, <1>3, <1>4
<1> QED BY <1>1, <1>5 DEF Pass, scores, update

\* Every step keeps the types.
LEMMA StepTyped == Typed /\ PlanStands /\ [Next]_vars => Typed'
<1> SUFFICES ASSUME Typed, PlanStands, [Next]_vars PROVE Typed'
    OBVIOUS
<1>1. CASE UNCHANGED vars
    <2>1. FixedOK' BY <1>1, FixedKept DEF Typed, vars
    <2> QED BY <1>1, <2>1 DEF Typed, TypeOK, vars, table, scores, update
<1> QED BY <1>1, JobsTyped, ToolTyped, RequestTyped, PassTyped DEF Next

---------------------------------------------------------------------------
(* The table.                                                              *)

\* The transaction writes the columns of retirement as the snapshot says.
LEMMA AppliedAgrees ==
    ASSUME NEW u, IsTable(u), NEW c, NEW x, AreChanges(x), NEW n \in Nat, Agrees(u, x, n),
           \A t \in DOMAIN x : x[t].last < n
    PROVE  Agrees(Applied(u, c, x, plan_update(u, c, x), n), x, n)
<1> DEFINE p == plan_update(u, c, x)
           v == Applied(u, c, x, p, n)
<1>1. \A t \in p.retire : t \in DOMAIN x BY DEF plan_update, PlanRetire, retired
<1>2. DOMAIN v = DOMAIN u \cup p.add BY DEF Applied
<1>3. ASSUME NEW t \in DOMAIN v, t \notin DOMAIN u
      PROVE  v[t].added = n /\ v[t].delisted = Listed /\ v[t].successor = NoSymbol
    <2> HIDE DEF p
    <2> QED BY <1>3 DEF Applied
<1>4. ASSUME NEW t \in DOMAIN u
      PROVE  /\ v[t].added = u[t].added
             /\ t \in p.retire => v[t].delisted = x[t].last /\ v[t].successor = x[t].successor
             /\ t \notin p.retire => v[t].delisted = u[t].delisted /\ v[t].successor = u[t].successor
    <2> HIDE DEF p
    <2> QED BY <1>4 DEF Applied
<1>5. \A t \in DOMAIN x : x[t].last # Listed BY DEF AreChanges
<1> HIDE DEF p, v
<1>6. ASSUME NEW t \in DOMAIN v
      PROVE  /\ v[t].added <= n
             /\ v[t].delisted # Listed =>
                   t \in DOMAIN x /\ v[t].delisted = x[t].last /\ x[t].last < n
             /\ v[t].successor # NoSymbol =>
                   v[t].delisted # Listed /\ v[t].successor = x[t].successor
    <2>1. CASE t \notin DOMAIN u BY <1>3, <2>1
    <2>2. CASE t \in DOMAIN u /\ t \in p.retire BY <1>1, <1>4, <1>5, <2>2 DEF Agrees
    <2>3. CASE t \in DOMAIN u /\ t \notin p.retire BY <1>4, <2>3 DEF Agrees
    <2> QED BY <2>1, <2>2, <2>3
<1>7. Agrees(v, x, n) BY <1>6 DEF Agrees
<1> QED BY <1>7 DEF p, v

\* Where nothing is left to plan, every constituent has its sector and every successor
\* is served.
LEMMA NothingLeft ==
    ASSUME NEW u, NEW c, AreConstituents(c), NEW x, AreChanges(x), NEW n, Agrees(u, x, n),
           plan_update(u, c, x) = NothingToDo
    PROVE  /\ \A t \in DOMAIN c \ DOMAIN x :
                 t \in DOMAIN get_ticker_sector_map(u) /\ get_ticker_sector_map(u)[t] = c[t]
           /\ \A t \in DOMAIN u : u[t].successor # NoSymbol =>
                 u[t].delisted # Listed /\ get_ticker_status(u, u[t].successor) = "active"
<1>1. PlanResector(u, c, x) = {} /\ AddMembers(u, c, x) = {} /\ AddSuccessors(u, c, x) = {}
    BY DEF plan_update, NothingToDo
<1>2. ASSUME NEW t \in DOMAIN c \ DOMAIN x
      PROVE  t \in DOMAIN get_ticker_sector_map(u) /\ get_ticker_sector_map(u)[t] = c[t]
    <2>1. t \in DOMAIN u BY <1>1 DEF AddMembers
    <2>2. u[t].sector = c[t] BY <1>1, <2>1 DEF PlanResector
    <2>3. c[t] # NoSector BY DEF AreConstituents
    <2> QED BY <2>1, <2>2, <2>3 DEF get_ticker_sector_map
<1>3. ASSUME NEW t \in DOMAIN u, u[t].successor # NoSymbol
      PROVE  u[t].delisted # Listed /\ get_ticker_status(u, u[t].successor) = "active"
    <2> DEFINE s == u[t].successor
    <2>1. u[t].delisted # Listed /\ t \in DOMAIN x /\ s = x[t].successor BY <1>3 DEF Agrees
    <2>2. s \notin DOMAIN x /\ s \in {x[r].successor : r \in DOMAIN x} BY <2>1 DEF AreChanges
    <2>3. s \in DOMAIN u \cup DOMAIN c BY <1>1, <1>3, <2>2 DEF AddSuccessors
    <2>4. s \in DOMAIN u BY <1>1, <2>2, <2>3 DEF AddMembers
    <2>5. u[s].delisted = Listed BY <2>2, <2>4 DEF Agrees
    <2> QED BY <2>1, <2>4, <2>5 DEF get_ticker_status
<1> QED BY <1>2, <1>3

\* Only the transaction changes the table, and only time the clock and the past.
LEMMA TableKept ==
    ASSUME Next
    PROVE  /\ UNCHANGED fixed
           /\ UNCHANGED universe \/ UpdateCommit
           /\ UNCHANGED <<now, activeAt>> \/ Pass
<1>1. CASE Jobs
    BY <1>1 DEF Jobs, Load, Ingest, Publish, Record, Finish, LoseKey, table
<1>2. CASE Tool
    BY <1>2 DEF Tool, UpdatePlan, UpdateArchive, UpdateCommit, UpdateDeleteKeys, UpdateStops, table
<1>3. CASE Request
    BY <1>3 DEF Request, Begin, ReadState, ReadRow, AnswerSummary, ReadPercentile, ReadXs, table
<1>4. CASE Pass BY <1>4 DEF Pass
<1> QED BY <1>1, <1>2, <1>3, <1>4 DEF Next

\* The columns of retirement go on saying what the snapshot says.
LEMMA StepColumns == Typed /\ ColumnsAgree /\ PlanStands /\ [Next]_vars => ColumnsAgree'
<1> SUFFICES ASSUME Typed, ColumnsAgree, PlanStands, [Next]_vars PROVE ColumnsAgree'
    OBVIOUS
<1> USE DEF ColumnsAgree
<1>1. now \in Nat BY ServingAssumption DEF Typed, TypeOK
<1>2. CASE UpdateCommit
    <2>1. UNCHANGED <<changes, now>> BY <1>2 DEF UpdateCommit, fixed
    <2>2. universe' = Applied(universe, constituents, changes, tool.plan, now) BY <1>2 DEF UpdateCommit
    <2>3. tool.plan = plan_update(universe, constituents, changes) /\ \A t \in DOMAIN changes : changes[t].last < now
        BY <1>2 DEF UpdateCommit, PlanStands
    <2>4. IsTable(universe) /\ AreChanges(changes) BY DEF Typed, TypeOK, FixedOK
    <2>5. Agrees(universe', changes, now) BY <1>1, <2>2, <2>3, <2>4, AppliedAgrees
    <2> QED BY <2>1, <2>5
<1>3. CASE Pass
    <2>1. UNCHANGED <<changes, universe>> BY <1>3 DEF Pass, fixed
    <2>2. PICK n \in Nat : n = now' /\ n = now + 1 BY <1>1, <1>3 DEF Pass
    <2>3. \A t \in DOMAIN universe : universe[t].added \in Nat BY DEF Typed, TypeOK, IsTable, Row
    <2>4. \A t \in DOMAIN changes : changes[t].last \in Nat BY DEF Typed, FixedOK, AreChanges
    <2>5. Agrees(universe, changes, n)
        <3>1. \A a \in Nat : (a <= now => a <= n) /\ (a < now => a < n) BY <1>1, <2>2
        <3> QED BY <2>3, <2>4, <3>1 DEF Agrees
    <2> QED BY <2>1, <2>2, <2>5
<1>4. CASE UNCHANGED <<fixed, universe, now>> BY <1>4 DEF fixed
<1> QED BY <1>2, <1>3, <1>4, TableKept DEF vars, table

\* The past of the table stays the past that was live.
LEMMA StepPast == Typed /\ ColumnsAgree /\ PastKept /\ PlanStands /\ [Next]_vars => PastKept'
<1> SUFFICES ASSUME Typed, ColumnsAgree, PastKept, PlanStands, [Next]_vars PROVE PastKept'
    OBVIOUS
<1>1. now \in Nat \ {0} BY ServingAssumption DEF Typed, TypeOK
<1>2. CASE UpdateCommit
    <2> DEFINE v == Applied(universe, constituents, changes, tool.plan, now)
    <2>1. UNCHANGED <<now, activeAt>> /\ universe' = v BY <1>2 DEF UpdateCommit
    <2>2. tool.plan = plan_update(universe, constituents, changes)
        BY <1>2 DEF UpdateCommit, PlanStands
    <2>3. DOMAIN universe \subseteq DOMAIN v BY DEF Applied
    <2>4. ASSUME NEW t \in DOMAIN v, t \notin DOMAIN universe PROVE v[t].added = now
        BY <2>4 DEF Applied
    <2>5. ASSUME NEW t \in DOMAIN universe
          PROVE  /\ v[t].added = universe[t].added
                 /\ v[t].delisted = universe[t].delisted \/ universe[t].delisted = Listed
        <3>1. t \notin tool.plan.retire => v[t].delisted = universe[t].delisted BY DEF Applied
        <3>2. t \in tool.plan.retire => universe[t].delisted # changes[t].last
            BY <2>2 DEF plan_update, PlanRetire
        <3>3. v[t].added = universe[t].added BY DEF Applied
        <3>4. universe[t].delisted = Listed \/ universe[t].delisted = changes[t].last
            BY DEF ColumnsAgree, Agrees
        <3> QED BY <3>1, <3>2, <3>3, <3>4
    <2> HIDE DEF v
    <2>6. ASSUME NEW w \in 1 .. now - 1
          PROVE  /\ \A t \in activeAt[w] : t \in DOMAIN v /\ v[t].added <= w
                 /\ \A t \in DOMAIN v :
                       v[t].added <= w /\ (v[t].delisted = Listed \/ v[t].delisted > w) => t \in activeAt[w]
        <3>1. ASSUME NEW t \in activeAt[w] PROVE t \in DOMAIN v /\ v[t].added <= w
            BY <2>3, <2>5 DEF PastKept
        <3>2. ASSUME NEW t \in DOMAIN v, v[t].added <= w, v[t].delisted = Listed \/ v[t].delisted > w
              PROVE  t \in activeAt[w]
            <4>1. t \in DOMAIN universe
                <5>1. ~(now <= w) BY <1>1
                <5> QED BY <2>4, <3>2, <5>1
            <4> QED BY <2>5, <3>2, <4>1 DEF PastKept
        <3> QED BY <3>1, <3>2
    <2> QED BY <2>1, <2>6 DEF PastKept
<1>3. CASE Pass
    <2>1. UNCHANGED universe BY <1>3 DEF Pass
    <2>2. PICK n \in Nat : n = now' /\ n = now + 1 BY <1>1, <1>3 DEF Pass
    <2>3. \A w \in 1 .. n - 1 : w \in 1 .. now - 1 \/ w = now BY <1>1, <2>2
    <2>4. ASSUME NEW w \in 1 .. n - 1
          PROVE  activeAt'[w] = IF w = now THEN get_active_tickers(universe) ELSE activeAt[w]
        <3>1. w \in 1 .. now BY <1>1, <2>2
        <3> QED BY <1>3, <3>1 DEF Pass
    <2>5. ASSUME NEW w \in 1 .. n - 1
          PROVE  /\ \A t \in activeAt'[w] : t \in DOMAIN universe /\ universe[t].added <= w
                 /\ \A t \in DOMAIN universe :
                       /\ universe[t].added <= w
                       /\ universe[t].delisted = Listed \/ universe[t].delisted > w
                       => t \in activeAt'[w]
        <3>1. CASE w = now
            <4>1. activeAt'[w] = get_active_tickers(universe) BY <2>4, <3>1
            <4>2. \A t \in DOMAIN universe : universe[t].added <= now BY DEF ColumnsAgree, Agrees
            <4>3. ASSUME NEW t \in DOMAIN universe, universe[t].delisted # Listed
                  PROVE  ~(universe[t].delisted > now)
                <5>1. universe[t].delisted \in Nat BY DEF Typed, TypeOK, IsTable, Row
                <5>2. universe[t].delisted < now BY <4>3 DEF ColumnsAgree, Agrees
                <5> QED BY <1>1, <5>1, <5>2
            <4> QED BY <3>1, <4>1, <4>2, <4>3 DEF get_active_tickers
        <3>2. CASE w # now
            <4>1. activeAt'[w] = activeAt[w] /\ w \in 1 .. now - 1 BY <2>3, <2>4, <3>2
            <4> QED BY <4>1 DEF PastKept
        <3> QED BY <3>1, <3>2
    <2> QED BY <2>1, <2>2, <2>5 DEF PastKept
<1>4. CASE UNCHANGED <<universe, now, activeAt>> BY <1>4 DEF PastKept
<1> QED BY <1>2, <1>3, <1>4, TableKept DEF vars, table

\* How a step changes the run: it goes on, only its calm can end meanwhile, or it stops.
LEMMA ToolMoves ==
    ASSUME Typed, Next
    PROVE  \/ /\ ~UpdateCommit /\ UNCHANGED universe
              /\ tool'.stage = tool.stage /\ tool'.plan = tool.plan /\ tool'.queries = tool.queries
              /\ tool'.calm => tool.calm
           \/ UpdatePlan \/ UpdateCommit
           \/ /\ tool.stage = "planned" /\ tool' = [tool EXCEPT !.stage = "archived"]
              /\ UNCHANGED universe
           \/ tool' = NoRun /\ UNCHANGED universe
<1>0. tool \in RunRecords BY DEF Typed
<1>1. CASE UNCHANGED <<tool, universe>> /\ ~UpdateCommit BY <1>1
<1>2. CASE Jobs
    <2>1. CASE Load
        <3> DEFINE calm == tool.calm /\ batch' \cap retired(universe, changes) = {}
        <3>1. tool' = [tool EXCEPT !.calm = calm] /\ UNCHANGED universe BY <2>1 DEF Load, table
        <3>2. UNCHANGED rows /\ tool'.calm = calm BY <1>0, <2>1, <3>1 DEF Load
        <3>3. tool'.stage = tool.stage /\ tool'.plan = tool.plan /\ tool'.queries = tool.queries
            BY <1>0, <3>1
        <3>4. tool'.calm => tool.calm BY <3>2
        <3>5. ~UpdateCommit
            <4>1. tool.stage \in Stages /\ tool'.stage = tool.stage BY <1>0, <3>3
            <4>2. UpdateCommit => tool.stage = "archived" /\ tool'.stage = "committed"
                BY <1>0 DEF UpdateCommit
            <4> QED BY <4>1, <4>2
        <3> QED BY <3>1, <3>3, <3>4, <3>5
    <2>2. CASE ~Load
        <3>1. UNCHANGED <<tool, universe>>
            BY <1>2, <2>2 DEF Jobs, Ingest, Publish, Record, Finish, LoseKey, table, update
        <3> QED BY <3>1
    <2> QED BY <2>1, <2>2
<1>3. CASE Tool
    <2>1. CASE UpdateArchive
        <3>1. tool' = [tool EXCEPT !.stage = "archived"] \/ tool' = NoRun BY <2>1 DEF UpdateArchive
        <3> QED BY <2>1, <3>1 DEF UpdateArchive, table
    <2>2. CASE UpdateDeleteKeys BY <2>2 DEF UpdateDeleteKeys, table
    <2>3. CASE UpdateStops BY <2>3 DEF UpdateStops, table
    <2> QED BY <1>3, <2>1, <2>2, <2>3 DEF Tool
<1>4. CASE Request
    <2>1. UNCHANGED <<tool, universe>>
        BY <1>4 DEF Request, Begin, ReadState, ReadRow, AnswerSummary, ReadPercentile, ReadXs, table, update
    <2> QED BY <2>1
<1>5. CASE Pass
    <2>1. UNCHANGED <<tool, universe>> BY <1>5 DEF Pass, update
    <2> QED BY <2>1
<1> QED BY <1>2, <1>3, <1>4, <1>5 DEF Next

\* The plan stands until the transaction.
LEMMA StepPlan == Typed /\ PlanStands /\ [Next]_vars => PlanStands'
<1> SUFFICES ASSUME Typed, PlanStands, Next PROVE PlanStands'
    <2> SUFFICES ASSUME PlanStands, UNCHANGED vars PROVE PlanStands'
        OBVIOUS
    <2>1. UNCHANGED <<tool, universe, constituents, changes, now>> BY DEF vars, fixed, table, update
    <2> QED BY <2>1 DEF PlanStands
<1>0. UNCHANGED <<constituents, changes>> BY TableKept DEF fixed
<1>0a. ASSUME NEW t \in DOMAIN changes, changes[t].last < now PROVE changes[t].last < now'
    <2>1. now \in Nat /\ changes[t].last \in Nat
        BY ServingAssumption DEF Typed, TypeOK, FixedOK, AreChanges
    <2>2. CASE Pass
        <3>1. PICK n \in Nat : n = now' /\ n = now + 1 BY <2>1, <2>2 DEF Pass
        <3> QED BY <1>0a, <2>1, <3>1
    <2> QED BY <1>0a, <2>2, TableKept
<1>1. ASSUME UNCHANGED universe, tool'.plan = tool.plan, tool.stage # "idle",
             tool'.stage \in {"planned", "archived"} => tool.stage \in {"planned", "archived"}
      PROVE  PlanStands'
    BY <1>0, <1>0a, <1>1 DEF PlanStands
<1>2. ASSUME tool'.stage = "idle" PROVE PlanStands'
    BY <1>2 DEF PlanStands
<1>3. CASE UpdatePlan
    <2> DEFINE plan == plan_update(universe, constituents, changes)
    <2>1. /\ UNCHANGED universe /\ tool'.plan = plan
          /\ IsSound(universe, constituents, changes, plan)
          /\ \A t \in DOMAIN changes : changes[t].last < now
        BY <1>3 DEF UpdatePlan, table
    <2>2. UNCHANGED now BY <1>3 DEF UpdatePlan
    <2>3. plan.add \cap DOMAIN changes = {} BY PlanTyped DEF Typed, TypeOK, FixedOK
    <2> HIDE DEF plan
    <2>4. tool'.plan = plan_update(universe, constituents, changes)' BY <1>0, <2>1 DEF plan
    <2>5. IsSound(universe, constituents, changes, tool.plan)' BY <1>0, <2>1
    <2> QED BY <1>0, <2>1, <2>2, <2>3, <2>4, <2>5 DEF PlanStands
<1>4. CASE UpdateCommit
    <2>1. tool'.stage = "committed" /\ tool'.plan = tool.plan /\ tool.stage # "idle"
        BY <1>4 DEF UpdateCommit, Typed
    <2> QED BY <1>0, <2>1 DEF PlanStands
<1>5. CASE tool.stage = "planned" /\ tool' = [tool EXCEPT !.stage = "archived"] /\ UNCHANGED universe
    <2>1. tool'.plan = tool.plan BY <1>5 DEF Typed
    <2> QED BY <1>1, <1>5, <2>1
<1>6. CASE tool' = NoRun BY <1>2, <1>6 DEF NoRun
<1>7. CASE /\ UNCHANGED universe
           /\ tool'.stage = tool.stage /\ tool'.plan = tool.plan
    BY <1>1, <1>2, <1>7
<1> QED BY <1>3, <1>4, <1>5, <1>6, <1>7, ToolMoves

\* What the transaction leaves behind is what the tool promises.
LEMMA StepConverges ==
    Typed /\ ColumnsAgree /\ PlanStands /\ UpdateConverges /\ [Next]_vars => UpdateConverges'
<1> SUFFICES ASSUME Typed, ColumnsAgree, PlanStands, UpdateConverges, Next PROVE UpdateConverges'
    <2> SUFFICES ASSUME UpdateConverges, UNCHANGED vars PROVE UpdateConverges'
        OBVIOUS
    <2>1. UNCHANGED <<tool, universe, constituents, changes>> BY DEF vars, fixed, table, update
    <2> QED BY <2>1 DEF UpdateConverges
<1>0. UNCHANGED <<constituents, changes>> BY TableKept DEF fixed
<1>1. CASE tool'.stage # "committed" BY <1>1 DEF UpdateConverges
<1>2. CASE UpdateCommit
    <2> DEFINE v == Applied(universe, constituents, changes, tool.plan, now)
    <2>1. universe' = v BY <1>2 DEF UpdateCommit
    <2>2. /\ tool.plan = plan_update(universe, constituents, changes)
          /\ IsSound(universe, constituents, changes, tool.plan)
          /\ \A t \in DOMAIN changes : changes[t].last < now
        BY <1>2 DEF UpdateCommit, PlanStands
    <2>3. /\ IsTable(universe) /\ AreConstituents(constituents) /\ AreChanges(changes) /\ now \in Nat
          /\ Agrees(universe, changes, now)
        BY ServingAssumption DEF Typed, TypeOK, FixedOK, ColumnsAgree
    <2>4. plan_update(v, constituents, changes) = NothingToDo BY <2>2, <2>3, AppliedConverges
    <2>5. Agrees(v, changes, now) BY <2>2, <2>3, AppliedAgrees
    <2> HIDE DEF v
    <2>6. /\ \A t \in DOMAIN constituents \ DOMAIN changes :
                /\ t \in DOMAIN get_ticker_sector_map(v)
                /\ get_ticker_sector_map(v)[t] = constituents[t]
          /\ \A t \in DOMAIN v : v[t].successor # NoSymbol =>
                v[t].delisted # Listed /\ get_ticker_status(v, v[t].successor) = "active"
        BY <2>3, <2>4, <2>5, NothingLeft
    <2>7. /\ plan_update(universe, constituents, changes)' = plan_update(v, constituents, changes)
          /\ get_ticker_sector_map(universe)' = get_ticker_sector_map(v)
          /\ \A t : get_ticker_status(universe, t)' = get_ticker_status(v, t)
        BY <1>0, <2>1
    <2> QED BY <1>0, <2>1, <2>4, <2>6, <2>7 DEF UpdateConverges
<1>3. CASE UNCHANGED universe /\ tool'.stage = tool.stage BY <1>0, <1>3 DEF UpdateConverges
<1>4. CASE UpdatePlan BY <1>1, <1>4 DEF UpdatePlan
<1>5. CASE tool.stage = "planned" /\ tool' = [tool EXCEPT !.stage = "archived"]
    <2>1. tool'.stage = "archived" BY <1>5 DEF Typed
    <2> QED BY <1>1, <2>1
<1>6. CASE tool' = NoRun BY <1>1, <1>6 DEF NoRun
<1> QED BY <1>1, <1>2, <1>3, <1>4, <1>5, <1>6, ToolMoves

\* The initial table is the migrated one: nobody is retired and there is no past.
LEMMA InitUniverse == Init => UniverseInv
<1> SUFFICES ASSUME Init PROVE UniverseInv
    OBVIOUS
<1>1. Typed BY InitTyped
<1>2. ColumnsAgree BY DEF Init, Snapshots, ColumnsAgree, Agrees
<1>3. PastKept
    <2>1. now = 1 BY DEF Init
    <2>2. 1 .. now - 1 = {} BY <2>1
    <2> QED BY <2>2 DEF PastKept
<1>4. tool.stage = "idle" BY DEF Init, NoRun
<1> QED BY <1>1, <1>2, <1>3, <1>4 DEF UniverseInv, PlanStands, UpdateConverges

\* Every step keeps the table consistent with its past and with the plan.
LEMMA StepUniverse == UniverseInv /\ [Next]_vars => UniverseInv'
BY StepTyped, StepColumns, StepPast, StepPlan, StepConverges DEF UniverseInv

\* Table and tool agree, for any table, snapshots and number of runs: a committed run
\* has nothing left to do, its successors are served, and the universe as of a past time
\* is the one that was live then but for those who had stopped trading.
THEOREM UniverseConsistent == Spec => []UniverseIsConsistent
<1>1. UniverseInv => UniverseIsConsistent
    <2> SUFFICES ASSUME UniverseInv PROVE UniverseIsConsistent
        OBVIOUS
    <2>1. TypeOK /\ UpdateConverges /\ PastKept BY DEF UniverseInv, Typed
    <2>2. AsOfIsWhatWasLive
        <3>1. DOMAIN activeAt = 1 .. now - 1 BY <2>1 DEF TypeOK
        <3> SUFFICES ASSUME NEW w \in 1 .. now - 1
                     PROVE  /\ get_active_tickers_as_of(universe, w) \subseteq activeAt[w]
                            /\ \A t \in activeAt[w] \ get_active_tickers_as_of(universe, w) :
                                  universe[t].delisted <= w
            BY <3>1 DEF AsOfIsWhatWasLive
        <3>2. get_active_tickers_as_of(universe, w) \subseteq activeAt[w]
            BY <2>1 DEF PastKept, get_active_tickers_as_of
        <3>3. ASSUME NEW t \in activeAt[w], t \notin get_active_tickers_as_of(universe, w)
              PROVE  universe[t].delisted <= w
            <4>1. t \in DOMAIN universe /\ universe[t].added <= w BY <2>1 DEF PastKept
            <4>2. ~(universe[t].delisted > w) BY <3>3, <4>1 DEF get_active_tickers_as_of
            <4>3. universe[t].delisted \in Nat BY <2>1, <4>1 DEF TypeOK, IsTable, Row
            <4> QED BY <2>1, <4>2, <4>3, ServingAssumption DEF TypeOK
        <3> QED BY <3>2, <3>3
    <2> QED BY <2>1, <2>2 DEF UniverseIsConsistent
<1> QED BY <1>1, InitUniverse, StepUniverse, PTL DEF Spec

---------------------------------------------------------------------------
(* The answers.                                                            *)

\* A step adds no score but the one that the job records.
LEMMA ScoresMove ==
    ASSUME Typed, Next
    PROVE  \/ Record /\ Scores' = Scores \cup {redis.at}
           \/ ~Record /\ Scores' \subseteq Scores
<1>0. /\ \A a : a \in Scores <=> \E r \in rows : r.kind = "score" /\ r.at = a
      /\ \A a : a \in Scores' <=> \E r \in rows' : r.kind = "score" /\ r.at = a
    BY DEF Scores
<1>1. CASE Record
    <2> DEFINE new == [kind |-> "score", at |-> redis.at, value |-> Never]
    <2>1. rows' = rows \cup {new} /\ new.kind = "score" /\ new.at = redis.at BY <1>1 DEF Record
    <2> HIDE DEF new
    <2> QED BY <1>0, <1>1, <2>1
<1>2. CASE UNCHANGED rows BY <1>0, <1>1, <1>2
<1>3. ASSUME NEW v \in Values, Ingest(v) PROVE Scores' \subseteq Scores
    <2> DEFINE one == [kind |-> "derived", at |-> now, value |-> Never]
               two == [kind |-> "price", at |-> now, value |-> v]
    <2>1. rows' = rows \cup {one, two} /\ one.kind # "score" /\ two.kind # "score"
        BY <1>3 DEF Ingest
    <2> HIDE DEF one, two
    <2> QED BY <1>0, <2>1
<1>4. CASE UpdateCommit
    <2>1. rows' \subseteq rows BY <1>4 DEF UpdateCommit
    <2> QED BY <1>0, <1>1, <2>1
<1>5. CASE Jobs
    <2>1. UNCHANGED rows \/ Record \/ \E v \in Values : Ingest(v)
        BY <1>5 DEF Jobs, Load, Publish, Finish, LoseKey
    <2> QED BY <1>1, <1>2, <1>3, <2>1
<1>6. CASE Tool
    <2>1. UNCHANGED rows \/ UpdateCommit
        BY <1>6 DEF Tool, UpdatePlan, UpdateArchive, UpdateDeleteKeys, UpdateStops
    <2> QED BY <1>2, <1>4, <2>1
<1>7. CASE Request \/ Pass
    BY <1>2, <1>7 DEF Request, Begin, ReadState, ReadRow, AnswerSummary, ReadPercentile, ReadXs, Pass
<1> QED BY <1>5, <1>6, <1>7 DEF Next

\* Redis is never behind the rows, nor behind those that a request has found; a state
\* that is not recorded yet is newer than both.
StateLeads ==
    /\ \A a \in Scores \cup req.before : a <= redis.at
    /\ wrote = "state" => redis.at \notin Scores \cup req.before

\* The two hashes are published together, and a request looks back no further.
HashesTogether == xs = pct /\ pct.at <= now /\ req.since <= pct.at

\* What a request holds so far is as new as what it found when it came in.
HeldCurrent ==
    /\ \/ req.stage \in {"found", "percentile"}
       \/ req.stage = "done" /\ req.answer = "score"
       => \A a \in req.before \cap Scores : a <= req.at
    /\ req.pct # Never => req.since <= req.pct /\ req.pct <= pct.at
    /\ req.stage # "done" => req.xs = Never
    /\ req.stage \notin {"percentile", "done"} => req.pct = Never
    /\ req.pct # Never /\ req.xs # Never => req.pct <= req.xs
    /\ req.stage = "done" /\ req.answer = "insufficient_data" =>
          req.before \cap Scores = {} \/ req.failed

AnswerInv == Typed /\ StateLeads /\ HashesTogether /\ HeldCurrent

\* At first there is nothing to answer with.
LEMMA InitAnswers == Init => AnswerInv
<1> SUFFICES ASSUME Init PROVE AnswerInv
    OBVIOUS
<1>1. Scores = {} BY DEF Init, Scores
<1>2. req = NoRequest /\ redis.at = Never /\ pct = NoStats /\ xs = NoStats /\ now = 1 /\ wrote = "nothing"
    BY DEF Init
<1> QED BY <1>1, <1>2, InitTyped
        DEF AnswerInv, StateLeads, HashesTogether, HeldCurrent, NoRequest, NoStats, Never

\* A step of a job, of the tool or of time leaves the request alone.
LEMMA RequestAlone == ASSUME Jobs \/ Tool \/ Pass PROVE UNCHANGED req
BY DEF Jobs, Load, Ingest, Publish, Record, Finish, LoseKey, Tool, UpdatePlan, UpdateArchive,
       UpdateCommit, UpdateDeleteKeys, UpdateStops, Pass

\* Redis is written before the row, and lost only as a whole.
LEMMA StepStateLeads == Typed /\ StateLeads /\ [Next]_vars => StateLeads'
<1> SUFFICES ASSUME Typed, StateLeads, Next PROVE StateLeads'
    <2> SUFFICES ASSUME StateLeads, UNCHANGED vars PROVE StateLeads'
        OBVIOUS
    <2>1. UNCHANGED <<rows, redis, wrote, req>> BY DEF vars, scores
    <2> QED BY <2>1 DEF StateLeads, Scores
<1> USE DEF StateLeads
<1>1. CASE Publish
    <2>1. Scores' \subseteq Scores /\ UNCHANGED req
        <3>1. UNCHANGED <<rows, req>> BY <1>1 DEF Publish
        <3> QED BY <3>1 DEF Scores
    <2>2. redis.at < now /\ redis'.at = now BY <1>1 DEF Publish
    <2>3. Scores \cup req.before \subseteq Nat /\ redis.at \in Nat /\ now \in Nat
        BY ScoresTyped, ServingAssumption DEF Typed, TypeOK
    <2>4. \A a \in Scores \cup req.before : a < now BY <2>2, <2>3
    <2>5. \A a \in Nat : a < now => a <= now /\ a # now BY <2>3
    <2> HIDE DEF Scores
    <2> QED BY <2>1, <2>2, <2>3, <2>4, <2>5
<1>2. CASE Record
    <2>1. Scores' = Scores \cup {redis.at} BY <1>2, ScoresMove
    <2>2. UNCHANGED <<redis, req>> /\ wrote' = "row" /\ redis.at \in Nat BY <1>2 DEF Record, Typed, TypeOK
    <2> QED BY <2>1, <2>2
<1>3. CASE Begin
    <2>1. UNCHANGED <<rows, redis, wrote>> BY <1>3 DEF Begin, scores
    <2>2. req'.before = Scores BY <1>3 DEF Begin, NoRequest
    <2>3. Scores' = Scores BY <2>1 DEF Scores
    <2> QED BY <2>1, <2>2, <2>3
<1>4. ASSUME ~Record, UNCHANGED redis.at, UNCHANGED req.before, wrote' = "state" => wrote = "state"
      PROVE  StateLeads'
    <2>1. Scores' \subseteq Scores BY <1>4, ScoresMove
    <2> QED BY <1>4, <2>1
<1>5. CASE Jobs
    <2>1. CASE Load \/ Finish BY <1>4, <2>1 DEF Load, Finish, Record
    <2>2. CASE LoseKey
        <3>1. redis'.at = redis.at BY <2>2 DEF LoseKey, Typed, TypeOK
        <3>2. UNCHANGED <<rows, req, wrote>> BY <2>2 DEF LoseKey
        <3>3. Scores' = Scores BY <3>2 DEF Scores
        <3> QED BY <3>1, <3>2, <3>3
    <2>3. ASSUME NEW v \in Values, Ingest(v) PROVE StateLeads'
        <3>1. UNCHANGED <<redis, wrote, req>> BY <2>3 DEF Ingest, scores
        <3> QED BY <1>2, <1>4, <3>1
    <2> QED BY <1>1, <1>2, <1>5, <2>1, <2>2, <2>3 DEF Jobs
<1>6. CASE Tool
    <2>1. UNCHANGED req BY <1>6, RequestAlone
    <2>2. UNCHANGED wrote /\ redis'.at = redis.at
        <3>1. CASE UpdateDeleteKeys
            <4>1. redis' = [redis EXCEPT !.live = FALSE] \/ redis' = redis BY <3>1 DEF UpdateDeleteKeys
            <4> QED BY <3>1, <4>1 DEF UpdateDeleteKeys, Typed, TypeOK
        <3> QED BY <1>6, <3>1 DEF Tool, UpdatePlan, UpdateArchive, UpdateCommit, UpdateStops, scores
    <2> QED BY <1>2, <1>4, <2>1, <2>2
<1>7. CASE Request \/ Pass
    <2>1. CASE ~Begin
        <3>1. UNCHANGED <<redis, wrote>>
            BY <1>7 DEF Request, Begin, ReadState, ReadRow, AnswerSummary, ReadPercentile, ReadXs, Pass, scores
        <3>2. req'.before = req.before
            BY <1>7, <2>1 DEF Request, ReadState, ReadRow, AnswerSummary, ReadPercentile, ReadXs, Pass, Typed
        <3> QED BY <1>2, <1>4, <3>1, <3>2
    <2> QED BY <1>3, <2>1
<1> QED BY <1>5, <1>6, <1>7 DEF Next

\* Only the end of a job publishes the hashes.
LEMMA HashesKept == ASSUME Next, ~Finish PROVE UNCHANGED <<pct, xs>>
<1>1. CASE Jobs BY <1>1 DEF Jobs, Load, Ingest, Publish, Record, LoseKey, scores
<1>2. CASE Tool
    BY <1>2 DEF Tool, UpdatePlan, UpdateArchive, UpdateCommit, UpdateDeleteKeys, UpdateStops, scores
<1>3. CASE Request
    BY <1>3 DEF Request, Begin, ReadState, ReadRow, AnswerSummary, ReadPercentile, ReadXs, scores
<1>4. CASE Pass BY <1>4 DEF Pass, scores
<1> QED BY <1>1, <1>2, <1>3, <1>4 DEF Next

\* The two hashes of a run are published together.
LEMMA StepHashes == Typed /\ HashesTogether /\ [Next]_vars => HashesTogether'
<1> SUFFICES ASSUME Typed, HashesTogether, Next PROVE HashesTogether'
    BY DEF HashesTogether, vars, scores
<1> USE DEF HashesTogether
<1>0. now \in Nat /\ pct.at \in Nat /\ req.since \in Nat BY ServingAssumption DEF Typed, TypeOK
<1>1. CASE Finish
    <2>1. UNCHANGED <<now, req>> BY <1>1 DEF Finish
    <2>2. xs' = pct' /\ (pct'.at = now \/ pct' = pct)
        BY <1>1 DEF Finish
    <2> QED BY <1>0, <2>1, <2>2
<1>2. CASE Begin
    <2>1. UNCHANGED <<now, pct, xs>> BY <1>2 DEF Begin, scores
    <2>2. req'.since = pct.at BY <1>2 DEF Begin, NoRequest
    <2> QED BY <1>0, <2>1, <2>2
<1>3. CASE Pass
    <2>1. UNCHANGED <<pct, xs, req>> BY <1>3 DEF Pass, scores
    <2>2. PICK n \in Nat : n = now' /\ n = now + 1 BY <1>0, <1>3 DEF Pass
    <2> QED BY <1>0, <2>1, <2>2
<1>4. CASE ~Finish /\ ~Begin /\ ~Pass
    <2>1. UNCHANGED <<pct, xs, now>>
        BY <1>4 DEF Next, Jobs, Load, Ingest, Publish, Record, LoseKey, Tool, UpdatePlan, UpdateArchive,
                    UpdateCommit, UpdateDeleteKeys, UpdateStops, Request, ReadState, ReadRow,
                    AnswerSummary, ReadPercentile, ReadXs, scores
    <2>2. req'.since = req.since
        <3>1. CASE Request
            BY <1>4, <3>1 DEF Request, ReadState, ReadRow, AnswerSummary, ReadPercentile, ReadXs, Typed
        <3>2. CASE Jobs \/ Tool \/ Pass BY <3>2, RequestAlone
        <3> QED BY <3>1, <3>2 DEF Next
    <2> QED BY <2>1, <2>2
<1> QED BY <1>1, <1>2, <1>3, <1>4

\* What a request holds is as new as what there was when it came in.
LEMMA StepHeld ==
    Typed /\ StateLeads /\ HashesTogether /\ HeldCurrent /\ [Next]_vars => HeldCurrent'
<1> SUFFICES ASSUME Typed, StateLeads, HashesTogether, HeldCurrent, Next PROVE HeldCurrent'
    <2> SUFFICES ASSUME HeldCurrent, UNCHANGED vars PROVE HeldCurrent'
        OBVIOUS
    <2>1. UNCHANGED <<rows, pct, req>> BY DEF vars, scores
    <2> QED BY <2>1 DEF HeldCurrent, Scores
<1>0. /\ now \in Nat /\ pct.at \in Nat /\ req.pct \in Nat /\ req.since \in Nat /\ redis.at \in Nat
      /\ pct'.at \in Nat
    <2>1. now \in Nat /\ pct.at \in Nat /\ req.pct \in Nat /\ req.since \in Nat /\ redis.at \in Nat
        BY ServingAssumption DEF Typed, TypeOK
    <2>2. CASE Finish
        <3>1. pct' = pct \/ pct'.at = now BY <2>2 DEF Finish
        <3> QED BY <2>1, <3>1
    <2>3. CASE ~Finish BY <2>1, <2>3, HashesKept
    <2> QED BY <2>2, <2>3
<1>1. CASE Jobs \/ Tool \/ Pass
    <2>1. UNCHANGED req BY <1>1, RequestAlone
    <2>2. req.before \cap Scores' \subseteq req.before \cap Scores
        <3>1. CASE Record BY <3>1, ScoresMove DEF StateLeads, Record
        <3>2. CASE ~Record BY <3>2, ScoresMove
        <3> QED BY <3>1, <3>2
    <2>3. pct.at <= pct'.at
        <3>1. CASE Finish BY <1>0, <3>1 DEF Finish, HashesTogether
        <3>2. CASE ~Finish
            <4>1. UNCHANGED pct BY <3>2, HashesKept
            <4> QED BY <1>0, <4>1
        <3> QED BY <3>1, <3>2
    <2>4. req.pct <= pct.at => req.pct <= pct'.at BY <1>0, <2>3
    <2> HIDE DEF Scores
    <2> QED BY <2>1, <2>2, <2>4 DEF HeldCurrent
<1>2. CASE Request
    <2>1. UNCHANGED <<rows, pct, xs, redis>>
        BY <1>2 DEF Request, Begin, ReadState, ReadRow, AnswerSummary, ReadPercentile, ReadXs, scores
    <2>2. Scores' = Scores BY <2>1 DEF Scores
    <2>3. CASE Begin
        <3> DEFINE status == get_ticker_status(universe, symbol)
        <3>1. status \in {"active", "ticker_not_found", "delisted"} BY DEF get_ticker_status
        <3>2. /\ req'.pct = Never /\ req'.xs = Never
              /\ \/ req'.stage = "redis"
                 \/ req'.stage = "done" /\ req'.answer = status
            <4> DEFINE asked == [NoRequest EXCEPT !.before = Scores, !.since = pct.at]
            <4>1. req' = IF status = "active" THEN [asked EXCEPT !.stage = "redis"]
                         ELSE [asked EXCEPT !.stage = "done", !.answer = status]
                BY <2>3 DEF Begin
            <4>2. asked.pct = Never /\ asked.xs = Never
                BY DEF NoRequest
            <4>2a. DOMAIN asked = {"stage", "before", "since", "at", "pct", "xs", "answer", "failed"}
                BY DEF NoRequest
            <4> HIDE DEF asked, status
            <4>3. CASE req' = [asked EXCEPT !.stage = "redis"] BY <4>2, <4>2a, <4>3
            <4>4. CASE req' = [asked EXCEPT !.stage = "done", !.answer = status] BY <4>2, <4>2a, <4>4
            <4> QED BY <4>1, <4>3, <4>4
        <3> QED BY <3>1, <3>2 DEF HeldCurrent, Never
    <2>4. CASE ReadState
        <3>1. /\ req'.pct = req.pct /\ req'.xs = req.xs /\ req'.before = req.before /\ req.stage = "redis"
              /\ \/ req'.stage = "fallback"
                 \/ req'.stage = "found" /\ req'.at = redis.at
            <4>1. \/ req' = [req EXCEPT !.stage = "found", !.at = redis.at]
                  \/ req' = [req EXCEPT !.stage = "fallback"]
                BY <2>4 DEF ReadState
            <4>2. req.stage = "redis" BY <2>4 DEF ReadState
            <4>3. CASE req' = [req EXCEPT !.stage = "found", !.at = redis.at]
                BY <4>2, <4>3 DEF Typed
            <4>4. CASE req' = [req EXCEPT !.stage = "fallback"] BY <4>2, <4>4 DEF Typed
            <4> QED BY <4>1, <4>3, <4>4
        <3>2. req.pct = Never /\ req.xs = Never BY <3>1 DEF HeldCurrent
        <3>3. \A a \in req.before : a <= redis.at BY DEF StateLeads
        <3> QED BY <2>2, <3>1, <3>2, <3>3 DEF HeldCurrent, Never
    <2>5. CASE ReadRow
        <3>1. /\ req'.pct = req.pct /\ req'.xs = req.xs /\ req'.before = req.before /\ req.stage = "fallback"
              /\ \/ Scores # {} /\ req'.stage = "found" /\ req'.at = Latest(Scores)
                 \/ req'.stage = "done" /\ req'.answer = "insufficient_data" /\ (Scores = {} \/ req'.failed)
            BY <2>5 DEF ReadRow, Typed
        <3>2. req.pct = Never /\ req.xs = Never BY <3>1 DEF HeldCurrent
        <3>3. Scores # {} => \A a \in Scores : a <= Latest(Scores) BY LatestScore
        <3> HIDE DEF Scores
        <3> QED BY <2>2, <3>1, <3>2, <3>3 DEF HeldCurrent, Never
    <2>6. CASE AnswerSummary
        <3>1. /\ req'.pct = req.pct /\ req'.xs = req.xs /\ req'.before = req.before /\ req.stage = "found"
              /\ req'.at = req.at /\ req'.stage = "done" /\ req'.answer = "score"
            BY <2>6 DEF AnswerSummary, Typed
        <3>2. req.pct = Never /\ req.xs = Never /\ \A a \in req.before \cap Scores : a <= req.at
            BY <3>1 DEF HeldCurrent
        <3> QED BY <2>2, <3>1, <3>2 DEF HeldCurrent, Never
    <2>7. CASE ReadPercentile
        <3>1. PICK part \in Parts(pct) : req' = [req EXCEPT !.stage = "percentile", !.pct = part]
            BY <2>7 DEF ReadPercentile
        <3>2. /\ req'.pct = part /\ req'.xs = req.xs /\ req'.before = req.before /\ req.stage = "found"
              /\ req'.at = req.at /\ req'.since = req.since /\ req'.stage = "percentile"
            BY <2>7, <3>1 DEF ReadPercentile, Typed
        <3>3. part = Never \/ part = pct.at BY DEF Parts
        <3>4. req.xs = Never /\ \A a \in req.before \cap Scores : a <= req.at BY <3>2 DEF HeldCurrent
        <3>5. req.since <= pct.at BY DEF HashesTogether
        <3> QED BY <1>0, <2>1, <2>2, <3>2, <3>3, <3>4, <3>5 DEF HeldCurrent
    <2>8. CASE ReadXs
        <3>1. PICK part \in Parts(xs) :
                 req' = [req EXCEPT !.stage = "done", !.answer = "score", !.xs = part]
            BY <2>8 DEF ReadXs
        <3>2. /\ req'.xs = part /\ req'.pct = req.pct /\ req'.before = req.before /\ req.stage = "percentile"
              /\ req'.at = req.at /\ req'.since = req.since /\ req'.stage = "done" /\ req'.answer = "score"
            BY <2>8, <3>1 DEF ReadXs, Typed
        <3>3. part = Never \/ part = pct.at BY DEF Parts, HashesTogether
        <3>4. \A a \in req.before \cap Scores : a <= req.at BY <3>2 DEF HeldCurrent
        <3>5. req.pct # Never => req.since <= req.pct /\ req.pct <= pct.at BY DEF HeldCurrent
        <3> QED BY <2>1, <2>2, <3>2, <3>3, <3>4, <3>5 DEF HeldCurrent
    <2> QED BY <1>2, <2>3, <2>4, <2>5, <2>6, <2>7, <2>8 DEF Request
<1> QED BY <1>1, <1>2 DEF Next

\* The history of any interval starts with the newest row of all, if its days reach it.
LEMMA HistoryStarts ==
    ASSUME Typed, Scores # {}, NEW days \in Nat, NEW length, Latest(Scores) >= Since(days)
    PROVE  get_history(days, length) # {} /\ Latest(get_history(days, length)) = Latest(Scores)
<1> DEFINE top == Latest(Scores)
           shown == get_history(days, length)
<1>1. top \in Scores /\ \A b \in Scores : b <= top BY LatestScore
<1>2. shown \subseteq Scores /\ top \in shown BY <1>1 DEF get_history
<1>3. Scores \subseteq Nat BY ScoresTyped
<1> HIDE DEF top, shown
<1>4. \E a \in shown : \A b \in shown : b <= a BY <1>1, <1>2
<1>5. Latest(shown) \in shown /\ \A b \in shown : b <= Latest(shown) BY <1>4 DEF Latest
<1>6. Latest(shown) <= top /\ top <= Latest(shown) /\ Latest(shown) \in Nat /\ top \in Nat
    BY <1>1, <1>2, <1>3, <1>5
<1>7. shown # {} /\ Latest(shown) = top BY <1>2, <1>6
<1> QED BY <1>7 DEF top, shown

\* Where they do not, it is empty.
LEMMA HistoryEmpty ==
    ASSUME Typed, NEW days \in Nat, NEW length, ~(Scores # {} /\ Latest(Scores) >= Since(days))
    PROVE  get_history(days, length) = {}
<1>1. CASE Scores = {} BY <1>1 DEF get_history
<1>2. CASE Scores # {}
    <2>1. \A b \in Scores : b <= Latest(Scores) BY <1>2, LatestScore
    <2>2. Latest(Scores) \in Nat /\ Scores \subseteq Nat BY <1>2, LatestScore, ScoresTyped
    <2>3. Since(days) \in Int
        <3>1. now \in Nat BY ServingAssumption DEF Typed, TypeOK
        <3>2. \A n \in Nat : now - DayLength * n \in Int BY <3>1, ServingAssumption
        <3>3. (IF days < 1 THEN 1 ELSE IF days > 365 THEN 365 ELSE days) \in Nat OBVIOUS
        <3> QED BY <3>2, <3>3 DEF Since
    <2>4. \A b \in Scores : ~(b >= Since(days)) BY <1>2, <2>1, <2>2, <2>3
    <2> QED BY <2>4 DEF get_history
<1> QED BY <1>1, <1>2

\* An answer is as new as what there was when the request came in, for any interleaving
\* of requests with jobs, runs of the tool and lost keys.
THEOREM AnswersStayCurrent == Spec => []AnswersAreCurrent
<1>1. AnswerInv => AnswersAreCurrent
    <2> SUFFICES ASSUME AnswerInv, req.stage = "done" PROVE AnswersAreCurrent
        BY DEF AnswersAreCurrent
    <2>1. Typed /\ HeldCurrent BY DEF AnswerInv
    <2>2. ASSUME NEW days \in 1 .. MaxTime, NEW length \in {1, DayLength}
          PROVE  IF Scores # {} /\ Latest(Scores) >= Since(days)
                 THEN /\ get_history(days, length) # {}
                      /\ Latest(get_history(days, length)) = Latest(Scores)
                 ELSE get_history(days, length) = {}
        <3>1. days \in Nat OBVIOUS
        <3> QED BY <2>1, <3>1, HistoryStarts, HistoryEmpty
    <2> QED BY <2>1, <2>2 DEF HeldCurrent, AnswersAreCurrent
<1>2. Init => AnswerInv /\ UniverseInv BY InitAnswers, InitUniverse
<1>3. AnswerInv /\ UniverseInv /\ [Next]_vars => (AnswerInv /\ UniverseInv)'
    BY StepUniverse, StepStateLeads, StepHashes, StepHeld DEF AnswerInv, UniverseInv
<1> QED BY <1>1, <1>2, <1>3, PTL DEF Spec

---------------------------------------------------------------------------
(* The scores that are read and those that ScoringTick writes.             *)

\* ScoreLedger for the one symbol that a behaviour follows: its state in Redis, and its
\* rows in sentiment_history.
Ledger == INSTANCE ScoreLedger WITH
    Tickers <- {"symbol"},
    published <- [t \in {"symbol"} |-> [at |-> redis.at]],
    ledger <- [t \in {"symbol"} |-> {[at |-> a] : a \in Scores}]

\* The one move that ScoreLedger does not know: the transaction of the tool takes rows of
\* another company out of the record.
Withdraw ==
    /\ UpdateCommit /\ UNCHANGED redis /\ Scores' \subseteq Scores
    /\ \A a \in Scores \ Scores' : IsReused /\ a >= reused[symbol]

\* A step of the ledger, said of the state in Redis and of the recorded times.
LEMMA LedgerMoves ==
    ASSUME \/ redis'.at > redis.at /\ Scores' = Scores
           \/ redis'.at = redis.at /\ Scores' = Scores \cup {redis.at} /\ \A a \in Scores : a < redis.at
           \/ redis'.at = redis.at /\ Scores' = Scores
    PROVE  Ledger!Next
<1> DEFINE recorded == {[at |-> a] : a \in Scores}
<1>1. recorded' = {[at |-> a] : a \in Scores'} OBVIOUS
<1>2. ASSUME Scores' = Scores PROVE recorded' = recorded BY <1>1, <1>2
<1>3. ASSUME Scores' = Scores \cup {redis.at} PROVE recorded' = recorded \cup {[at |-> redis.at]}
    BY <1>1, <1>3
<1>4. ASSUME \A a \in Scores : a < redis.at PROVE \A r \in recorded : r.at < redis.at BY <1>4
<1> HIDE DEF recorded
<1>5. CASE redis'.at > redis.at /\ Scores' = Scores
    BY <1>2, <1>5 DEF Ledger!Next, Ledger!Publish, recorded
<1>6. CASE redis'.at = redis.at /\ Scores' = Scores \cup {redis.at} /\ \A a \in Scores : a < redis.at
    BY <1>3, <1>4, <1>6 DEF Ledger!Next, Ledger!Record, recorded
<1>7. CASE redis'.at = redis.at /\ Scores' = Scores
    BY <1>2, <1>7 DEF Ledger!Next, Ledger!Idle, recorded
<1> QED BY <1>5, <1>6, <1>7

\* Each step is one of the ledger's, or withdraws rows.
LEMMA StepLedger == AnswerInv /\ [Next]_vars => [Ledger!Next \/ Withdraw]_vars
<1> SUFFICES ASSUME AnswerInv, Next PROVE Ledger!Next \/ Withdraw
    OBVIOUS
<1> USE DEF AnswerInv
<1>0. Scores \subseteq Nat /\ redis.at \in Nat /\ now \in Nat
    BY ScoresTyped, ServingAssumption DEF Typed, TypeOK
<1>1. CASE Publish
    <2>1. redis.at < now /\ redis'.at = now /\ rows' = rows BY <1>1 DEF Publish
    <2>2. redis'.at > redis.at BY <1>0, <2>1
    <2>3. Scores' = Scores BY <2>1 DEF Scores
    <2> QED BY <2>2, <2>3, LedgerMoves
<1>2. CASE Record
    <2>1. wrote = "state" /\ redis' = redis BY <1>2 DEF Record
    <2>2. Scores' = Scores \cup {redis.at} BY <1>2, ScoresMove
    <2>3. \A a \in Scores : a <= redis.at /\ a # redis.at BY <2>1 DEF StateLeads
    <2>4. \A a \in Scores : a < redis.at BY <1>0, <2>3
    <2> QED BY <2>1, <2>2, <2>4, LedgerMoves
<1>3. CASE UpdateCommit
    <2>1. UNCHANGED redis /\ rows' \subseteq rows BY <1>3 DEF UpdateCommit, scores
    <2>2. Scores' \subseteq Scores BY <2>1 DEF Scores
    <2>3. ASSUME NEW a \in Scores \ Scores' PROVE IsReused /\ a >= reused[symbol]
        <3>1. PICK r \in rows : r.kind = "score" /\ r.at = a BY <2>3 DEF Scores
        <3>2. r \notin rows' BY <2>3, <3>1 DEF Scores
        <3>3. PICK q \in tool.queries : r \in Selected(q) BY <1>3, <3>1, <3>2 DEF UpdateCommit, SelectedBy
        <3>4. q \in QueryKinds BY <3>3 DEF Typed, TypeOK
        <3>5. r \in OfAnother BY <3>1, <3>3, <3>4 DEF Selected, QueryKinds
        <3> QED BY <3>1, <3>5 DEF OfAnother
    <2> QED BY <1>3, <2>1, <2>2, <2>3 DEF Withdraw
<1>4. ASSUME redis'.at = redis.at, UNCHANGED rows PROVE Ledger!Next
    <2>1. Scores' = Scores BY <1>4 DEF Scores
    <2> QED BY <1>4, <2>1, LedgerMoves
<1>5. ASSUME NEW v \in Values, Ingest(v) PROVE Ledger!Next
    <2>1. redis' = redis /\ ~Record BY <1>5 DEF Ingest, scores, Record
    <2>2. rows \subseteq rows' BY <1>5 DEF Ingest
    <2>3. Scores \subseteq Scores' BY <2>2 DEF Scores
    <2>4. \A r \in rows' \ rows : r.kind # "score" BY <1>5 DEF Ingest
    <2>5. Scores' \subseteq Scores BY <2>4 DEF Scores
    <2> QED BY <2>1, <2>3, <2>5, LedgerMoves
<1>6. CASE LoseKey
    <2>1. redis'.at = redis.at /\ UNCHANGED rows BY <1>6 DEF LoseKey, Typed, TypeOK
    <2> QED BY <1>4, <2>1
<1>7. CASE UpdateDeleteKeys
    <2>1. redis' = [redis EXCEPT !.live = FALSE] \/ redis' = redis BY <1>7 DEF UpdateDeleteKeys
    <2>2. redis'.at = redis.at /\ UNCHANGED rows BY <1>7, <2>1 DEF UpdateDeleteKeys, Typed, TypeOK
    <2> QED BY <1>4, <2>2
<1>8. CASE Load \/ Finish BY <1>4, <1>8 DEF Load, Finish
<1>9. CASE UpdatePlan \/ UpdateArchive \/ UpdateStops
    BY <1>4, <1>9 DEF UpdatePlan, UpdateArchive, UpdateStops, scores
<1>10. CASE Request \/ Pass
    BY <1>4, <1>10
       DEF Request, Begin, ReadState, ReadRow, AnswerSummary, ReadPercentile, ReadXs, Pass, scores
<1> QED BY <1>1, <1>2, <1>3, <1>5, <1>6, <1>7, <1>8, <1>9, <1>10 DEF Next, Jobs, Tool

\* The scores that requests read move as the specification that ScoringTick implements
\* says: a state is published with a later time than any before it, then recorded once,
\* after everything recorded so far; only the tool's transaction takes rows out.
THEOREM ScoresMoveAsPublished ==
    Spec => Ledger!Init /\ [][Ledger!Next \/ Withdraw]_vars
<1>1. Init => Ledger!Init
    <2> SUFFICES ASSUME Init PROVE Ledger!Init
        OBVIOUS
    <2>1. Scores = {} /\ redis.at = 0 BY DEF Init, Scores, Never
    <2> QED BY <2>1 DEF Ledger!Init
<1>2. Init => AnswerInv /\ UniverseInv BY InitAnswers, InitUniverse
<1>3. AnswerInv /\ UniverseInv /\ [Next]_vars => (AnswerInv /\ UniverseInv)'
    BY StepUniverse, StepStateLeads, StepHashes, StepHeld DEF AnswerInv, UniverseInv
<1>4. AnswerInv /\ [Next]_vars => [Ledger!Next \/ Withdraw]_vars BY StepLedger
<1> QED BY <1>1, <1>2, <1>3, <1>4, PTL DEF Spec

---------------------------------------------------------------------------
(* The silence of a retired symbol.                                        *)

\* The queries that select something, and what a retired symbol is once it is cleaned up.
Selecting == {q \in Cleanup : Selected(q) # {}}
Silenced == universe[symbol].delisted # Listed /\ SelectedBy(Cleanup) = {}

\* A calm run has met no job with a retired symbol, so its queries are still the ones
\* that select something, and once it has committed nothing is selected; after it has
\* ended the symbol is gone from the job and from Redis too.
SilenceInv ==
    /\ tool.stage # "idle" /\ tool.calm => batch \cap Gone = {}
    /\ symbol \in Gone =>
        /\ tool.stage \in {"planned", "archived"} /\ tool.calm => tool.queries = Selecting
        /\ tool.stage = "committed" /\ tool.calm => Silenced
        /\ clean => /\ Silenced /\ symbol \notin batch /\ ~redis.live
                    /\ tool.stage \in {"planned", "archived"} => tool.queries = {}

\* The symbols that have stopped trading and that the table knows stay the same.
LEMMA GoneKept == ASSUME Typed, PlanStands, Next PROVE Gone' = Gone
<1>1. UNCHANGED changes BY TableKept DEF fixed
<1>2. CASE UpdateCommit
    <2>1. DOMAIN universe' = DOMAIN universe \cup tool.plan.add BY <1>2 DEF UpdateCommit, Applied
    <2>2. tool.plan.add \cap DOMAIN changes = {} BY <1>2 DEF UpdateCommit, PlanStands
    <2> QED BY <1>1, <2>1, <2>2 DEF Gone, retired
<1>3. CASE UNCHANGED universe BY <1>1, <1>3 DEF Gone, retired
<1> QED BY <1>2, <1>3, TableKept

\* What the queries select depends on the rows alone.
LEMMA SelectionKept ==
    ASSUME Typed, PlanStands, Next, UNCHANGED rows
    PROVE  Selecting' = Selecting /\ SelectedBy(Cleanup)' = SelectedBy(Cleanup)
<1>1. UNCHANGED <<symbol, changes, reused>> BY TableKept DEF fixed
<1>2. Gone' = Gone BY GoneKept
<1>3. After' = After /\ OfAnother' = OfAnother /\ IsReused' = IsReused
    BY <1>1, <1>2 DEF After, OfAnother, IsReused
<1>4. IsFrozen' = IsFrozen BY <1>3 DEF IsFrozen
<1>5. Cleanup' = Cleanup BY <1>3, <1>4 DEF Cleanup
<1>6. ASSUME NEW q PROVE Selected(q)' = Selected(q) BY <1>3 DEF Selected
<1> QED BY <1>5, <1>6 DEF Selecting, SelectedBy

\* Once what the queries select is deleted, no query selects anything: if the prices
\* were not frozen, they are still the same.
LEMMA CleanupCompletes ==
    ASSUME Typed, PlanStands, UpdateCommit, tool.queries = Selecting
    PROVE  SelectedBy(Cleanup)' = {}
<1>0. Next BY DEF Next, Tool
<1>1. UNCHANGED <<symbol, changes, reused>> BY <1>0, TableKept DEF fixed
<1>2. Gone' = Gone BY <1>0, GoneKept
<1> DEFINE del == SelectedBy(tool.queries)
<1>3. rows' = rows \ del BY DEF UpdateCommit
<1>4. ASSUME NEW q \in Cleanup PROVE Selected(q) \subseteq del
    <2>1. Selected(q) # {} => q \in tool.queries BY DEF Selecting
    <2> QED BY <2>1 DEF SelectedBy
<1>5. Selected("reused") \subseteq del /\ Selected("derived") \subseteq del
    BY <1>4 DEF Cleanup
<1>6. Selected("reused") = OfAnother BY DEF Selected
<1>7. Selected("derived") = {r \in After \ OfAnother : r.kind = "derived"} BY DEF Selected
<1>8. Selected("frozen") = {r \in After : r.kind = "price"} BY DEF Selected
<1>9. del \subseteq OfAnother \cup Selected("derived") \cup {r \in Selected("frozen") : "frozen" \in Cleanup}
    <2>1. \A q \in tool.queries : q \in Cleanup BY DEF Selecting
    <2>2. \A q \in Cleanup : q \in {"reused", "derived", "frozen"} BY CleanupTyped DEF QueryKinds
    <2> QED BY <1>6, <2>1, <2>2 DEF SelectedBy
<1>10. After' = After \ del /\ OfAnother' = OfAnother \ del /\ IsReused' = IsReused
    <2> HIDE DEF del
    <2> QED BY <1>1, <1>2, <1>3 DEF After, OfAnother, IsReused
<1> HIDE DEF del
<1>11. OfAnother' = {} BY <1>5, <1>6, <1>10
<1>12. Selected("reused")' = {} BY <1>11 DEF Selected
<1>13. Selected("derived")' = {}
    <2>1. Selected("derived")' = {r \in After' \ OfAnother' : r.kind = "derived"} BY DEF Selected
    <2>2. ASSUME NEW r \in After' \ OfAnother', r.kind = "derived" PROVE FALSE
        <3>1. r \in After /\ r \notin del BY <1>10
        <3>2. r \notin OfAnother BY <1>5, <1>6, <3>1
        <3> QED BY <1>5, <1>7, <2>2, <3>1, <3>2
    <2> QED BY <2>1, <2>2
<1>14. ASSUME "frozen" \in Cleanup' PROVE Selected("frozen")' = {}
    <2>1. Selected("frozen")' = {r \in After' : r.kind = "price"} BY DEF Selected
    <2>2. IsFrozen' /\ ~IsReused BY <1>10, <1>14 DEF Cleanup
    <2>3. OfAnother = {} BY <2>2 DEF OfAnother
    <2>4. CASE "frozen" \in Cleanup
        <3>1. Selected("frozen") \subseteq del BY <1>4, <2>4
        <3> QED BY <1>8, <1>10, <2>1, <3>1
    <2>5. CASE "frozen" \notin Cleanup
        <3>1. ~IsFrozen BY <2>2, <2>5 DEF Cleanup
        <3>2. {r \in After' : r.kind = "price"} = {r \in After : r.kind = "price"}
            <4>1. ASSUME NEW r \in After, r.kind = "price" PROVE r \notin del
                BY <1>7, <1>9, <2>3, <2>5, <4>1
            <4> QED BY <1>10, <4>1
        <3>3. IsFrozen' = IsFrozen
            <4>1. IsFrozen <=> Cardinality({r.value : r \in {x \in After : x.kind = "price"}}) = 1
                BY DEF IsFrozen
            <4>2. IsFrozen' <=> Cardinality({r.value : r \in {x \in After' : x.kind = "price"}}) = 1
                BY DEF IsFrozen
            <4> QED BY <3>2, <4>1, <4>2
        <3> QED BY <2>2, <3>1, <3>3
    <2> QED BY <2>4, <2>5
<1>15. ASSUME NEW q \in Cleanup' PROVE Selected(q)' = {}
    <2>1. q \in {"reused", "derived", "frozen"} BY DEF Cleanup
    <2> QED BY <1>12, <1>13, <1>14, <2>1
<1> QED BY <1>15 DEF SelectedBy

\* Without the symbol in its tickers a job writes nothing of it.
LEMMA RowsKept ==
    ASSUME Typed, Next, symbol \notin batch, ~UpdateCommit
    PROVE  UNCHANGED rows /\ (redis'.live => redis.live)
<1>0. redis \in [at : Nat, live : BOOLEAN] BY DEF Typed, TypeOK
<1>1. CASE Jobs
    <2>1. CASE LoseKey
        <3>1. redis' = [redis EXCEPT !.live = FALSE] BY <2>1 DEF LoseKey
        <3> QED BY <1>0, <2>1, <3>1 DEF LoseKey
    <2>2. CASE Load \/ Finish BY <2>2 DEF Load, Finish
    <2>3. ~Publish /\ ~Record /\ \A v \in Values : ~Ingest(v) BY DEF Publish, Record, Ingest
    <2> QED BY <1>1, <2>1, <2>2, <2>3 DEF Jobs
<1>2. CASE Tool
    <2>1. CASE UpdateDeleteKeys
        <3>1. redis' = [redis EXCEPT !.live = FALSE] \/ redis' = redis BY <2>1 DEF UpdateDeleteKeys
        <3> QED BY <1>0, <2>1, <3>1 DEF UpdateDeleteKeys
    <2>2. CASE ~UpdateDeleteKeys
        BY <1>2, <2>2 DEF Tool, UpdatePlan, UpdateArchive, UpdateStops, scores
    <2> QED BY <2>1, <2>2
<1>3. CASE Request
    BY <1>3 DEF Request, Begin, ReadState, ReadRow, AnswerSummary, ReadPercentile, ReadXs, scores
<1>4. CASE Pass BY <1>4 DEF Pass, scores
<1> QED BY <1>1, <1>2, <1>3, <1>4 DEF Next

\* A job has the tickers that it loaded, which are active ones, until it ends.
LEMMA BatchMoves ==
    ASSUME Typed, Next
    PROVE  \/ batch' \subseteq batch
           \/ Load /\ \A t \in batch' : t \in DOMAIN universe /\ universe[t].delisted = Listed
<1>1. CASE Load BY <1>1 DEF Load, get_active_tickers
<1>2. CASE Finish BY <1>2 DEF Finish
<1>3. CASE ~Load /\ ~Finish
    <2>1. CASE Jobs BY <1>3, <2>1 DEF Jobs, Ingest, Publish, Record, LoseKey, scores
    <2>2. CASE Tool
        BY <2>2 DEF Tool, UpdatePlan, UpdateArchive, UpdateCommit, UpdateDeleteKeys, UpdateStops, scores
    <2>3. CASE Request
        BY <2>3 DEF Request, Begin, ReadState, ReadRow, AnswerSummary, ReadPercentile, ReadXs, scores
    <2>4. CASE Pass BY <2>4 DEF Pass, scores
    <2> QED BY <2>1, <2>2, <2>3, <2>4 DEF Next
<1> QED BY <1>1, <1>2, <1>3

\* A symbol that is retired stays so, and the transaction retires all that it should.
LEMMA DelistedStays ==
    ASSUME UniverseInv, Next, symbol \in Gone, universe[symbol].delisted # Listed \/ UpdateCommit
    PROVE  universe'[symbol].delisted # Listed
<1>1. symbol \in DOMAIN universe /\ symbol \in DOMAIN changes BY DEF Gone, retired
<1>2. CASE UpdateCommit
    <2>1. changes[symbol].last # Listed BY <1>1 DEF UniverseInv, Typed, FixedOK, AreChanges
    <2>2. tool.plan = plan_update(universe, constituents, changes)
        BY <1>2 DEF UpdateCommit, UniverseInv, PlanStands
    <2>3. symbol \in tool.plan.retire \/ universe[symbol].delisted = changes[symbol].last
        BY <1>1, <2>2 DEF plan_update, PlanRetire, retired
    <2>4. universe'[symbol].delisted = IF symbol \in tool.plan.retire THEN changes[symbol].last
                                       ELSE universe[symbol].delisted
        BY <1>1, <1>2 DEF UpdateCommit, Applied
    <2> QED BY <2>1, <2>3, <2>4
<1>3. CASE UNCHANGED universe /\ ~UpdateCommit BY <1>3
<1> QED BY <1>2, <1>3, TableKept

\* Only the deletion of the keys makes a run clean, and it needs a calm one.
LEMMA CleanMoves ==
    ASSUME Next
    PROVE  \/ UNCHANGED clean
           \/ UpdateDeleteKeys /\ clean' = (clean \/ tool.calm)
<1>1. CASE Jobs BY <1>1 DEF Jobs, Load, Ingest, Publish, Record, Finish, LoseKey, update
<1>2. CASE Tool BY <1>2 DEF Tool, UpdatePlan, UpdateArchive, UpdateCommit, UpdateDeleteKeys, UpdateStops
<1>3. CASE Request
    BY <1>3 DEF Request, Begin, ReadState, ReadRow, AnswerSummary, ReadPercentile, ReadXs, update
<1>4. CASE Pass BY <1>4 DEF Pass, update
<1> QED BY <1>1, <1>2, <1>3, <1>4 DEF Next

\* Nothing is written of a symbol that nobody loads any more.
LEMMA StepSilence == UniverseInv /\ SilenceInv /\ [Next]_vars => SilenceInv'
<1> SUFFICES ASSUME UniverseInv, SilenceInv, Next PROVE SilenceInv'
    <2> SUFFICES ASSUME SilenceInv, UNCHANGED vars PROVE SilenceInv'
        OBVIOUS
    <2>1. UNCHANGED <<symbol, changes, reused, universe, rows, redis, batch, tool, clean>>
        BY DEF vars, fixed, table, scores, update
    <2>2. /\ Gone' = Gone /\ Selecting' = Selecting /\ SelectedBy(Cleanup)' = SelectedBy(Cleanup)
        BY <2>1 DEF Gone, Selecting, SelectedBy, Cleanup, Selected, After, OfAnother, IsFrozen, IsReused
    <2> QED BY <2>1, <2>2 DEF SilenceInv, Silenced
<1>0. Typed /\ PlanStands BY DEF UniverseInv
<1>1. Gone' = Gone /\ symbol' = symbol BY <1>0, GoneKept, TableKept DEF fixed
<1>2. tool \in RunRecords
    BY <1>0 DEF Typed
\* No step that a calm run goes on in adds a job with a retired symbol.
<1>3. tool'.stage # "idle" /\ tool'.calm => batch' \cap Gone = {}
    <2> SUFFICES ASSUME tool'.stage # "idle", tool'.calm PROVE batch' \cap Gone = {}
        OBVIOUS
    <2>1. CASE Load BY <1>0, <1>1, <1>2, <2>1 DEF Load, Gone
    <2>2. CASE ~Load
        <3>1. batch' \subseteq batch BY <1>0, <2>2, BatchMoves
        <3>2. CASE UpdatePlan
            <4>1. tool'.calm = (batch \cap Gone = {}) BY <3>2 DEF UpdatePlan
            <4> QED BY <2>2, <3>1, <4>1
        <3>3. CASE tool' = NoRun BY <3>3 DEF NoRun
        <3>4. CASE UpdateCommit
            <4>1. tool.stage # "idle" /\ tool'.calm = tool.calm BY <1>2, <3>4 DEF UpdateCommit
            <4> QED BY <2>2, <3>1, <4>1 DEF SilenceInv
        <3>5. CASE tool.stage = "planned" /\ tool' = [tool EXCEPT !.stage = "archived"]
            <4>1. tool.stage # "idle" /\ tool'.calm = tool.calm BY <1>2, <3>5
            <4> QED BY <2>2, <3>1, <4>1 DEF SilenceInv
        <3>6. CASE tool'.stage = tool.stage /\ (tool'.calm => tool.calm)
            BY <2>2, <3>1, <3>6 DEF SilenceInv
        <3> QED BY <1>0, <3>2, <3>3, <3>4, <3>5, <3>6, ToolMoves
    <2> QED BY <2>1, <2>2
<1> SUFFICES ASSUME symbol \in Gone
             PROVE  /\ tool'.stage \in {"planned", "archived"} /\ tool'.calm => tool'.queries = Selecting'
                    /\ tool'.stage = "committed" /\ tool'.calm => Silenced'
                    /\ clean' => /\ Silenced' /\ symbol \notin batch' /\ ~redis'.live
                                 /\ tool'.stage \in {"planned", "archived"} => tool'.queries = {}
    BY <1>1, <1>3 DEF SilenceInv
<1>4. ASSUME UNCHANGED rows, Silenced PROVE Silenced'
    <2>1. SelectedBy(Cleanup)' = SelectedBy(Cleanup) BY <1>0, <1>4, SelectionKept
    <2>2. universe'[symbol].delisted # Listed BY <1>4, DelistedStays DEF Silenced
    <2> QED BY <1>1, <1>4, <2>1, <2>2 DEF Silenced
<1>5. ASSUME UNCHANGED rows PROVE Selecting' = Selecting
    BY <1>0, <1>5, SelectionKept
\* A run that is planned or archived, and calm.
<1>6. tool'.stage \in {"planned", "archived"} /\ tool'.calm => tool'.queries = Selecting'
    <2> SUFFICES ASSUME tool'.stage \in {"planned", "archived"}, tool'.calm
                 PROVE  tool'.queries = Selecting'
        OBVIOUS
    <2>1. CASE UpdatePlan
        <3>1. UNCHANGED rows /\ tool'.queries = Selecting BY <2>1 DEF UpdatePlan, Selecting
        <3> QED BY <1>5, <3>1
    <2>2. CASE /\ ~UpdateCommit /\ tool.stage \in {"planned", "archived"} /\ tool.calm
               /\ tool'.queries = tool.queries
        <3>1. symbol \notin batch /\ tool.queries = Selecting BY <2>2 DEF SilenceInv
        <3>2. UNCHANGED rows BY <1>0, <2>2, <3>1, RowsKept
        <3> QED BY <1>5, <2>2, <3>1, <3>2
    <2>3. CASE UpdateCommit
        <3>1. tool'.stage = "committed" BY <1>2, <2>3 DEF UpdateCommit
        <3> QED BY <3>1
    <2>4. CASE tool' = NoRun BY <2>4 DEF NoRun
    <2>5. CASE tool.stage = "planned" /\ tool' = [tool EXCEPT !.stage = "archived"]
        <3>1. tool'.queries = tool.queries /\ tool'.calm = tool.calm BY <1>2, <2>5
        <3>2. ~UpdateCommit BY <2>5 DEF UpdateCommit
        <3> QED BY <2>2, <2>5, <3>1, <3>2
    <2> QED BY <1>0, <2>1, <2>2, <2>3, <2>4, <2>5, ToolMoves
\* A run that has committed, and calm.
<1>7. tool'.stage = "committed" /\ tool'.calm => Silenced'
    <2> SUFFICES ASSUME tool'.stage = "committed", tool'.calm PROVE Silenced'
        OBVIOUS
    <2>1. CASE UpdateCommit
        <3>1. tool.stage = "archived" /\ tool.calm BY <1>2, <2>1 DEF UpdateCommit
        <3>2. tool.queries = Selecting BY <3>1 DEF SilenceInv
        <3>3. SelectedBy(Cleanup)' = {} BY <1>0, <2>1, <3>2, CleanupCompletes
        <3>4. universe'[symbol].delisted # Listed BY <2>1, DelistedStays
        <3> QED BY <1>1, <3>3, <3>4 DEF Silenced
    <2>2. CASE ~UpdateCommit /\ tool'.stage = tool.stage /\ tool.calm
        <3>1. symbol \notin batch /\ Silenced BY <2>2 DEF SilenceInv
        <3>2. UNCHANGED rows BY <1>0, <2>2, <3>1, RowsKept
        <3> QED BY <1>4, <3>1, <3>2
    <2>3. CASE UpdatePlan
        <3>1. tool'.stage = "planned" BY <2>3 DEF UpdatePlan
        <3> QED BY <3>1
    <2>4. CASE tool.stage = "planned" /\ tool' = [tool EXCEPT !.stage = "archived"]
        <3>1. tool'.stage = "archived" BY <1>2, <2>4
        <3> QED BY <3>1
    <2>5. CASE tool' = NoRun BY <2>5 DEF NoRun
    <2> QED BY <1>0, <2>1, <2>2, <2>3, <2>4, <2>5, ToolMoves
\* Once clean, always clean: the transaction of a later run deletes nothing.
<1>8. ASSUME clean
      PROVE  /\ Silenced' /\ symbol \notin batch' /\ ~redis'.live
             /\ tool'.stage \in {"planned", "archived"} => tool'.queries = {}
    <2>1. /\ Silenced /\ symbol \notin batch /\ ~redis.live
          /\ tool.stage \in {"planned", "archived"} => tool.queries = {}
        BY <1>8 DEF SilenceInv
    <2>2. UNCHANGED rows
        <3>1. CASE UpdateCommit
            <4>1. tool.queries = {} BY <2>1, <3>1 DEF UpdateCommit
            <4>2. SelectedBy(tool.queries) = {} BY <4>1 DEF SelectedBy
            <4> QED BY <3>1, <4>2 DEF UpdateCommit
        <3>2. CASE ~UpdateCommit BY <1>0, <2>1, <3>2, RowsKept
        <3> QED BY <3>1, <3>2
    <2>3. Silenced' BY <1>4, <2>1, <2>2
    <2>4. symbol \notin batch' BY <1>0, <2>1, BatchMoves DEF Silenced
    <2>5. ~redis'.live
        <3>1. CASE UpdateCommit BY <2>1, <3>1 DEF UpdateCommit, scores
        <3>2. CASE ~UpdateCommit BY <1>0, <2>1, <3>2, RowsKept
        <3> QED BY <3>1, <3>2
    <2>6. tool'.stage \in {"planned", "archived"} => tool'.queries = {}
        <3>1. CASE UpdatePlan
            <4>1. Selecting = {} BY <2>1 DEF Silenced, Selecting, SelectedBy
            <4> QED BY <3>1, <4>1 DEF UpdatePlan, Selecting
        <3>2. CASE UpdateCommit
            <4>1. tool'.stage = "committed" BY <1>2, <3>2 DEF UpdateCommit
            <4> QED BY <4>1
        <3>3. CASE tool.stage = "planned" /\ tool' = [tool EXCEPT !.stage = "archived"]
            <4>1. tool'.queries = tool.queries BY <1>2, <3>3
            <4> QED BY <2>1, <3>3, <4>1
        <3>4. CASE tool' = NoRun BY <3>4 DEF NoRun
        <3>5. CASE tool'.stage = tool.stage /\ tool'.queries = tool.queries BY <2>1, <3>5
        <3> QED BY <1>0, <3>1, <3>2, <3>3, <3>4, <3>5, ToolMoves
    <2> QED BY <2>3, <2>4, <2>5, <2>6
\* A calm run ends with the key deleted.
<1>9. ASSUME ~clean, clean'
      PROVE  /\ Silenced' /\ symbol \notin batch' /\ ~redis'.live
             /\ tool'.stage \in {"planned", "archived"} => tool'.queries = {}
    <2>1. UpdateDeleteKeys /\ tool.calm BY <1>9, CleanMoves
    <2>2. tool.stage = "committed" /\ UNCHANGED <<rows, batch>> /\ tool' = NoRun
        BY <2>1 DEF UpdateDeleteKeys
    <2>3. Silenced /\ symbol \notin batch BY <2>1, <2>2 DEF SilenceInv
    <2>4. symbol \in Gone \ tool.plan.add
        <3>1. symbol \in DOMAIN changes BY DEF Gone, retired
        <3> QED BY <1>0, <2>2, <3>1 DEF PlanStands
    <2>5. ~redis'.live BY <1>0, <2>1, <2>4 DEF UpdateDeleteKeys, Typed, TypeOK
    <2>6. tool'.stage = "idle" BY <2>2 DEF NoRun
    <2> QED BY <1>4, <2>2, <2>3, <2>5, <2>6
<1> QED BY <1>6, <1>7, <1>8, <1>9

\* Once a run has met no job that had loaded a symbol it retires, the symbol is silent
\* for good, whatever jobs and runs follow and wherever they are interrupted.
THEOREM SilentForGood == Spec => []RetiredStaySilent
<1>1. SilenceInv => RetiredStaySilent
    BY DEF SilenceInv, Silenced, RetiredStaySilent, Cleanup
<1>2. Init => SilenceInv /\ UniverseInv
    <2>1. Init => SilenceInv BY DEF Init, NoRun, SilenceInv
    <2> QED BY <2>1, InitUniverse
<1>3. SilenceInv /\ UniverseInv /\ [Next]_vars => (SilenceInv /\ UniverseInv)'
    BY StepUniverse, StepSilence
<1> QED BY <1>1, <1>2, <1>3, PTL DEF Spec

-----------------------------------------------------------------------------
(* The statistics of the universe.                                         *)

\* What an integer division leaves out is less than the divisor.
LEMMA DivisionRest ==
    ASSUME NEW a \in Nat, NEW d \in Nat \ {0}
    PROVE  a \div d \in Nat /\ a % d \in Nat /\ a % d < d /\ a = d * (a \div d) + (a % d)
OBVIOUS

\* A quotient rounded to tenths of a percent is off by half a tenth at most.
LEMMA TenthsNear ==
    ASSUME NEW a \in Nat, NEW d \in Nat \ {0}
    PROVE  /\ tenths(a, d) \in Nat
           /\ 2 * (d * tenths(a, d)) <= 2000 * a + d
           /\ 2000 * a <= 2 * (d * tenths(a, d)) + d
<1> DEFINE q == (1000 * a) \div d
           r == (1000 * a) % d
           t == tenths(a, d)
<1>1. q \in Nat /\ r \in Nat /\ r < d /\ 1000 * a = d * q + r
    BY DivisionRest
<1>2. \/ t = q /\ 2 * r <= d
      \/ t = q + 1 /\ d <= 2 * r
    BY <1>1 DEF tenths
<1> HIDE DEF q, r, t
<1>3. CASE t = q /\ 2 * r <= d
    <2>1. d * t = d * q /\ d * q \in Nat BY <1>1, <1>3
    <2>2. t \in Nat /\ 2 * (d * t) <= 2000 * a + d /\ 2000 * a <= 2 * (d * t) + d
        BY <1>1, <1>3, <2>1
    <2> QED BY <2>2 DEF t
<1>4. CASE t = q + 1 /\ d <= 2 * r
    <2>1. d * t = d * q + d /\ d * q \in Nat BY <1>1, <1>4
    <2>2. t \in Nat /\ 2 * (d * t) <= 2000 * a + d /\ 2000 * a <= 2 * (d * t) + d
        BY <1>1, <1>4, <2>1
    <2> QED BY <2>2 DEF t
<1> QED BY <1>2, <1>3, <1>4

\* Numbers are ordered as their multiples.
LEMMA MultiplesOrder ==
    ASSUME NEW d \in Nat \ {0}, NEW p \in Nat, NEW q \in Nat, d * p < d * q + d
    PROVE  p <= q
<1>1. ASSUME q + 1 <= p PROVE FALSE
    <2>1. PICK k \in Nat : p = q + 1 + k BY <1>1
    <2>2. d * p = d * q + d + d * k BY <2>1
    <2>3. d * k >= 0 OBVIOUS
    <2> QED BY <2>2, <2>3
<1> QED BY <1>1

\* A share is at most 100 %.
LEMMA TenthsBounds ==
    ASSUME NEW d \in Nat \ {0}, NEW b \in 0 .. d
    PROVE  tenths(b, d) \in Nat /\ tenths(b, d) <= 1000
<1> DEFINE p == tenths(b, d)
<1>1. p \in Nat /\ 2 * (d * p) <= 2000 * b + d BY TenthsNear
<1> HIDE DEF p
<1>2. d * p < d * 1000 + d
    <2>1. d * p \in Int BY <1>1
    <2> QED BY <2>1, <1>1
<1>3. p <= 1000 BY <1>1, <1>2, MultiplesOrder
<1> QED BY <1>1, <1>3 DEF p

\* A larger part is no lower share; and a higher one of less than 1000, where one more is
\* more than a tenth of a percent.
LEMMA TenthsOrder ==
    ASSUME NEW d \in Nat \ {0}, NEW b \in Nat, NEW c \in Nat, b < c
    PROVE  /\ tenths(b, d) <= tenths(c, d)
           /\ d < 1000 => tenths(b, d) < tenths(c, d)
<1> DEFINE p == tenths(b, d)
           q == tenths(c, d)
<1>1. /\ p \in Nat /\ 2 * (d * p) <= 2000 * b + d
      /\ q \in Nat /\ 2000 * c <= 2 * (d * q) + d
    <2>1. p \in Nat /\ 2 * (d * p) <= 2000 * b + d BY TenthsNear
    <2>2. q \in Nat /\ 2000 * c <= 2 * (d * q) + d BY TenthsNear
    <2> QED BY <2>1, <2>2
<1> HIDE DEF p, q
<1>2. d * p \in Int /\ d * q \in Int /\ d * (p + 1) = d * p + d BY <1>1
<1>3. p <= q
    <2>1. d * p < d * q + d BY <1>1, <1>2
    <2> QED BY <1>1, <2>1, MultiplesOrder
<1>4. ASSUME d < 1000 PROVE p < q
    <2>1. d * (p + 1) < d * q + d BY <1>1, <1>2, <1>4
    <2>2. p + 1 <= q BY <1>1, <2>1, MultiplesOrder
    <2> QED BY <1>1, <2>2
<1> QED BY <1>3, <1>4 DEF p, q

\* The percentile of a ticker that ranks above b of the other n - 1.
Percentile(b, n) == IF n = 1 THEN 500 ELSE tenths(b, n - 1)

\* Percentiles are ordered as ranks.
LEMMA PercentileOrder ==
    ASSUME NEW n \in Nat \ {0}, NEW b \in 0 .. n - 1, NEW c \in 0 .. n - 1
    PROVE  /\ Percentile(b, n) \in Nat /\ Percentile(b, n) <= 1000
           /\ b < c => Percentile(b, n) <= Percentile(c, n)
           /\ n <= 1000 => (b < c <=> Percentile(b, n) < Percentile(c, n))
<1>1. CASE n = 1
    BY <1>1 DEF Percentile
<1>2. CASE n # 1
    <2> DEFINE d == n - 1
    <2>1. d \in Nat \ {0} /\ b \in 0 .. d /\ c \in 0 .. d /\ b \in Nat /\ c \in Nat
          /\ (n <= 1000 => d < 1000)
        BY <1>2
    <2>2. Percentile(b, n) = tenths(b, d) /\ Percentile(c, n) = tenths(c, d) BY <1>2 DEF Percentile
    <2> HIDE DEF d
    <2>3. tenths(b, d) \in Nat /\ tenths(b, d) <= 1000 /\ tenths(c, d) \in Nat BY <2>1, TenthsBounds
    <2>4. b < c => /\ tenths(b, d) <= tenths(c, d)
                   /\ d < 1000 => tenths(b, d) < tenths(c, d)
        BY <2>1, TenthsOrder
    <2>5. c < b => (d < 1000 => tenths(c, d) < tenths(b, d))
        BY <2>1, TenthsOrder
    <2>6. b < c \/ b = c \/ c < b BY <2>1
    <2> QED BY <2>1, <2>2, <2>3, <2>4, <2>5, <2>6
<1> QED BY <1>1, <1>2

\* Scores are ordered as the numbers of tickers below them.
LEMMA LowerRank ==
    ASSUME NEW board, IsFiniteSet(DOMAIN board), \A t \in DOMAIN board : board[t] \in Int,
           NEW s \in DOMAIN board, NEW t \in DOMAIN board
    PROVE  LET n == Cardinality(DOMAIN board)
               b == Cardinality(Lower(board, s))
               c == Cardinality(Lower(board, t))
           IN  /\ n \in Nat \ {0} /\ b \in 0 .. n - 1 /\ c \in 0 .. n - 1
               /\ board[s] < board[t] <=> b < c
<1> DEFINE D == DOMAIN board
<1>1. \A u \in D : Lower(board, u) \subseteq D \ {u} BY DEF Lower
<1>2. Cardinality(D) \in Nat /\ Cardinality(D) # 0 BY FS_CardinalityType, FS_EmptySet
<1>3. \A u \in D : /\ IsFiniteSet(Lower(board, u))
                   /\ Cardinality(Lower(board, u)) \in 0 .. Cardinality(D) - 1
    <2> TAKE u \in D
    <2>1. IsFiniteSet(D \ {u}) /\ Cardinality(D \ {u}) = Cardinality(D) - 1 BY FS_RemoveElement
    <2>2. IsFiniteSet(Lower(board, u)) /\ Cardinality(Lower(board, u)) <= Cardinality(D \ {u})
        BY <1>1, <2>1, FS_Subset
    <2>3. Cardinality(Lower(board, u)) \in Nat BY <2>2, FS_CardinalityType
    <2> QED BY <1>2, <2>1, <2>2, <2>3
<1>4. ASSUME NEW u \in D, NEW v \in D, board[u] < board[v]
      PROVE  Cardinality(Lower(board, u)) < Cardinality(Lower(board, v))
    <2>1. Lower(board, u) \subseteq Lower(board, v) BY <1>4 DEF Lower
    <2>2. u \in Lower(board, v) /\ u \notin Lower(board, u) BY <1>4 DEF Lower
    <2> QED BY <1>3, <2>1, <2>2, FS_Subset
<1>5. ASSUME NEW u \in D, NEW v \in D, board[u] = board[v]
      PROVE  Lower(board, u) = Lower(board, v)
    BY <1>5 DEF Lower
<1>6. board[s] < board[t] \/ board[s] = board[t] \/ board[t] < board[s] OBVIOUS
<1> QED BY <1>2, <1>3, <1>4, <1>5, <1>6

\* compute_percentiles: a percentile is at most 100, is the same for the same score, and
\* orders the tickers of a universe of any size as their scores do; strictly, while a
\* tenth of a percent tells one rank from the next.
THEOREM PercentilesRank ==
    ASSUME NEW board, IsFiniteSet(DOMAIN board), \A t \in DOMAIN board : board[t] \in Int,
           NEW s \in DOMAIN board, NEW t \in DOMAIN board
    PROVE  LET pctl == compute_percentiles(board)
           IN  /\ pctl[s] \in Nat /\ pctl[s] <= 1000
               /\ board[s] = board[t] => pctl[s] = pctl[t]
               /\ board[s] < board[t] => pctl[s] <= pctl[t]
               /\ Cardinality(DOMAIN board) <= 1000 =>
                     (board[s] < board[t] <=> pctl[s] < pctl[t])
<1> DEFINE n == Cardinality(DOMAIN board)
           Rank(u) == Cardinality(Lower(board, u))
           P(u) == compute_percentiles(board)[u]
<1>1. /\ n \in Nat \ {0} /\ Rank(s) \in 0 .. n - 1 /\ Rank(t) \in 0 .. n - 1
      /\ board[s] < board[t] <=> Rank(s) < Rank(t)
    BY LowerRank
<1>2. P(s) = Percentile(Rank(s), n) /\ P(t) = Percentile(Rank(t), n)
    BY DEF compute_percentiles, Percentile
<1>3. board[s] = board[t] => Rank(s) = Rank(t)
    <2>1. board[s] = board[t] => Lower(board, s) = Lower(board, t) BY DEF Lower
    <2> QED BY <2>1
<1> HIDE DEF Rank, n, P
<1>4. /\ P(s) \in Nat /\ P(s) <= 1000
      /\ Rank(s) < Rank(t) => P(s) <= P(t)
      /\ n <= 1000 => (Rank(s) < Rank(t) <=> P(s) < P(t))
    BY <1>1, <1>2, PercentileOrder
<1>5. board[s] = board[t] => P(s) = P(t) BY <1>2, <1>3
<1> QED BY <1>1, <1>4, <1>5 DEF n, P

\* The statistics of the universe rank the tickers as their scores do, in the universe
\* and in a sector that has ranks, whatever the scores, the sectors and the smallest
\* sector that is ranked (compute_cross_sectional).
THEOREM RanksAgree ==
    ASSUME NEW raw, IsFiniteSet(DOMAIN raw), Cardinality(DOMAIN raw) <= 1000,
           \A t \in DOMAIN raw : raw[t] \in Int,
           NEW sector_map, NEW exo
    PROVE  RanksOrder(raw, sector_map, exo)
<1> DEFINE stats == compute_cross_sectional(raw, sector_map, exo)
<1> SUFFICES ASSUME NEW s \in DOMAIN raw, NEW t \in DOMAIN raw
             PROVE  /\ stats[s].raw_pctl \in Nat /\ stats[s].raw_pctl <= 1000
                    /\ raw[s] < raw[t] <=> stats[s].raw_pctl < stats[t].raw_pctl
                    /\ (/\ s \in DOMAIN sector_map /\ t \in DOMAIN sector_map
                        /\ sector_map[s] = sector_map[t]
                        /\ stats[s].sector_pctl # Missing)
                       => /\ stats[s].sector_pctl \in Nat /\ stats[s].sector_pctl <= 1000
                          /\ raw[s] < raw[t] <=> stats[s].sector_pctl < stats[t].sector_pctl
    BY DEF RanksOrder
<1> DEFINE Pctl(u) == compute_percentiles(raw)[u]
           Rank(u) == sector_pctl(raw, sector_map, u)
<1>1. /\ Pctl(s) \in Nat /\ Pctl(s) <= 1000
      /\ raw[s] < raw[t] <=> Pctl(s) < Pctl(t)
    BY PercentilesRank
<1>2. ASSUME s \in DOMAIN sector_map, t \in DOMAIN sector_map, sector_map[s] = sector_map[t],
             Rank(s) # Missing
      PROVE  /\ Rank(s) \in Nat /\ Rank(s) <= 1000
             /\ raw[s] < raw[t] <=> Rank(s) < Rank(t)
    <2> DEFINE members == InSector(raw, sector_map, sector_map[s])
               peers == On(raw, members)
    <2>1. members \subseteq DOMAIN raw /\ s \in members /\ t \in members
        BY <1>2 DEF InSector
    <2>2. ~(Cardinality(members) < MIN_SECTOR_SIZE)
        BY <1>2 DEF sector_pctl
    <2>3. Rank(s) = compute_percentiles(peers)[s] /\ Rank(t) = compute_percentiles(peers)[t]
        BY <1>2, <2>2 DEF sector_pctl
    <2> HIDE DEF members, Rank
    <2>4. DOMAIN peers = members /\ \A u \in members : peers[u] = raw[u] BY DEF On
    <2> HIDE DEF peers
    <2>5. IsFiniteSet(members) /\ Cardinality(members) <= Cardinality(DOMAIN raw)
        BY <2>1, FS_Subset
    <2>6. Cardinality(members) \in Nat /\ Cardinality(DOMAIN raw) \in Nat
        BY <2>5, FS_CardinalityType
    <2>7. Cardinality(DOMAIN peers) <= 1000 BY <2>4, <2>5, <2>6
    <2>8. IsFiniteSet(DOMAIN peers) /\ \A u \in DOMAIN peers : peers[u] \in Int
        BY <2>1, <2>4, <2>5
    <2>9. /\ compute_percentiles(peers)[s] \in Nat /\ compute_percentiles(peers)[s] <= 1000
          /\ peers[s] < peers[t] <=> compute_percentiles(peers)[s] < compute_percentiles(peers)[t]
        <3>1. s \in DOMAIN peers /\ t \in DOMAIN peers BY <2>1, <2>4
        <3> QED BY <2>7, <2>8, <3>1, PercentilesRank
    <2> QED BY <2>1, <2>3, <2>4, <2>9, Zenon
<1>3. \A u \in DOMAIN raw :
         /\ compute_cross_sectional(raw, sector_map, exo)[u].raw_pctl = Pctl(u)
         /\ compute_cross_sectional(raw, sector_map, exo)[u].sector_pctl = Rank(u)
    BY DEF compute_cross_sectional
<1>4. /\ compute_cross_sectional(raw, sector_map, exo)[s].raw_pctl = Pctl(s)
      /\ compute_cross_sectional(raw, sector_map, exo)[t].raw_pctl = Pctl(t)
      /\ compute_cross_sectional(raw, sector_map, exo)[s].sector_pctl = Rank(s)
      /\ compute_cross_sectional(raw, sector_map, exo)[t].sector_pctl = Rank(t)
    BY <1>3, Zenon
<1> HIDE DEF Pctl, Rank
<1> QED BY <1>1, <1>2, <1>4

-----------------------------------------------------------------------------
(* The forms of a score.                                                   *)

\* Rounding moves a score by half a point at most.
LEMMA RoundingIsNear ==
    ASSUME NEW h \in Int
    PROVE  int_round(h) \in Int /\ 2 * int_round(h) - h \in -1 .. 1
BY DEF int_round

\* The row of a computation has its two scores.
LEMMA RowOfState ==
    ASSUME NEW c, NEW baseline, c.effective # 0
    PROVE  history_row_from_state(ScoredState(c, baseline)) =
               {[composite_score |-> c.effective, composite_score_smoothed |-> {c.smoothed},
                 composite_score_exo |-> c.exo, ema_obs_count |-> c.ema_obs_count,
                 index |-> c.sub_indices, confidence_score |-> c.confidence,
                 confidence_flags |-> c.flags, top_drivers |-> Verbose(c.drivers),
                 divergence |-> c.divergence, as_of |-> c.as_of, timestamp |-> c.timestamp]}
BY DEF history_row_from_state, ScoredState, either, None

\* The score shown of a state that has one.
LEMMA ScoreOf ==
    ASSUME NEW x, NEW v, x.composite_score = {v}
    PROVE  _composite_score(x) = int_round(v)
<1>1. given(x.composite_score, {0}) = {v} BY DEF given, None
<1>2. (CHOOSE s \in {v} : TRUE) = v OBVIOUS
<1> QED BY <1>1, <1>2 DEF _composite_score

\* The raw score shown of a state that has one.
LEMMA RawOf ==
    ASSUME NEW x, NEW v, x.composite_score_raw = {v}
    PROVE  score_raw(x) = {int_round(v)}
BY DEF score_raw

\* A score is the same in every form that a client meets it in, whatever a tick computed
\* and whatever the score of the day before: from Redis, from the row it left, from the
\* compacted row and in the history (FormsAgree).
THEOREM SameInEveryForm ==
    ASSUME NEW c, NEW baseline
    PROVE  FormsAgree(c, baseline)
<1> DEFINE e == c.effective
           state == ScoredState(c, baseline)
           raw == {int_round(e)}
           lost == {"score_change_1d", "score_change_1d_pct"}
           Free(x) == _build_free(x)
           Pro(x) == _build_pro(x, 1, 2)
           FreeOf(change, percent) ==
              [score |-> int_round(c.smoothed), score_raw |-> raw,
               score_change_1d |-> change, score_change_1d_pct |-> percent,
               label |-> score_to_label(int_round(c.smoothed)),
               confidence |-> c.confidence, timestamp |-> c.timestamp]
           ProOf(change, percent, text, drivers) ==
              [score |-> int_round(c.smoothed), score_raw |-> raw,
               score_change_1d |-> change, score_change_1d_pct |-> percent,
               label |-> score_to_label(int_round(c.smoothed)),
               confidence |-> c.confidence, timestamp |-> c.timestamp,
               universe_percentile |-> 1, xs |-> 2,
               score_exo |-> c.exo, ema_obs_count |-> c.ema_obs_count,
               sub_indices |-> c.sub_indices, missing_layers |-> missing_layers(c.sub_indices),
               divergence |-> c.divergence, explanation |-> text, top_drivers |-> drivers,
               freshness |-> c.as_of, confidence_flags |-> c.flags]
<1> SUFFICES ASSUME c.effective # 0 PROVE FormsAgree(c, baseline)
    BY DEF FormsAgree
<1>1. PICK row \in history_row_from_state(state) :
         row = [composite_score |-> e, composite_score_smoothed |-> {c.smoothed},
                composite_score_exo |-> c.exo, ema_obs_count |-> c.ema_obs_count,
                index |-> c.sub_indices, confidence_score |-> c.confidence,
                confidence_flags |-> c.flags, top_drivers |-> Verbose(c.drivers),
                divergence |-> c.divergence, as_of |-> c.as_of, timestamp |-> c.timestamp]
    BY RowOfState
<1>2. ~is_compact(Verbose(c.drivers)) /\ Verbose(c.drivers).list = c.drivers
    BY DEF is_compact, Verbose
<1>3. /\ Free(state) = FreeOf(state.score_change_1d, state.score_change_1d_pct)
      /\ Pro(state) = ProOf(state.score_change_1d, state.score_change_1d_pct, state.explanation, c.drivers)
    <2>1. /\ state.composite_score = {c.smoothed} /\ state.composite_score_raw = {e}
          /\ state.confidence.score = c.confidence /\ state.confidence.flags = c.flags
          /\ state.timestamp = c.timestamp /\ state.score_exo = c.exo
          /\ state.ema_obs_count = c.ema_obs_count /\ state.sub_indices = c.sub_indices
          /\ state.divergence = c.divergence /\ state.freshness = c.as_of
          /\ state.top_drivers = Verbose(c.drivers)
        BY DEF ScoredState
    <2> HIDE DEF state, e
    <2>2. _composite_score(state) = int_round(c.smoothed) /\ score_raw(state) = raw
        BY <2>1, ScoreOf, RawOf
    <2>3. Free(state) = FreeOf(state.score_change_1d, state.score_change_1d_pct)
        BY <2>1, <2>2 DEF _build_free
    <2>4. Pro(state) = ProOf(state.score_change_1d, state.score_change_1d_pct, state.explanation, c.drivers)
        BY <1>2, <2>1, <2>2 DEF _build_pro
    <2> QED BY <2>3, <2>4
<1>4. Free(state).score_change_1d = Pro(state).score_change_1d
    BY DEF _build_free, _build_pro
<1> HIDE DEF state, raw
<1>5. /\ Free(_load_from_db(row)) = FreeOf(None, None)
      /\ Pro(_load_from_db(row)) = ProOf(None, None, None, c.drivers)
      /\ Pro(_load_from_db([row EXCEPT !.top_drivers = compact_drivers(@)]))
             = ProOf(None, None, None, <<>>)
      /\ \A f \in DOMAIN HistoryEntry(row) :
             HistoryEntry(row)[f] = ProOf(None, None, None, c.drivers)[f]
    <2> DEFINE RowWith(drivers) ==
                 [composite_score |-> e, composite_score_smoothed |-> {c.smoothed},
                  composite_score_exo |-> c.exo, ema_obs_count |-> c.ema_obs_count,
                  index |-> c.sub_indices, confidence_score |-> c.confidence,
                  confidence_flags |-> c.flags, top_drivers |-> drivers,
                  divergence |-> c.divergence, as_of |-> c.as_of, timestamp |-> c.timestamp]
    <2>1. row = RowWith(Verbose(c.drivers)) BY <1>1
    <2> HIDE DEF e
    <2>2. \A d : Shown(RowWith(d)) = {c.smoothed} BY DEF Shown, given, None
    <2>3. \A d : /\ _composite_score(_load_from_db(RowWith(d))) = int_round(c.smoothed)
                 /\ score_raw(_load_from_db(RowWith(d))) = raw
        <3> TAKE d
        <3>1. _load_from_db(RowWith(d)).composite_score = {c.smoothed}
            BY <2>2 DEF _load_from_db
        <3>2. _load_from_db(RowWith(d)).composite_score_raw = {e}
            BY DEF _load_from_db
        <3> HIDE DEF RowWith
        <3> QED BY <3>1, <3>2, ScoreOf, RawOf DEF raw
    <2>4. Free(_load_from_db(row)) = FreeOf(None, None)
        BY <2>1, <2>3 DEF _load_from_db, _build_free
    <2>5. \A d : Pro(_load_from_db(RowWith(d))) = ProOf(None, None, None, IF is_compact(d) THEN <<>> ELSE d.list)
        BY <2>3 DEF _load_from_db, _build_pro
    <2>6. Pro(_load_from_db(row)) = ProOf(None, None, None, c.drivers)
        BY <1>2, <2>1, <2>5
    <2>7. Pro(_load_from_db([row EXCEPT !.top_drivers = compact_drivers(@)])) = ProOf(None, None, None, <<>>)
        <3> DEFINE d == compact_drivers(Verbose(c.drivers))
        <3>1. [row EXCEPT !.top_drivers = compact_drivers(@)] = RowWith(d) BY <2>1
        <3>2. (IF is_compact(d) THEN <<>> ELSE d.list) = <<>>
            <4>1. CASE c.drivers = <<>> BY <4>1, <1>2 DEF compact_drivers
            <4>2. CASE c.drivers # <<>>
                <5>1. d.format = "compact" BY <4>2, <1>2 DEF compact_drivers
                <5> QED BY <5>1 DEF is_compact
            <4> QED BY <4>1, <4>2
        <3> HIDE DEF d, RowWith
        <3> QED BY <3>1, <3>2, <2>5
    <2>8. \A f \in DOMAIN HistoryEntry(row) : HistoryEntry(row)[f] = ProOf(None, None, None, c.drivers)[f]
        <3>1. (CHOOSE s \in Shown(row) : TRUE) = c.smoothed BY <2>1, <2>2
        <3>2. HistoryEntry(row) =
                [timestamp |-> c.timestamp, score |-> int_round(c.smoothed), score_raw |-> raw,
                 score_exo |-> c.exo, label |-> score_to_label(int_round(c.smoothed)),
                 confidence |-> c.confidence, sub_indices |-> c.sub_indices,
                 missing_layers |-> missing_layers(c.sub_indices)]
            BY <2>1, <3>1 DEF HistoryEntry, raw
        <3> QED BY <3>2
    <2> QED BY <2>4, <2>6, <2>7, <2>8
<1>6. \A a, b : Retells(FreeOf(None, None), FreeOf(a, b), lost)
    BY DEF Retells
<1>7. \A a, b, x, d : Retells(ProOf(None, None, None, d), ProOf(a, b, x, d), lost \cup {"explanation"})
    BY DEF Retells
<1>8. \A d : ProOf(None, None, None, <<>>) = [ProOf(None, None, None, d) EXCEPT !.top_drivers = <<>>]
    OBVIOUS
<1> HIDE DEF FreeOf, ProOf
<1>9. /\ Retells(Free(_load_from_db(row)), Free(state), lost)
      /\ Retells(Pro(_load_from_db(row)), Pro(state), lost \cup {"explanation"})
      /\ Pro(_load_from_db([row EXCEPT !.top_drivers = compact_drivers(@)]))
            = [Pro(_load_from_db(row)) EXCEPT !.top_drivers = <<>>]
      /\ \A f \in DOMAIN HistoryEntry(row) : HistoryEntry(row)[f] = Pro(_load_from_db(row))[f]
    BY <1>3, <1>5, <1>6, <1>7, <1>8
<1> QED BY <1>4, <1>9 DEF FormsAgree, state

\* Rows of a table, of a tick or from before the scores were smoothed.
AreRows(stored) ==
    /\ IsFiniteSet(stored)
    /\ \A r \in stored : /\ r.timestamp \in Nat /\ r.composite_score \in Int
                        /\ \/ r.composite_score_smoothed = None
                           \/ \E s \in Int : r.composite_score_smoothed = {s}

\* A row shows one score.
LEMMA OneShown ==
    ASSUME NEW stored, AreRows(stored), NEW r \in stored
    PROVE  \E b \in Int : Shown(r) = {b}
<1>1. CASE r.composite_score_smoothed = None
    <2>1. Shown(r) = {r.composite_score} BY <1>1 DEF Shown, given
    <2> QED BY <2>1 DEF AreRows
<1>2. CASE r.composite_score_smoothed # None
    <2>1. PICK s \in Int : r.composite_score_smoothed = {s} BY <1>2 DEF AreRows
    <2>2. Shown(r) = {s} BY <2>1 DEF Shown, given, None
    <2> QED BY <2>2
<1> QED BY <1>1, <1>2

\* The change of a day is that between the scores shown then and now, up to the rounding
\* of both, for any table of rows, any start of the tick and any length of a day
\* (ChangeIsShown).
THEOREM ChangesAreShown ==
    ASSUME NEW c, c.timestamp \in Nat, c.smoothed \in Int,
           NEW stored, AreRows(stored), NEW day \in Nat,
           NEW asked \in Nat, asked <= c.timestamp, NEW query,
           NEW baseline \in Baselines(stored, asked, query, day)
    PROVE  ChangeIsShown(c, stored, asked, query, baseline, day)
<1> DEFINE Age(r) == asked - r.timestamp
           late == c.timestamp - asked
           aged == {r \in stored : Age(r) >= day /\ Age(r) <= 2 * day}
           newest == {x \in aged : \A y \in aged : y.timestamp <= x.timestamp}
           found == get_baseline_scores(stored, asked, day)
           state == ScoredState(c, baseline)
<1>1. \A r \in stored : r.timestamp \in Nat /\ Age(r) \in Int BY DEF AreRows
<1>2. found = {Shown(r) : r \in newest}
    BY DEF get_baseline_scores
<1>3. state.score_change_1d = {c.smoothed - b : b \in baseline}
    BY DEF ScoredState
<1>4. _build_free(state).score = int_round(c.smoothed)
    <2>1. state.composite_score = {c.smoothed} BY DEF ScoredState
    <2>2. _composite_score(state) = int_round(c.smoothed) BY <2>1, ScoreOf
    <2> QED BY <2>2 DEF _build_free
<1>5. ASSUME aged # {} PROVE newest # {}
    <2> DEFINE T == {r.timestamp : r \in aged}
    <2>1. IsFiniteSet(aged) BY FS_Subset DEF AreRows
    <2>2. IsFiniteSet(T)
        <3> DEFINE f == [r \in aged |-> r.timestamp]
        <3>1. f \in Surjection(aged, T) BY DEF Surjection
        <3> QED BY <2>1, <3>1, FS_Surjection
    <2>3. T \in SUBSET Nat /\ T # {} BY <1>1, <1>5
    <2>4. Latest(T) \in T /\ \A b \in T : b <= Latest(T)
        <3> HIDE DEF T
        <3> QED BY <2>2, <2>3, LatestOf
    <2>5. PICK r \in aged : r.timestamp = Latest(T) BY <2>4
    <2>6. \A y \in aged : y.timestamp <= r.timestamp BY <2>4, <2>5
    <2> QED BY <2>6
<1>6. baseline = None \/ baseline \in found BY DEF Baselines
<1>7. baseline = None => query = "failed" \/ found = {}
    <2>1. SUFFICES ASSUME baseline = None, baseline \in found PROVE FALSE BY DEF Baselines
    <2>2. PICK r \in newest : baseline = Shown(r) BY <1>2, <2>1
    <2>3. \E b \in Int : Shown(r) = {b} BY <2>2, OneShown
    <2> QED BY <2>1, <2>2, <2>3 DEF None
<1> HIDE DEF found, state
<1>8. ASSUME NEW change \in state.score_change_1d
      PROVE  \E r \in stored :
                /\ c.timestamp - r.timestamp \in day .. 2 * day + late
                /\ \A x \in stored : Age(x) < Age(r) => Age(x) < day
                /\ change - 2 * (_build_free(state).score - int_round(CHOOSE b \in Shown(r) : TRUE))
                      \in -2 .. 2
    <2>1. PICK b \in baseline : change = c.smoothed - b BY <1>3
    <2>2. PICK r \in newest : b \in Shown(r) BY <1>2, <1>6, <2>1 DEF None
    <2>3. r \in stored /\ Age(r) \in day .. 2 * day BY <1>1, <2>2
    <2>3a. c.timestamp - r.timestamp \in day .. 2 * day + late BY <1>1, <2>3
    <2>4. ASSUME NEW x \in stored, Age(x) < Age(r) PROVE Age(x) < day
        <3>1. ~(x.timestamp <= r.timestamp) BY <1>1, <2>3, <2>4
        <3>2. x \notin aged BY <2>2, <3>1
        <3> QED BY <1>1, <2>3, <2>4, <3>2
    <2>5. PICK v \in Int : Shown(r) = {v} BY <2>3, OneShown
    <2>6. b = v /\ (CHOOSE u \in Shown(r) : TRUE) = v BY <2>2, <2>5
    <2>7. /\ int_round(c.smoothed) \in Int /\ 2 * int_round(c.smoothed) - c.smoothed \in -1 .. 1
          /\ int_round(v) \in Int /\ 2 * int_round(v) - v \in -1 .. 1
        BY RoundingIsNear
    <2>8. (c.smoothed - v) - 2 * (int_round(c.smoothed) - int_round(v)) \in -2 .. 2
        BY <2>7
    <2> HIDE DEF Age, newest, late
    <2> QED BY <1>4, <2>1, <2>3, <2>3a, <2>4, <2>6, <2>8
<1>9. ASSUME state.score_change_1d = None, query # "failed", NEW r \in stored
      PROVE  Age(r) \notin day .. 2 * day
    <2>1. baseline = None
        <3>1. ASSUME NEW b \in baseline PROVE c.smoothed - b \in state.score_change_1d BY <1>3
        <3> QED BY <1>9, <3>1 DEF None
    <2>2. newest = {} BY <1>2, <1>7, <1>9, <2>1
    <2>3. aged = {} BY <1>5, <2>2
    <2> QED BY <1>1, <2>3
<1> QED BY <1>8, <1>9 DEF ChangeIsShown, state

\* What AnswersAgree says of a score, for any computation, any rows of the table and any
\* start of the tick: the forms of a score agree, and a change is that between what was
\* shown.
THEOREM AnswersAlwaysAgree ==
    ASSUME input.computed.timestamp \in Nat, input.computed.smoothed \in Int,
           AreRows(input.earlier), input.asked \in Nat, input.asked <= input.computed.timestamp
    PROVE  AnswersAgree
<1> DEFINE c == input.computed
           stored == input.earlier
           asked == input.asked
           query == input.query
<1> SUFFICES ASSUME NEW baseline \in Baselines(stored, asked, query, 2)
             PROVE  FormsAgree(c, baseline) /\ ChangeIsShown(c, stored, asked, query, baseline, 2)
    BY DEF AnswersAgree
<1>1. FormsAgree(c, baseline) BY SameInEveryForm
<1>2. ChangeIsShown(c, stored, asked, query, baseline, 2)
    <2>1. /\ c.timestamp \in Nat /\ c.smoothed \in Int /\ AreRows(stored)
          /\ asked \in Nat /\ asked <= c.timestamp
        OBVIOUS
    <2> HIDE DEF c, stored, asked, query
    <2> QED BY <2>1, ChangesAreShown
<1> QED BY <1>1, <1>2
=============================================================================
