------------------------ MODULE ReplayScores_proofs ------------------------
(***************************************************************************)
(* Proofs about ReplayScores for any universe, gap and number of runs:     *)
(* completed rows are never written again, every row continues a stored    *)
(* one, and a run without failures fills the gap.  The invariant accounts  *)
(* for every stored row while a run is active: it was there when the run   *)
(* started, or its tick is behind the run, or its worker has just ended.   *)
(* About OfflineTools: nothing that the two tools overwrite is lost, or    *)
(* rebuilt from what was rebuilt.                                          *)
(***************************************************************************)
EXTENDS ReplayScores, OfflineTools, Sequences, Integers, FiniteSetTheorems, TLAPS

---------------------------------------------------------------------------
(* The helpers.                                                            *)

\* A function on a finite set has a greatest value: what lies above a member shrinks as
\* the value grows, and proper inclusion is well-founded on the subsets of a finite set.
LEMMA GreatestOf ==
    ASSUME NEW S, IsFiniteSet(S), S # {}, NEW f \in [S -> Int]
    PROVE  \E a \in S : \A b \in S : f[b] <= f[a]
<1> DEFINE Above(a) == {b \in S : f[a] < f[b]}
           T == {Above(a) : a \in S}
<1>1. T \subseteq SUBSET S /\ \E x : x \in T
    <2>1. PICK a \in S : TRUE OBVIOUS
    <2> QED BY <2>1
<1> HIDE DEF T
<1>2. PICK x \in T : \A y \in T : ~ (<<y, x>> \in StrictSubsetOrdering(S))
    <2>1. IsWellFoundedOn(StrictSubsetOrdering(S), SUBSET S)
        BY FS_StrictSubsetOrderingWellFounded, FS_FiniteSubsetsOfFinite
    <2>2. T \subseteq SUBSET S /\ T # {} BY <1>1
    <2> QED BY <2>1, <2>2, WFMin
<1>3. PICK a \in S : x = Above(a) BY DEF T
<1>4. ASSUME NEW b \in S, f[a] < f[b] PROVE FALSE
    <2>1. Above(b) \in T BY DEF T
    <2>2. Above(b) \subseteq Above(a) /\ b \in Above(a) /\ b \notin Above(b) BY <1>4
    <2> QED BY <1>1, <1>2, <1>3, <2>1, <2>2 DEF StrictSubsetOrdering
<1> QED BY <1>4

\* The first element of a nonempty set of ticks is its least.
LEMMA FirstIsLeast ==
    ASSUME NEW S \in SUBSET Ticks, S # {}
    PROVE  First(S) \in S /\ \A j \in S : First(S) <= j
<1>1. IsFiniteSet(S) /\ S \subseteq Int
    <2>1. S \in SUBSET Nat /\ \A i \in S : i <= LastTick BY ReplayAssumption DEF Ticks
    <2> QED BY <2>1, ReplayAssumption, FS_BoundedSetOfNaturals
<1> DEFINE negated == [i \in S |-> 0 - i]
<1>2. \E i \in S : \A j \in S : i <= j
    <2>1. negated \in [S -> Int] /\ \A i \in S : i \in Int /\ negated[i] = 0 - i BY <1>1
    <2> HIDE DEF negated
    <2>2. \E i \in S : \A j \in S : negated[j] <= negated[i] BY <1>1, <2>1, GreatestOf
    <2> QED BY <2>1, <2>2
<1> QED BY <1>2 DEF First

\* The latest element of a nonempty set of row times is its greatest.
LEMMA LatestIsGreatest ==
    ASSUME NEW S \in SUBSET (0 .. After), S # {}
    PROVE  Latest(S) \in S /\ \A j \in S : j <= Latest(S)
<1>1. IsFiniteSet(S) /\ S \subseteq Int
    <2>1. After \in Nat BY ReplayAssumption DEF After
    <2>2. S \in SUBSET Nat /\ \A i \in S : i <= After BY <2>1
    <2> QED BY <2>1, <2>2, FS_BoundedSetOfNaturals
<1> DEFINE same == [i \in S |-> i]
<1>2. \E i \in S : \A j \in S : j <= i
    <2>1. same \in [S -> Int] /\ \A i \in S : same[i] = i BY <1>1
    <2> HIDE DEF same
    <2>2. \E i \in S : \A j \in S : same[j] <= same[i] BY <1>1, <2>1, GreatestOf
    <2> QED BY <2>1, <2>2
<1> QED BY <1>2 DEF Latest

\* What is stored of a ticker are ticks of the gap.
LEMMA StoredTicks ==
    ASSUME TypeOK, NEW t \in Tickers
    PROVE  /\ Stored(t) \subseteq Ticks
           /\ \A i : i \in Stored(t) <=> \E r \in rows : r.ticker = t /\ r.tick = i
BY DEF TypeOK, Stored, Row

\* A seed is a row of the ticker before the given tick, if there is any.
LEMMA SeedIsStored ==
    ASSUME TypeOK, NEW t \in Tickers, NEW i \in Ticks
    PROVE  /\ Seed(t, i) \in 0 .. After /\ Seed(t, i) < i
           /\ Seed(t, i) \in {Nothing} \cup History(t)
           /\ Seed(t, i) = Nothing => t \notin Seeded
<1> DEFINE S == {j \in History(t) : j < i}
<1>1. History(t) \subseteq 1 .. After
    BY StoredTicks, ReplayAssumption DEF History, Ticks, Before, After
<1>2. CASE S = {}
    <2>1. Seed(t, i) = Nothing BY <1>2 DEF Seed, Latest
    <2>2. t \notin Seeded BY <1>2, ReplayAssumption DEF History, Before, Ticks
    <2> QED BY <2>1, <2>2, ReplayAssumption DEF Nothing, Ticks, After
<1>3. CASE S # {}
    <2>1. S \subseteq 0 .. After BY <1>1, ReplayAssumption DEF After
    <2>2. Latest(S) \in S BY <1>3, <2>1, LatestIsGreatest
    <2>3. Seed(t, i) \in S BY <2>2 DEF Seed
    <2> QED BY <1>1, <2>3, ReplayAssumption DEF Nothing, After
<1> QED BY <1>2, <1>3

---------------------------------------------------------------------------
(* Types.                                                                  *)

\* The initial state satisfies the type invariant.
LEMMA InitTyped == Init => TypeOK
<1> SUFFICES ASSUME Init PROVE TypeOK
    OBVIOUS
<1>1. {t \in Tickers : phase[t] = "scoring"} = {} BY DEF Init
<1>2. Cardinality({t \in Tickers : phase[t] = "scoring"}) <= Concurrency
    BY <1>1, FS_EmptySet, ReplayAssumption
<1> QED BY <1>2, ReplayAssumption DEF Init, TypeOK, Nothing, After

\* The row that a scoring worker writes is well typed.
LEMMA RowTyped ==
    ASSUME TypeOK, todo # {}, NEW t \in Tickers
    PROVE  RowOf(t) \in Row
<1>1. First(todo) \in Ticks BY FirstIsLeast DEF TypeOK
<1> QED BY <1>1 DEF TypeOK, RowOf, Row

\* Scoring workers never outnumber the permits if their set does not grow.
LEMMA PermitsKept ==
    ASSUME TypeOK, {t \in Tickers : phase'[t] = "scoring"} \subseteq
                   {t \in Tickers : phase[t] = "scoring"}
    PROVE  Cardinality({t \in Tickers : phase'[t] = "scoring"}) <= Concurrency
<1> DEFINE S == {t \in Tickers : phase[t] = "scoring"}
           N == {t \in Tickers : phase'[t] = "scoring"}
<1>1. IsFiniteSet(S) BY ReplayAssumption, FS_Subset
<1>2. Cardinality(N) <= Cardinality(S) BY <1>1, FS_Subset
<1>3. IsFiniteSet(N) BY <1>1, FS_Subset
<1>4. Cardinality(N) \in Nat /\ Cardinality(S) \in Nat
    BY <1>1, <1>3, FS_CardinalityType
<1>5. Cardinality(S) <= Concurrency BY DEF TypeOK
<1> QED BY <1>2, <1>4, <1>5, ReplayAssumption

\* Workers exist during a tick only, and one that is to score has not completed
\* the tick before.
Shape ==
    /\ stage # "tick" => \A t \in Tickers : phase[t] = "none"
    /\ stage = "tick" => todo # {}
    /\ \A t \in Tickers :
          phase[t] \in {"waiting", "scoring"} => t \in want /\ First(todo) \notin done[t]

\* Every step preserves the types and the shape.
LEMMA StepTyped == TypeOK /\ Shape /\ [Next]_vars => TypeOK' /\ Shape'
<1> SUFFICES ASSUME TypeOK, Shape, [Next]_vars PROVE TypeOK' /\ Shape'
    OBVIOUS
<1>1. ASSUME NEW W \in SUBSET Tickers \ {{}}, StartRun(W) PROVE TypeOK' /\ Shape'
    <2>1. Incomplete(W) \subseteq Ticks /\ Incomplete(W) # {}
        BY <1>1 DEF StartRun, Incomplete
    <2>2. First(Incomplete(W)) \in Ticks BY <2>1, FirstIsLeast
    <2>3. states' \in [Tickers -> 0 .. After]
        BY <1>1, <2>2, SeedIsStored, ReplayAssumption DEF StartRun, Nothing, After
    <2>4. done' \in [Tickers -> SUBSET Ticks] BY <1>1, StoredTicks DEF StartRun
    <2>5. Cardinality({t \in Tickers : phase'[t] = "scoring"}) <= Concurrency
        BY <1>1, PermitsKept DEF StartRun
    <2>6. TypeOK' BY <1>1, <2>1, <2>3, <2>4, <2>5 DEF TypeOK, StartRun
    <2> QED BY <1>1, <2>6 DEF Shape, StartRun
<1>2. CASE BeginTick
    <2>1. Cardinality({t \in Tickers : phase'[t] = "scoring"}) <= Concurrency
        BY <1>2, PermitsKept DEF BeginTick
    <2>2. TypeOK' BY <1>2, <2>1 DEF TypeOK, BeginTick
    <2> QED BY <1>2, <2>2 DEF Shape, BeginTick, TypeOK
<1>3. ASSUME NEW t \in Tickers, BeginScore(t) PROVE TypeOK' /\ Shape'
    <2> DEFINE S == {u \in Tickers : phase[u] = "scoring"}
    <2>1. IsFiniteSet(S) /\ Cardinality(S) \in Nat
        BY ReplayAssumption, FS_Subset, FS_CardinalityType
    <2>2. {u \in Tickers : phase'[u] = "scoring"} = S \cup {t}
        BY <1>3 DEF BeginScore, TypeOK
    <2>3. Cardinality(S \cup {t}) <= Cardinality(S) + 1
        BY <2>1, FS_AddElement
    <2>4. Cardinality(S \cup {t}) \in Nat
        BY <2>1, FS_AddElement, FS_CardinalityType
    <2>5. Cardinality(S) < Concurrency BY <1>3 DEF BeginScore
    <2>6. Cardinality({u \in Tickers : phase'[u] = "scoring"}) <= Concurrency
        BY <2>1, <2>2, <2>3, <2>4, <2>5, ReplayAssumption
    <2>7. TypeOK' BY <1>3, <2>6 DEF TypeOK, BeginScore
    <2> QED BY <1>3, <2>7 DEF Shape, BeginScore, TypeOK
<1>4. ASSUME NEW t \in Tickers, Persist(t) PROVE TypeOK' /\ Shape'
    <2>1. todo # {} BY <1>4 DEF Persist, Shape
    <2>0. First(todo) \in Ticks BY <2>1, FirstIsLeast DEF TypeOK
    <2>2. RowOf(t) \in Row /\ First(todo) \in 0 .. After
        BY <2>0, <2>1, RowTyped, ReplayAssumption DEF Ticks, After
    <2>3. Cardinality({u \in Tickers : phase'[u] = "scoring"}) <= Concurrency
        BY <1>4, PermitsKept DEF Persist, TypeOK
    <2>4. TypeOK' BY <1>4, <2>2, <2>3 DEF TypeOK, Persist
    <2> QED BY <1>4, <2>4 DEF Shape, Persist, TypeOK
<1>5. ASSUME NEW t \in Tickers, WorkerFails(t) PROVE TypeOK' /\ Shape'
    <2>1. RowOf(t) \in Row BY <1>5, RowTyped DEF WorkerFails, Shape
    <2>2. Cardinality({u \in Tickers : phase'[u] = "scoring"}) <= Concurrency
        BY <1>5, PermitsKept DEF WorkerFails, TypeOK
    <2>3. TypeOK' BY <1>5, <2>1, <2>2 DEF TypeOK, WorkerFails
    <2> QED BY <1>5, <2>3 DEF Shape, WorkerFails, TypeOK
<1>6. CASE EndTick
    <2>1. Cardinality({u \in Tickers : phase'[u] = "scoring"}) <= Concurrency
        BY <1>6, PermitsKept DEF EndTick
    <2>2. TypeOK' BY <1>6, <2>1 DEF TypeOK, EndTick
    <2> QED BY <1>6, <2>2 DEF Shape, EndTick
<1>7. CASE EndRun
    BY <1>7 DEF TypeOK, Shape, EndRun
<1>8. CASE Kill
    <2>1. PICK S \in SUBSET {t \in Tickers : phase[t] = "scoring"} :
             rows' = rows \cup {RowOf(t) : t \in S}
        BY <1>8 DEF Kill
    <2>2. \A t \in S : RowOf(t) \in Row BY RowTyped DEF Shape
    <2>3. rows' \subseteq Row BY <2>1, <2>2 DEF TypeOK
    <2>4. Cardinality({u \in Tickers : phase'[u] = "scoring"}) <= Concurrency
        BY <1>8, PermitsKept DEF Kill
    <2>5. TypeOK' BY <1>8, <2>3, <2>4 DEF TypeOK, Kill
    <2> QED BY <1>8, <2>5 DEF Shape, Kill
<1>9. CASE UNCHANGED vars
    BY <1>9 DEF vars, TypeOK, Shape
<1> QED BY <1>1, <1>2, <1>3, <1>4, <1>5, <1>6, <1>7, <1>8, <1>9 DEF Next

\* Type correctness: rows and states refer to ticks of the gap or its borders, and
\* never more workers hold a permit than --concurrency allows.
THEOREM TypeCorrect == Spec => []TypeOK
<1>1. Init => TypeOK /\ Shape BY InitTyped DEF Init, Shape
<1>2. TypeOK /\ Shape /\ [Next]_vars => TypeOK' /\ Shape' BY StepTyped
<1> QED BY <1>1, <1>2, PTL DEF Spec

---------------------------------------------------------------------------
(* The invariant.                                                          *)

\* While a run is active each stored row was there when it started, has its tick
\* behind the run, or was written in the current tick by a worker that has ended.
Accounted ==
    stage # "idle" => \A r \in rows :
        \/ r.tick \in done[r.ticker] \/ r.tick \notin todo
        \/ stage = "tick" /\ r.tick = First(todo) /\ phase[r.ticker] = "ended"

\* The states in memory are those of stored rows before the ticks ahead.
StatesStored ==
    stage # "idle" => \A t \in want :
        /\ states[t] \in {Nothing} \cup History(t)
        /\ states[t] = Nothing => t \notin Seeded
        /\ \A i \in todo :
              \/ states[t] < i
              \/ stage = "tick" /\ i = First(todo) /\ phase[t] = "ended"

\* Without failures the ticks behind the run are stored for all wanted tickers.
Behind ==
    stage # "idle" =>
        /\ \A t \in Tickers : done[t] \subseteq Stored(t)
        /\ clean = "yes" => \A t \in want :
              /\ Ticks \ todo \subseteq Stored(t)
              /\ stage = "tick" /\ phase[t] = "ended" => First(todo) \in Stored(t)

IInv ==
    /\ TypeOK /\ Shape /\ Accounted /\ StatesStored /\ Behind
    /\ NoRowTwice /\ ChainsAreStored /\ CleanRunFillsTheGap

\* Nothing is stored initially.
LEMMA InitInv == Init => IInv
<1> SUFFICES ASSUME Init PROVE IInv
    OBVIOUS
<1>1. TypeOK BY InitTyped
<1>2. Shape /\ Accounted /\ StatesStored /\ Behind
    BY DEF Init, Shape, Accounted, StatesStored, Behind
<1>3. NoRowTwice /\ ChainsAreStored /\ CleanRunFillsTheGap
    BY DEF Init, NoRowTwice, ChainsAreStored, CleanRunFillsTheGap
<1> QED BY <1>1, <1>2, <1>3 DEF IInv

\* Rows are only ever added, so what is stored of a ticker grows.
LEMMA StoredGrows ==
    ASSUME TypeOK, TypeOK', rows \subseteq rows', NEW t \in Tickers
    PROVE  Stored(t) \subseteq Stored(t)' /\ History(t) \subseteq History(t)'
<1>1. Stored(t) \subseteq Stored(t)' BY DEF Stored
<1> QED BY <1>1 DEF History

\* When workers that are scoring add their rows, no row is added twice and every
\* added row continues a stored one.
LEMMA RowsAdded ==
    ASSUME IInv, TypeOK', NEW S \in SUBSET {t \in Tickers : phase[t] = "scoring"},
           rows' = rows \cup {RowOf(t) : t \in S}
    PROVE  NoRowTwice' /\ ChainsAreStored'
<1>1. \A t \in S : /\ t \in Tickers /\ t \in want /\ stage = "tick" /\ todo # {}
                    /\ phase[t] = "scoring" /\ First(todo) \notin done[t]
    BY DEF IInv, Shape
<1>2. \A t \in S : First(todo) \in todo BY <1>1, FirstIsLeast DEF IInv, TypeOK
<1>3. ASSUME NEW t \in S, NEW r \in rows, r.ticker = t PROVE r.tick # First(todo)
    BY <1>1, <1>2, <1>3 DEF IInv, Accounted
<1>4. NoRowTwice'
    <2> SUFFICES ASSUME NEW r \in rows', NEW q \in rows',
                        r.ticker = q.ticker, r.tick = q.tick
                 PROVE  r = q
        BY DEF NoRowTwice
    <2>1. CASE r \in rows /\ q \in rows BY <2>1 DEF IInv, NoRowTwice
    <2>2. CASE r \in rows /\ q \notin rows
        <3>1. PICK t \in S : q = RowOf(t) BY <2>2
        <3> QED BY <1>3, <2>2, <3>1 DEF RowOf
    <2>3. CASE r \notin rows /\ q \in rows
        <3>1. PICK t \in S : r = RowOf(t) BY <2>3
        <3> QED BY <1>3, <2>3, <3>1 DEF RowOf
    <2>4. CASE r \notin rows /\ q \notin rows
        <3>1. PICK t \in S : r = RowOf(t) BY <2>4
        <3>2. PICK u \in S : q = RowOf(u) BY <2>4
        <3>3. t = u BY <3>1, <3>2 DEF RowOf
        <3> QED BY <3>1, <3>2, <3>3
    <2> QED BY <2>1, <2>2, <2>3, <2>4
<1>5. ChainsAreStored'
    <2>1. ASSUME NEW r \in rows
          PROVE  /\ r.prev < r.tick /\ (r.prev = Nothing => r.ticker \notin Seeded)
                 /\ r.prev \in {Nothing} \cup History(r.ticker)'
        <3>1. r.ticker \in Tickers BY DEF IInv, TypeOK, Row
        <3>2. History(r.ticker) \subseteq History(r.ticker)'
            BY <3>1, StoredGrows DEF IInv
        <3> QED BY <3>2 DEF IInv, ChainsAreStored
    <2>2. ASSUME NEW t \in S
          PROVE  /\ states[t] < First(todo) /\ (states[t] = Nothing => t \notin Seeded)
                 /\ states[t] \in {Nothing} \cup History(t)'
        <3>1. History(t) \subseteq History(t)' BY StoredGrows DEF IInv
        <3> QED BY <1>1, <1>2, <3>1 DEF IInv, StatesStored
    <2>3. ASSUME NEW r \in rows'
          PROVE  /\ r.prev < r.tick /\ (r.prev = Nothing => r.ticker \notin Seeded)
                 /\ r.prev \in {Nothing} \cup History(r.ticker)'
        <3>1. CASE r \in rows BY <2>1, <3>1
        <3>2. CASE r \notin rows
            <4>1. PICK t \in S : r = RowOf(t) BY <3>2
            <4>2. r.ticker = t /\ r.tick = First(todo) /\ r.prev = states[t]
                BY <4>1 DEF RowOf
            <4> QED BY <2>2, <4>2
        <3> QED BY <3>1, <3>2
    <2> QED BY <2>3 DEF ChainsAreStored, Nothing
<1> QED BY <1>4, <1>5

\* The same when no row is added.
LEMMA NoRowAdded ==
    ASSUME IInv, TypeOK', rows' = rows
    PROVE  /\ NoRowTwice' /\ ChainsAreStored'
           /\ \A t \in Tickers : Stored(t)' = Stored(t) /\ History(t)' = History(t)
<1>1. PICK S \in SUBSET {t \in Tickers : phase[t] = "scoring"} : S = {}
    OBVIOUS
<1>2. rows' = rows \cup {RowOf(t) : t \in S} BY <1>1
<1>3. NoRowTwice' /\ ChainsAreStored' BY <1>2, RowsAdded
<1> QED BY <1>3 DEF Stored, History

\* A starting run takes its skip set, its ticks and its states from the table.
LEMMA StepStartRun ==
    ASSUME IInv, TypeOK', Shape', NEW W \in SUBSET Tickers \ {{}}, StartRun(W)
    PROVE  IInv'
<1>1. rows' = rows /\ stage' = "ready" /\ want' = W /\ todo' = Incomplete(W)
    BY DEF StartRun
<1>2. /\ NoRowTwice' /\ ChainsAreStored'
      /\ \A t \in Tickers : Stored(t)' = Stored(t) /\ History(t)' = History(t)
    BY <1>1, NoRowAdded
<1>3. Accounted'
    <2>1. ASSUME NEW r \in rows PROVE r.tick \in done'[r.ticker]
        BY StoredTicks DEF IInv, TypeOK, Row, StartRun
    <2> QED BY <1>1, <2>1 DEF Accounted
<1>4. StatesStored'
    <2> SUFFICES ASSUME NEW t \in W
                 PROVE  /\ states'[t] \in {Nothing} \cup History(t)
                        /\ states'[t] = Nothing => t \notin Seeded
                        /\ \A i \in Incomplete(W) : states'[t] < i
        BY <1>1, <1>2 DEF StatesStored
    <2>1. Incomplete(W) \subseteq Ticks /\ Incomplete(W) # {}
        BY DEF StartRun, Incomplete
    <2>2. First(Incomplete(W)) \in Ticks /\ \A i \in Incomplete(W) : First(Incomplete(W)) <= i
        BY <2>1, FirstIsLeast
    <2>3. states'[t] = Seed(t, First(Incomplete(W))) BY DEF StartRun
    <2>4. /\ states'[t] \in {Nothing} \cup History(t)
          /\ states'[t] = Nothing => t \notin Seeded
          /\ states'[t] < First(Incomplete(W)) /\ states'[t] \in 0 .. After
        BY <2>2, <2>3, SeedIsStored DEF IInv
    <2> QED BY <2>1, <2>2, <2>4, ReplayAssumption DEF Ticks, After
<1>5. Behind'
    BY <1>1, <1>2 DEF Behind, StartRun, Incomplete
<1>6. CleanRunFillsTheGap' BY <1>1 DEF CleanRunFillsTheGap
<1> QED BY <1>2, <1>3, <1>4, <1>5, <1>6 DEF IInv

\* Beginning a tick, the completed tickers count as ended.
LEMMA StepBeginTick == ASSUME IInv, TypeOK', Shape', BeginTick PROVE IInv'
<1>1. /\ rows' = rows /\ stage = "ready" /\ stage' = "tick" /\ todo # {}
      /\ UNCHANGED <<run, want, done, todo, states, clean>>
    BY DEF BeginTick
<1>2. /\ NoRowTwice' /\ ChainsAreStored'
      /\ \A t \in Tickers : Stored(t)' = Stored(t) /\ History(t)' = History(t)
    BY <1>1, NoRowAdded
<1>3. Accounted' BY <1>1 DEF IInv, Accounted
<1>4. StatesStored' BY <1>1, <1>2 DEF IInv, TypeOK, StatesStored
<1>5. Behind'
    <2>1. ASSUME NEW t \in want, phase'[t] = "ended" PROVE First(todo) \in done[t]
        BY <1>1, <2>1 DEF BeginTick, IInv, TypeOK
    <2> QED BY <1>1, <1>2, <2>1 DEF IInv, TypeOK, Behind
<1>6. CleanRunFillsTheGap' BY <1>1 DEF CleanRunFillsTheGap
<1> QED BY <1>2, <1>3, <1>4, <1>5, <1>6 DEF IInv

\* A worker that gets a permit changes nothing else.
LEMMA StepBeginScore ==
    ASSUME IInv, TypeOK', Shape', NEW t \in Tickers, BeginScore(t) PROVE IInv'
<1>1. /\ rows' = rows /\ phase[t] = "waiting" /\ phase' = [phase EXCEPT ![t] = "scoring"]
      /\ UNCHANGED <<run, stage, want, done, todo, states, clean>>
    BY DEF BeginScore
<1>2. /\ NoRowTwice' /\ ChainsAreStored'
      /\ \A u \in Tickers : Stored(u)' = Stored(u) /\ History(u)' = History(u)
    BY <1>1, NoRowAdded
<1>3. \A u \in Tickers : phase'[u] = "ended" <=> phase[u] = "ended"
    BY <1>1 DEF IInv, TypeOK
<1>4. Accounted' BY <1>1, <1>3 DEF IInv, TypeOK, Row, Accounted
<1>5. StatesStored' BY <1>1, <1>2, <1>3 DEF IInv, TypeOK, StatesStored
<1>6. Behind' BY <1>1, <1>2, <1>3 DEF IInv, TypeOK, Behind
<1>7. CleanRunFillsTheGap' BY <1>1, <1>2 DEF IInv, TypeOK, CleanRunFillsTheGap
<1> QED BY <1>2, <1>4, <1>5, <1>6, <1>7 DEF IInv

\* What the invariant says of one state in memory during a tick.
LEMMA StateInMemory ==
    ASSUME IInv, stage = "tick", NEW u \in want
    PROVE  /\ states[u] \in {Nothing} \cup History(u)
           /\ states[u] = Nothing => u \notin Seeded
           /\ \A i \in todo : \/ states[u] < i
                              \/ i = First(todo) /\ phase[u] = "ended"
BY DEF IInv, StatesStored

\* A worker ends, with its row stored or not and its state kept only with it.
LEMMA StepWorkerEnds ==
    ASSUME IInv, TypeOK', Shape', NEW t \in Tickers, phase[t] = "scoring",
           phase' = [phase EXCEPT ![t] = "ended"],
           UNCHANGED <<run, stage, want, done, todo>>,
           \/ rows' = rows /\ states' = states /\ clean' = "no"
           \/ rows' = rows \cup {RowOf(t)} /\ states' = states /\ clean' = "no"
           \/ /\ rows' = rows \cup {RowOf(t)} /\ clean' = clean
              /\ states' = [states EXCEPT ![t] = First(todo)]
    PROVE  IInv'
<1>1. stage = "tick" /\ todo # {} /\ t \in want BY DEF IInv, Shape
<1>2. First(todo) \in todo /\ First(todo) \in Ticks /\ \A i \in todo : First(todo) <= i
    BY <1>1, FirstIsLeast DEF IInv, TypeOK
<1>3. rows \subseteq rows' OBVIOUS
<1>4. NoRowTwice' /\ ChainsAreStored'
    <2>1. CASE rows' = rows BY <2>1, NoRowAdded
    <2>2. CASE rows' = rows \cup {RowOf(t)}
        <3>1. PICK S \in SUBSET {u \in Tickers : phase[u] = "scoring"} : S = {t}
            OBVIOUS
        <3>2. rows' = rows \cup {RowOf(u) : u \in S} BY <2>2, <3>1
        <3> QED BY <3>2, RowsAdded
    <2> QED BY <2>1, <2>2
<1>5. \A u \in Tickers : Stored(u) \subseteq Stored(u)' /\ History(u) \subseteq History(u)'
    BY <1>3, StoredGrows DEF IInv
<1>6. \A u \in Tickers : phase[u] = "ended" => phase'[u] = "ended"
    BY DEF IInv, TypeOK
<1>7. phase'[t] = "ended" BY DEF IInv, TypeOK
<1>8. Accounted'
    <2> SUFFICES ASSUME NEW r \in rows'
                 PROVE  \/ r.tick \in done[r.ticker] \/ r.tick \notin todo
                        \/ r.tick = First(todo) /\ phase'[r.ticker] = "ended"
        BY <1>1 DEF Accounted
    <2>1. CASE r \in rows
        <3>1. r.ticker \in Tickers BY <2>1 DEF IInv, TypeOK, Row
        <3>2. \/ r.tick \in done[r.ticker] \/ r.tick \notin todo
              \/ r.tick = First(todo) /\ phase[r.ticker] = "ended"
            BY <1>1, <2>1 DEF IInv, Accounted
        <3> QED BY <1>6, <3>1, <3>2
    <2>2. CASE r = RowOf(t) BY <1>7, <2>2 DEF RowOf
    <2> QED BY <2>1, <2>2
<1>9. rows' = rows \cup {RowOf(t)} => First(todo) \in Stored(t)'
    <2>1. RowOf(t).ticker = t /\ RowOf(t).tick = First(todo) BY DEF RowOf
    <2>2. \A r \in rows' : r.tick \in Stored(r.ticker)' BY DEF Stored
    <2> HIDE DEF RowOf
    <2> QED BY <2>1, <2>2
<1>10. StatesStored'
    <2> SUFFICES ASSUME NEW u \in want
                 PROVE  /\ states'[u] \in {Nothing} \cup History(u)'
                        /\ states'[u] = Nothing => u \notin Seeded
                        /\ \A i \in todo : \/ states'[u] < i
                                           \/ i = First(todo) /\ phase'[u] = "ended"
        BY <1>1 DEF StatesStored
    <2>1. u \in Tickers BY DEF IInv, TypeOK
    <2>2. CASE states'[u] = states[u]
        <3>1. /\ states[u] \in {Nothing} \cup History(u)
              /\ states[u] = Nothing => u \notin Seeded
              /\ \A i \in todo : \/ states[u] < i
                                 \/ i = First(todo) /\ phase[u] = "ended"
            BY <1>1, StateInMemory
        <3>2. History(u) \subseteq History(u)' BY <1>5, <2>1
        <3> QED BY <1>6, <2>1, <2>2, <3>1, <3>2
    <2>3. CASE u = t /\ states'[t] = First(todo) /\ rows' = rows \cup {RowOf(t)}
        <3>1. First(todo) \in History(t)' BY <1>9, <2>3 DEF History
        <3>2. First(todo) # Nothing BY <1>2, ReplayAssumption DEF Ticks, Nothing
        <3>3. \A i \in todo : First(todo) < i \/ i = First(todo)
            BY <1>2, ReplayAssumption DEF Ticks, IInv, TypeOK
        <3> QED BY <1>7, <2>3, <3>1, <3>2, <3>3
    <2> QED BY <2>1, <2>2, <2>3 DEF IInv, TypeOK
<1>11. Behind'
    <2>1. clean' = "yes" => clean = "yes" /\ rows' = rows \cup {RowOf(t)}
        OBVIOUS
    <2>2. \A u \in Tickers : phase'[u] = "ended" => u = t \/ phase[u] = "ended"
        BY DEF IInv, TypeOK
    <2> QED BY <1>1, <1>5, <1>9, <2>1, <2>2 DEF IInv, TypeOK, Behind
<1>12. CleanRunFillsTheGap' BY <1>1 DEF CleanRunFillsTheGap
<1> QED BY <1>4, <1>8, <1>10, <1>11, <1>12 DEF IInv

\* Every step preserves the invariant.
LEMMA StepInv == IInv /\ [Next]_vars => IInv'
<1> SUFFICES ASSUME IInv, [Next]_vars PROVE IInv'
    OBVIOUS
<1>0. TypeOK' /\ Shape' BY StepTyped DEF IInv
<1>1. ASSUME NEW W \in SUBSET Tickers \ {{}}, StartRun(W) PROVE IInv'
    BY <1>0, <1>1, StepStartRun
<1>2. CASE BeginTick BY <1>0, <1>2, StepBeginTick
<1>3. ASSUME NEW t \in Tickers, BeginScore(t) PROVE IInv'
    BY <1>0, <1>3, StepBeginScore
<1>4. ASSUME NEW t \in Tickers, Persist(t) PROVE IInv'
    BY <1>0, <1>4, StepWorkerEnds DEF Persist
<1>5. ASSUME NEW t \in Tickers, WorkerFails(t) PROVE IInv'
    BY <1>0, <1>5, StepWorkerEnds DEF WorkerFails
<1>6. CASE EndTick
    <2>1. /\ rows' = rows /\ stage = "tick" /\ stage' = "ready"
          /\ todo' = todo \ {First(todo)} /\ \A t \in Tickers : phase[t] = "ended"
          /\ UNCHANGED <<run, want, done, states, clean>>
        BY <1>6 DEF EndTick
    <2>2. /\ NoRowTwice' /\ ChainsAreStored'
          /\ \A t \in Tickers : Stored(t)' = Stored(t) /\ History(t)' = History(t)
        BY <1>0, <2>1, NoRowAdded
    <2>3. Accounted' BY <2>1 DEF IInv, Accounted
    <2>4. StatesStored' BY <2>1, <2>2 DEF IInv, TypeOK, StatesStored
    <2>5. Behind' BY <2>1, <2>2 DEF IInv, TypeOK, Behind
    <2>6. CleanRunFillsTheGap' BY <2>1 DEF CleanRunFillsTheGap
    <2> QED BY <1>0, <2>2, <2>3, <2>4, <2>5, <2>6 DEF IInv
<1>7. CASE EndRun
    <2>1. /\ rows' = rows /\ stage = "ready" /\ stage' = "idle" /\ todo = {}
          /\ UNCHANGED <<run, want, done, todo, states, phase, clean>>
        BY <1>7 DEF EndRun
    <2>2. /\ NoRowTwice' /\ ChainsAreStored'
          /\ \A t \in Tickers : Stored(t)' = Stored(t) /\ History(t)' = History(t)
        BY <1>0, <2>1, NoRowAdded
    <2>3. Accounted' /\ StatesStored' /\ Behind'
        BY <2>1 DEF Accounted, StatesStored, Behind
    <2>4. clean = "yes" => \A t \in want : Ticks \subseteq Stored(t)
        BY <2>1 DEF IInv, Behind
    <2>5. \A t \in want : Stored(t) \subseteq Ticks
        BY StoredTicks DEF IInv, TypeOK
    <2>6. CleanRunFillsTheGap'
        BY <2>1, <2>2, <2>4, <2>5 DEF IInv, TypeOK, CleanRunFillsTheGap
    <2> QED BY <1>0, <2>2, <2>3, <2>6 DEF IInv
<1>8. CASE Kill
    <2>1. PICK S \in SUBSET {t \in Tickers : phase[t] = "scoring"} :
             rows' = rows \cup {RowOf(t) : t \in S}
        BY <1>8 DEF Kill
    <2>2. NoRowTwice' /\ ChainsAreStored' BY <1>0, <2>1, RowsAdded
    <2>3. Accounted' /\ StatesStored' /\ Behind' /\ CleanRunFillsTheGap'
        BY <1>8 DEF Kill, Accounted, StatesStored, Behind, CleanRunFillsTheGap
    <2> QED BY <1>0, <2>2, <2>3 DEF IInv
<1>9. CASE UNCHANGED vars
    <2>1. \A t : Stored(t)' = Stored(t) /\ History(t)' = History(t)
        BY <1>9 DEF vars, Stored, History
    <2> QED BY <1>0, <1>9, <2>1
            DEF vars, IInv, Accounted, StatesStored, Behind, NoRowTwice, ChainsAreStored,
                CleanRunFillsTheGap
<1> QED BY <1>1, <1>2, <1>3, <1>4, <1>5, <1>6, <1>7, <1>8, <1>9 DEF Next

---------------------------------------------------------------------------
(* The theorems.                                                           *)

\* However often the tool fails, is killed and resumes, no row is written twice.
THEOREM ResumeIsIdempotent == Spec => []NoRowTwice
<1>1. Init => IInv BY InitInv
<1>2. IInv /\ [Next]_vars => IInv' BY StepInv
<1>3. IInv => NoRowTwice BY DEF IInv
<1> QED BY <1>1, <1>2, <1>3, PTL DEF Spec

\* Every replayed row continues a stored, earlier row of its ticker.
THEOREM ChainsStored == Spec => []ChainsAreStored
<1>1. Init => IInv BY InitInv
<1>2. IInv /\ [Next]_vars => IInv' BY StepInv
<1>3. IInv => ChainsAreStored BY DEF IInv
<1> QED BY <1>1, <1>2, <1>3, PTL DEF Spec

\* A run without failures leaves no tick of its tickers unfilled.
THEOREM CleanRunComplete == Spec => []CleanRunFillsTheGap
<1>1. Init => IInv BY InitInv
<1>2. IInv /\ [Next]_vars => IInv' BY StepInv
<1>3. IInv => CleanRunFillsTheGap BY DEF IInv
<1> QED BY <1>1, <1>2, <1>3, PTL DEF Spec

---------------------------------------------------------------------------
(* The tools that overwrite what was stored: the rescoring of rows, for    *)
(* any function that rebuilds the rows of a ticker.                        *)

\* What the tool may find of a ticker: rows, which are a sequence of some values.
AreFinds(F, V) == \A f \in F : \A t \in DOMAIN f : f[t].rows \in Seq(V)

\* A ticker's rows are in one of two states, in the table and in an archive; a running
\* tool has an archive, and what it has computed it has computed from the originals.
FoundOK == \A t \in DOMAIN found : ValuesOf(Originally(t)) = found[t].rows
KeptInv ==
    /\ FoundOK
    /\ DOMAIN table = DOMAIN found
    /\ \A t \in DOMAIN found :
          /\ table[t] \in {Originally(t), Rebuilt(t)}
          /\ table[t] # Originally(t) => archive # <<>>
          /\ archive # <<>> => archive[t] \in {Originally(t), Rebuilt(t)}
          /\ t \in DOMAIN updates => updates[t] = Rebuilt(t)
    /\ tool = "running" => archive # <<>>
    /\ tool = "idle" => DOMAIN updates = {}

LEMMA ValuesMarked ==
    ASSUME NEW V, NEW values \in Seq(V), NEW id
    PROVE  ValuesOf(Marked(values, id)) = values
BY DEF ValuesOf, Marked

LEMMA MarkOf ==
    ASSUME NEW values, NEW id, NEW i \in DOMAIN Marked(values, id)
    PROVE  Marked(values, id)[i].replay_run = id
BY DEF Marked

\* A function of something is not the empty one.
LEMMA NotEmpty == ASSUME NEW f, NEW t \in DOMAIN f PROVE f # <<>>
OBVIOUS

LEMMA FoundKept == ASSUME UNCHANGED found PROVE \A t : Originally(t)' = Originally(t) /\ Rebuilt(t)' = Rebuilt(t)
BY DEF Originally, Rebuilt

LEMMA InitKept ==
    ASSUME NEW F, NEW V, AreFinds(F, V), ToolInit(F)
    PROVE  KeptInv
<1>1. found \in F /\ table = [t \in DOMAIN found |-> Originally(t)] BY DEF ToolInit, Originally
<1>2. FoundOK
    <2>1. ASSUME NEW t \in DOMAIN found PROVE ValuesOf(Originally(t)) = found[t].rows
        <3>1. found[t].rows \in Seq(V) BY <1>1 DEF AreFinds
        <3> QED BY <3>1, ValuesMarked DEF Originally
    <2> QED BY <2>1 DEF FoundOK
<1>3. archive = <<>> /\ updates = <<>> /\ tool = "idle" BY DEF ToolInit
<1> QED BY <1>1, <1>2, <1>3 DEF KeptInv

\* A ticker that is not skipped has its original rows, and what is computed is rebuilt
\* from them.
LEMMA LoadedFromOriginals ==
    ASSUME KeptInv, NEW t \in DOMAIN found, LoadTicker(t)
    PROVE  Marked(Rescore(ValuesOf(table[t]), found[t].seed, found[t].articles), RUN_ID) = Rebuilt(t)
<1>1. PICK i \in DOMAIN table[t] : table[t][i].replay_run # RUN_ID BY DEF LoadTicker
<1>2. table[t] # Rebuilt(t) BY <1>1, MarkOf DEF Rebuilt
<1>3. table[t] = Originally(t) BY <1>2 DEF KeptInv
<1>4. ValuesOf(table[t]) = found[t].rows BY <1>3 DEF KeptInv, FoundOK
<1> QED BY <1>4 DEF Rebuilt

LEMMA StepKept == KeptInv /\ [ToolNext]_toolVars => KeptInv'
<1> SUFFICES ASSUME KeptInv, [ToolNext]_toolVars PROVE KeptInv' OBVIOUS
<1>0. UNCHANGED found
    BY DEF ToolNext, archive_originals, StartTool, EndTool, LoadTicker, UpdateTicker, toolVars
<1>a. \A t : Originally(t)' = Originally(t) /\ Rebuilt(t)' = Rebuilt(t) BY <1>0, FoundKept
<1>b. FoundOK' BY <1>0, <1>a DEF KeptInv, FoundOK, ValuesOf
<1>1. CASE archive_originals
    <2>1. \A t \in DOMAIN found : archive' # <<>> BY <1>1, NotEmpty DEF archive_originals, KeptInv
    <2> QED BY <1>0, <1>a, <1>b, <1>1, <2>1 DEF archive_originals, KeptInv
<1>2. CASE StartTool
    BY <1>0, <1>a, <1>b, <1>2 DEF StartTool, KeptInv, _archive_ok
<1>3. CASE EndTool
    <2>1. DOMAIN updates' = {} BY <1>3 DEF EndTool
    <2> QED BY <1>0, <1>a, <1>b, <1>3, <2>1 DEF EndTool, KeptInv
<1>4. ASSUME NEW t \in DOMAIN found, LoadTicker(t) PROVE KeptInv'
    <2>1. \A u \in DOMAIN updates' : updates'[u] = IF u = t THEN Rebuilt(t) ELSE updates[u]
        BY <1>4, LoadedFromOriginals DEF LoadTicker
    <2>2. DOMAIN updates' = DOMAIN updates \cup {t} BY <1>4 DEF LoadTicker
    <2>3. UNCHANGED <<table, archive, tool>> /\ tool = "running" BY <1>4 DEF LoadTicker
    <2> QED BY <1>0, <1>a, <1>b, <2>1, <2>2, <2>3 DEF KeptInv
<1>5. ASSUME NEW t \in DOMAIN found, UpdateTicker(t) PROVE KeptInv'
    <2>1. updates[t] = Rebuilt(t) /\ tool = "running" /\ archive # <<>>
        BY <1>5 DEF UpdateTicker, KeptInv
    <2>2. DOMAIN table' = DOMAIN found BY <1>5 DEF UpdateTicker, KeptInv
    <2>3. \A u \in DOMAIN found : table'[u] \in {table[u], Rebuilt(u)}
        BY <1>5, <2>1 DEF UpdateTicker, KeptInv
    <2>4. \A u \in DOMAIN updates' : u \in DOMAIN updates /\ updates'[u] = updates[u]
        BY <1>5 DEF UpdateTicker
    <2>5. UNCHANGED <<archive, tool>> BY <1>5 DEF UpdateTicker
    <2> QED BY <1>0, <1>a, <1>b, <2>1, <2>2, <2>3, <2>4, <2>5 DEF KeptInv
<1>6. CASE UNCHANGED toolVars
    BY <1>0, <1>a, <1>b, <1>6 DEF toolVars, KeptInv
<1> QED BY <1>1, <1>2, <1>3, <1>4, <1>5, <1>6 DEF ToolNext

LEMMA KeptSuffices == KeptInv => OriginalsAreKept
BY DEF KeptInv, OriginalsAreKept

---------------------------------------------------------------------------
(* The replacement of signals, for any tickers.                            *)

\* Until there is an archive nothing is replaced; an archive has all the originals of the
\* tickers it was made for, and of the ETF; and what is replaced of a ticker is replaced
\* in one transaction.
SwapInv ==
    /\ swap \subseteq Equities \cup {Etf}
    /\ ~meta => swap = {} /\ Originals \subseteq signals
    /\ meta => \A r \in Originals :
          r.inside => /\ r.ticker \in covers /\ r.type \in REPLACE_MARKET_TYPES => r \in saved
                      /\ r.ticker = Etf /\ r.type \in REPLACE_MACRO_TYPES => r \in saved
    /\ \A r \in Originals : r \in signals \/ IsReplaced(r)
    /\ \A r, s \in signals :
          r.ticker = s.ticker /\ IsReplaced(r) /\ IsReplaced(s) => r.made = s.made

LEMMA InitSwap == SwapInit => SwapInv
<1> SUFFICES ASSUME SwapInit PROVE SwapInv OBVIOUS
<1>1. \A r \in Originals : r.made = "live" BY DEF Originals
<1> QED BY <1>1 DEF SwapInit, SwapInv

\* What is archived before anything was replaced are the originals.
LEMMA ArchiveComplete ==
    ASSUME Originals \subseteq signals, NEW T, NEW r \in Originals, r.inside
    PROVE  /\ r.ticker \in T /\ r.type \in REPLACE_MARKET_TYPES => r \in Replaced(T)
           /\ r.ticker = Etf /\ r.type \in REPLACE_MACRO_TYPES => r \in Replaced(T)
BY DEF Replaced

LEMMA ReplacedTransaction ==
    ASSUME SwapInv, NEW t \in Equities \cup {Etf}, replace_signals(t)
    PROVE  SwapInv'
<1> DEFINE rest == {r \in signals : ~(r.ticker = t /\ IsReplaced(r))}
<1>1. PICK new \in SUBSET {r \in [ticker : {t}, type : Types, inside : {TRUE}, made : {"rebuilt"}] :
                             IsReplaced(r)} :
         signals' = rest \cup new
    BY DEF replace_signals
<1>2. t \in swap /\ swap' = swap \ {t} /\ UNCHANGED <<saved, meta, covers>>
    BY DEF replace_signals
<1>3. meta BY <1>2 DEF SwapInv
<1>4. UNCHANGED Originals /\ \A r : IsReplaced(r)' <=> IsReplaced(r)
    BY DEF Originals, IsReplaced
<1>5. ASSUME NEW r \in Originals PROVE r \in signals' \/ IsReplaced(r)
    BY <1>1 DEF SwapInv
<1>6. ASSUME NEW r \in signals', NEW s \in signals',
             r.ticker = s.ticker, IsReplaced(r), IsReplaced(s)
      PROVE  r.made = s.made
    <2>1. CASE r.ticker = t
        <3>1. r \notin rest /\ s \notin rest BY <1>6, <2>1
        <3>2. r \in new /\ s \in new BY <1>1, <3>1
        <3> QED BY <3>2
    <2>2. CASE r.ticker # t
        <3>1. \A n \in new : n.ticker = t OBVIOUS
        <3>2. r \in signals /\ s \in signals BY <1>1, <1>6, <2>2, <3>1
        <3> QED BY <1>6, <3>2 DEF SwapInv
    <2> QED BY <2>1, <2>2
<1> HIDE DEF rest
<1> QED BY <1>2, <1>3, <1>4, <1>5, <1>6 DEF SwapInv

LEMMA StepSwap == SwapInv /\ [SwapNext]_swapVars => SwapInv'
<1> SUFFICES ASSUME SwapInv, [SwapNext]_swapVars PROVE SwapInv' OBVIOUS
<1>0. UNCHANGED Originals /\ \A r : IsReplaced(r)' <=> IsReplaced(r) BY DEF Originals, IsReplaced
<1>1. ASSUME NEW T \in SUBSET Equities, StartReplace(T) PROVE SwapInv'
    <2>1. swap' \subseteq Equities \cup {Etf} /\ meta' /\ signals' = signals
        BY <1>1 DEF StartReplace, archive_replaced
    <2>2. CASE meta
        <3>1. saved' = saved /\ covers' = covers BY <1>1, <2>2 DEF StartReplace, archive_replaced
        <3> QED BY <1>0, <2>1, <2>2, <3>1 DEF SwapInv
    <2>3. CASE ~meta
        <3>1. saved' = Replaced(T) /\ covers' = T BY <1>1, <2>3 DEF StartReplace, archive_replaced
        <3>2. Originals \subseteq signals BY <2>3 DEF SwapInv
        <3>3. \A r \in Originals :
                 r.inside => /\ r.ticker \in covers' /\ r.type \in REPLACE_MARKET_TYPES => r \in saved'
                             /\ r.ticker = Etf /\ r.type \in REPLACE_MACRO_TYPES => r \in saved'
            BY <3>1, <3>2, ArchiveComplete
        <3> QED BY <1>0, <2>1, <3>2, <3>3 DEF SwapInv
    <2> QED BY <2>2, <2>3
<1>2. ASSUME NEW T \in SUBSET Equities, ArchiveCutOff(T) PROVE SwapInv'
    BY <1>0, <1>2 DEF ArchiveCutOff, SwapInv
<1>3. ASSUME NEW t \in Equities \cup {Etf}, replace_signals(t) PROVE SwapInv'
    BY <1>3, ReplacedTransaction
<1>4. CASE StopReplace BY <1>0, <1>4 DEF StopReplace, SwapInv
<1>5. CASE UNCHANGED swapVars BY <1>0, <1>5 DEF swapVars, SwapInv
<1> QED BY <1>1, <1>2, <1>3, <1>4, <1>5 DEF SwapNext

LEMMA SwapSuffices == SwapInv => DeletedIsSaved
<1> SUFFICES ASSUME SwapInv, NEW r \in Originals, r \notin signals
             PROVE  r \in saved \/ (r.inside /\ r.type \in REPLACE_MARKET_TYPES /\ r.ticker \notin covers)
    BY DEF SwapInv, DeletedIsSaved
<1>1. meta /\ IsReplaced(r) BY DEF SwapInv
<1> QED BY <1>1 DEF SwapInv, IsReplaced

\* Both tools, at any time beside each other: what they rebuild is rebuilt from what was
\* there at first, nothing is overwritten without an archive, and no ticker is left with
\* some of its derived signals as they were and some rebuilt, for any rows, any function
\* that rebuilds them and any tickers (OriginalsAreSafe).
THEOREM OverwrittenSafely ==
    ASSUME NEW CONSTANT F, NEW CONSTANT V, AreFinds(F, V)
    PROVE  ToolsSpec(F) => []OriginalsAreSafe
<1>1. ToolsInit(F) => KeptInv /\ SwapInv BY InitKept, InitSwap DEF ToolsInit
<1>2. KeptInv /\ SwapInv /\ [ToolsNext]_<<toolVars, swapVars>> => (KeptInv /\ SwapInv)'
    BY StepKept, StepSwap DEF ToolsNext
<1>3. KeptInv /\ SwapInv => OriginalsAreSafe
    BY KeptSuffices, SwapSuffices DEF OriginalsAreSafe
<1> QED BY <1>1, <1>2, <1>3, PTL DEF ToolsSpec
=============================================================================
