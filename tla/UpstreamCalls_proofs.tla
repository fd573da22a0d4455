---------------------- MODULE UpstreamCalls_proofs ----------------------
(***************************************************************************)
(* Proofs about UpstreamCalls, for any jobs, fetches, numbers of permits   *)
(* and retries and any delay, and about Retention, for any age and size of *)
(* the tables and of a batch.                                              *)
(*                                                                         *)
(* The invariant of UpstreamCalls counts: permits are free or held, the    *)
(* queue names every waiting fetch once, what the provider counted in the  *)
(* current unit of time is still held for the whole delay, and the answers *)
(* of a request are the retries it has used and the one it waits to judge. *)
(* The invariant of Retention says how far a run without a failure has     *)
(* come: what its steps so far have cleared, and up to which id the        *)
(* batches of the last one have compacted.                                 *)
(***************************************************************************)
EXTENDS UpstreamCalls, Retention, FiniteSetTheorems, TLAPS

---------------------------------------------------------------------------
(* The invariant of the calls.                                             *)

Holders == {c \in Calls : Holds(c)}

\* Permits are free or held.
PermitsAdd == free + Cardinality(Holders) = Permits

\* The queue names the fetches that wait, each of them once.
QueueNamesWaiters ==
    /\ \A i \in DOMAIN queue : phase[queue[i]] = "queued"
    /\ \A c \in Calls : phase[c] = "queued" => \E i \in DOMAIN queue : queue[i] = c
    /\ \A i, k \in DOMAIN queue : queue[i] = queue[k] => i = k

\* The fetches of a run that is over are idle.
IdleOutside == \A j \in Jobs \ running : \A c \in CallsOf(j) : phase[c] = "idle"

\* Only a permit that is held is held for some time.
TimersRun == \A c \in Calls : timer[c] > 0 => phase[c] = "holding"

\* What the provider counted in this unit of time is held for the whole delay.
Spenders == {c \in Calls : timer[c] = Delay}
SpendingHeld == Delay > 0 => spent = Cardinality(Spenders)

\* The first n answers to fetch c asked for a retry.
Retried(c, n) == \A i \in 1 .. n : sent[c][i] \in {"limited", "net"}

\* Every answer of the request has been used for a retry.
AllUsed(c) ==
    /\ Len(sent[c]) = n429[c] + nnet[c] /\ Retried(c, Len(sent[c]))
    /\ Count(c, "limited") = n429[c] /\ Count(c, "net") = nnet[c]

\* All but the last have.
AllButLastUsed(c) ==
    LET n == Len(sent[c])
        last == sent[c][n]
    IN  /\ n = n429[c] + nnet[c] + 1 /\ Retried(c, n - 1)
        /\ Count(c, "limited") = n429[c] + (IF last = "limited" THEN 1 ELSE 0)
        /\ Count(c, "net") = nnet[c] + (IF last = "net" THEN 1 ELSE 0)

\* The last answer to fetch c is one that guarded_get returns on.
GivenUp(c) ==
    LET last == sent[c][Len(sent[c])]
    IN  \/ last \in {"ok", "refused"}
        \/ last = "limited" /\ n429[c] = Backoff
        \/ last = "net" /\ nnet[c] = NetRetries

Budget(c) ==
    IF phase[c] \in {"holding", "inserting"}
    THEN AllButLastUsed(c) /\ (phase[c] = "inserting" => GivenUp(c))
    ELSE AllUsed(c)

Budgets == \A c \in Calls : Budget(c)

CallsInv ==
    /\ TypeOK /\ PermitsAdd /\ QueueNamesWaiters /\ IdleOutside
    /\ TimersRun /\ SpendingHeld /\ Budgets

---------------------------------------------------------------------------
(* The invariant of retention.                                             *)

Rows == [type : SignalTypes \cup {"article"}, age : Nat, stored : BOOLEAN, text : BOOLEAN]
History == [old : BOOLEAN, drivers : Formats]

\* The steps that a run without a failure has behind it have cleared the row.
ClearedSoFar ==
    sound /\ row.stored =>
        \A n \in 1 .. 6 : step = 0 \/ n < step => ~Deletes(n) /\ (Blanks(n) => ~row.text)

\* The batches so far have compacted every row up to the cursor, and only rows past the
\* cutoff are compact.
CompactSoFar ==
    /\ \A i \in DOMAIN hist : hist[i].drivers = "compact" => hist[i].old
    /\ batch.upto <= Len(hist)
    /\ step = 7 => /\ batch.last_id <= Len(hist)
                   /\ \A i \in 1 .. batch.last_id : hist[i].old => hist[i].drivers # "verbose"
    /\ sound /\ step = 0 => \A i \in 1 .. batch.upto : hist[i].old => hist[i].drivers # "verbose"

KeptTyped ==
    /\ RowsOK /\ row \in Rows
    /\ batch \in [last_id : 0 .. MaxRows, upto : 0 .. MaxRows]

RetentionInv == KeptTyped /\ KeptLongEnough /\ ClearedSoFar /\ CompactSoFar

\* The days of the readers.
LEMMA NeededDays ==
    /\ SessionDays(50) = 80 /\ SessionDays(500 \div 25) = 38 /\ SessionDays(90 \div 2) = 73
BY DEF SessionDays

\* What a step deletes or blanks is older than any reader asks for.
LEMMA DeletedAreOld ==
    ASSUME KeptTyped, NEW n \in 1 .. 6
    PROVE  (Deletes(n) => Unread) /\ (Blanks(n) => row.age > 2)
<1>1. row.age \in Nat BY DEF KeptTyped, Rows
<1>2. Blanks(n) => row.age > 2
    BY <1>1 DEF Blanks, strip_article_text_before, ARTICLE_TEXT_COMPACT_DAYS
<1>3. Deletes(n) => Unread
    <2> SUFFICES ASSUME Deletes(n), NEW r \in Readers, row.type \in r.types PROVE row.age > r.days
        BY DEF Unread
    <2> DEFINE of == row.type
    <2>0. \/ r = [types |-> OHLCV_SIGNAL_TYPES, days |-> SessionDays(50)]
          \/ r = [types |-> DERIVED_INTRADAY_SIGNAL_TYPES, days |-> SessionDays(500 \div 25)]
          \/ r = [types |-> QUOTE_SIGNAL_TYPES, days |-> 0]
          \/ r = [types |-> RESEARCH_RETAIN_SIGNAL_TYPES, days |-> MaxAge]
          \/ r = [types |-> OtherTypes, days |-> SessionDays(90 \div 2)]
          \/ r = [types |-> {"article"}, days |-> 15]
        BY Zenon DEF Readers
    <2>1. \/ r.days = 80 /\ of \in OHLCV_SIGNAL_TYPES
          \/ r.days = 38 /\ of \in DERIVED_INTRADAY_SIGNAL_TYPES
          \/ r.days = 0 /\ of \in QUOTE_SIGNAL_TYPES
          \/ of \in RESEARCH_RETAIN_SIGNAL_TYPES
          \/ r.days = 73 /\ of \in OtherTypes
          \/ r.days = 15 /\ of = "article"
        BY <2>0, NeededDays
    <2>2. \/ row.age > 365 /\ of \in OHLCV_SIGNAL_TYPES
          \/ row.age > 45 /\ of \in DERIVED_INTRADAY_SIGNAL_TYPES
          \/ row.age > 14 /\ of \in QUOTE_SIGNAL_TYPES
          \/ row.age > 90 /\ of \in SignalTypes \ CatchAll
          \/ row.age > 365 /\ of = "article"
        BY DEF Deletes, purge_signals_before, purge_articles_before, OHLCV_RETENTION_DAYS,
               DERIVED_RETENTION_DAYS, QUOTE_RETENTION_DAYS, SIGNAL_RETENTION_DAYS,
               ARTICLE_RETENTION_DAYS
    <2> HIDE DEF of
    <2> QED BY <1>1, <2>1, <2>2
            DEF CatchAll, SignalTypes, OHLCV_SIGNAL_TYPES, DERIVED_INTRADAY_SIGNAL_TYPES, QUOTE_SIGNAL_TYPES,
                RESEARCH_RETAIN_SIGNAL_TYPES, OtherTypes
<1> QED BY <1>2, <1>3

\* Conditions are true or false.
LEMMA ConditionsAreBoolean ==
    ASSUME NEW n, NEW s \in BOOLEAN, NEW x \in BOOLEAN
    PROVE  /\ (s /\ ~Deletes(n)) \in BOOLEAN
           /\ (x /\ ~Deletes(n) /\ ~Blanks(n)) \in BOOLEAN
<1>1. (s /\ ~Deletes(n)) = TRUE \/ (s /\ ~Deletes(n)) = FALSE BY Zenon
<1>2. (x /\ ~Deletes(n) /\ ~Blanks(n)) = TRUE \/ (x /\ ~Deletes(n) /\ ~Blanks(n)) = FALSE BY Zenon
<1> QED BY <1>1, <1>2

\* What one of the first six steps makes of the row.
LEMMA PurgeMoves ==
    ASSUME KeptTyped, Purge
    PROVE  /\ row' \in Rows /\ row'.type = row.type /\ row'.age = row.age
           /\ row'.stored <=> row.stored /\ ~Deletes(step)
           /\ row'.text <=> row.text /\ ~Deletes(step) /\ ~Blanks(step)
<1> DEFINE s == row.stored /\ ~Deletes(step)
           x == row.text /\ ~Deletes(step) /\ ~Blanks(step)
<1>1. row.stored \in BOOLEAN /\ row.text \in BOOLEAN /\ row \in Rows BY DEF KeptTyped, Rows
<1>2. s \in BOOLEAN /\ x \in BOOLEAN BY <1>1, ConditionsAreBoolean
<1>3. row' = [row EXCEPT !.stored = s, !.text = x] BY DEF Purge
<1> HIDE DEF s, x
<1>4. /\ row' \in Rows /\ row'.type = row.type /\ row'.age = row.age
      /\ row'.stored = s /\ row'.text = x
    BY <1>1, <1>2, <1>3 DEF Rows
<1> QED BY <1>4 DEF s, x

\* A finite set of numbers has a least and a greatest element: what lies below a member
\* shrinks with it, and proper inclusion is well-founded on the subsets of a finite set.
LEMMA Greatest ==
    ASSUME NEW S, IsFiniteSet(S), S # {}, NEW f \in [S -> Int]
    PROVE  \E a \in S : \A b \in S : f[b] <= f[a]
<1> DEFINE Above(a) == {b \in S : f[a] < f[b]}
           T == {Above(a) : a \in S}
<1>1. T \subseteq SUBSET S /\ T # {}
    <2>1. PICK a \in S : TRUE OBVIOUS
    <2>2. Above(a) \in T OBVIOUS
    <2> QED BY <2>2
<1> HIDE DEF T
<1>2. PICK x \in T : \A y \in T : ~ (<<y, x>> \in StrictSubsetOrdering(S))
    <2>1. IsWellFoundedOn(StrictSubsetOrdering(S), SUBSET S)
        BY FS_StrictSubsetOrderingWellFounded, FS_FiniteSubsetsOfFinite
    <2> QED BY <1>1, <2>1, WFMin
<1>3. PICK a \in S : x = Above(a) BY DEF T
<1>4. ASSUME NEW b \in S, f[a] < f[b] PROVE FALSE
    <2>1. Above(b) \in T BY DEF T
    <2>2. Above(b) \subseteq Above(a) /\ b \in Above(a) /\ b \notin Above(b) BY <1>4
    <2> QED BY <1>1, <1>2, <1>3, <2>1, <2>2 DEF StrictSubsetOrdering
<1> QED BY <1>4

\* The same of a set of natural numbers.
LEMMA Extremes ==
    ASSUME NEW S \in SUBSET Nat, IsFiniteSet(S), S # {}
    PROVE  /\ \E i \in S : \A j \in S : j <= i
           /\ \E i \in S : \A j \in S : i <= j
<1> DEFINE same == [i \in S |-> i]
           negated == [i \in S |-> 0 - i]
<1>1. \A i \in S : i \in Int OBVIOUS
<1>2. \E i \in S : \A j \in S : j <= i
    <2>1. same \in [S -> Int] /\ \A i \in S : same[i] = i OBVIOUS
    <2> HIDE DEF same
    <2>2. \E i \in S : \A j \in S : same[j] <= same[i] BY <2>1, Greatest
    <2> QED BY <2>1, <2>2
<1>3. \E i \in S : \A j \in S : i <= j
    <2>1. negated \in [S -> Int] /\ \A i \in S : negated[i] = 0 - i OBVIOUS
    <2> HIDE DEF negated
    <2>2. \E i \in S : \A j \in S : negated[j] <= negated[i] BY <2>1, Greatest
    <2> QED BY <1>1, <2>1, <2>2
<1> QED BY <1>2, <1>3

\* A batch that is not full takes all that is left; a full one takes all up to its last id.
LEMMA BatchTakes ==
    ASSUME KeptTyped, NEW last \in Nat
    PROVE  /\ Batch(last) \subseteq CompactBatch(last)
           /\ Cardinality(Batch(last)) < batch_size => Batch(last) = CompactBatch(last)
           /\ ~(Cardinality(Batch(last)) < batch_size) =>
                \E m \in Batch(last) :
                    /\ \A i \in Batch(last) : i <= m
                    /\ \A i \in CompactBatch(last) : i <= m => i \in Batch(last)
<1> DEFINE S == CompactBatch(last)
           B == Batch(last)
           Below(i) == {j \in S : j < i}
<1>1. S \subseteq Nat /\ IsFiniteSet(S)
    <2>1. Len(hist) \in Nat /\ DOMAIN hist = 1 .. Len(hist) BY DEF KeptTyped, RowsOK
    <2>2. IsFiniteSet(1 .. Len(hist)) BY <2>1, FS_Interval
    <2>3. S \subseteq 1 .. Len(hist) BY <2>1 DEF CompactBatch
    <2> QED BY <2>1, <2>2, <2>3, FS_Subset
<1>2. B \subseteq S /\ \A i \in S : i \in B <=> Cardinality(Below(i)) < batch_size
    BY DEF Batch
<1>3. batch_size \in Nat /\ batch_size > 0 BY RetentionAssumption
<1> HIDE DEF S, B
<1>4. ASSUME NEW i \in S PROVE IsFiniteSet(Below(i)) /\ Cardinality(Below(i)) \in Nat
    <2>1. Below(i) \in SUBSET S OBVIOUS
    <2> HIDE DEF Below
    <2>2. IsFiniteSet(Below(i)) BY <1>1, <2>1, FS_Subset
    <2> QED BY <2>2, FS_CardinalityType
<1>5. IsFiniteSet(B) /\ Cardinality(B) \in Nat BY <1>1, <1>2, FS_Subset, FS_CardinalityType
<1>6. ASSUME NEW i \in S, NEW j \in S, i <= j PROVE Cardinality(Below(i)) <= Cardinality(Below(j))
    <2>1. ASSUME NEW k \in S, k < i PROVE k < j
        <3>1. i \in Nat /\ j \in Nat /\ k \in Nat BY <1>1
        <3> QED BY <1>6, <2>1, <3>1
    <2>2. Below(i) \in SUBSET Below(j) BY <2>1
    <2>3. IsFiniteSet(Below(j)) BY <1>4
    <2> HIDE DEF Below
    <2> QED BY <2>2, <2>3, FS_Subset
<1>7. ASSUME Cardinality(B) < batch_size PROVE B = S
    <2>0. SUFFICES ASSUME S \ B # {} PROVE FALSE
        <3>1. ASSUME S \ B = {} PROVE B = S BY <1>2, <3>1
        <3> QED BY <3>1
    <2>1. PICK i \in S \ B : \A j \in S \ B : i <= j
        <3>1. IsFiniteSet(S \ B) /\ S \ B \in SUBSET Nat BY <1>1, FS_Subset
        <3> QED BY <2>0, <3>1, Extremes
    <2>2. Below(i) \in SUBSET B
        <3> SUFFICES ASSUME NEW j \in S, j < i PROVE j \in B OBVIOUS
        <3>1. i \in Nat /\ j \in Nat BY <1>1
        <3> QED BY <2>1, <3>1
    <2>3. Cardinality(Below(i)) <= Cardinality(B) BY <1>5, <2>2, FS_Subset
    <2>4. ~(Cardinality(Below(i)) < batch_size) BY <1>2
    <2>5. Cardinality(Below(i)) \in Nat BY <1>4
    <2> HIDE DEF Below
    <2> QED BY <1>3, <1>5, <1>7, <2>3, <2>4, <2>5
<1>8. ASSUME ~(Cardinality(B) < batch_size)
      PROVE  \E m \in B : (\A i \in B : i <= m) /\ (\A i \in S : i <= m => i \in B)
    <2>1. B # {}
        <3>1. B = {} => Cardinality(B) = 0 BY FS_EmptySet
        <3> QED BY <1>3, <1>8, <3>1
    <2>2. PICK m \in B : \A i \in B : i <= m BY <1>1, <1>2, <1>5, <2>1, Extremes
    <2>3. ASSUME NEW i \in S, i <= m PROVE i \in B
        <3>1. m \in S /\ Cardinality(Below(m)) < batch_size BY <1>2
        <3>2. Cardinality(Below(i)) <= Cardinality(Below(m)) BY <1>6, <2>3, <3>1
        <3>3. Cardinality(Below(i)) \in Nat /\ Cardinality(Below(m)) \in Nat BY <1>4, <3>1
        <3> HIDE DEF Below
        <3>4. Cardinality(Below(i)) < batch_size BY <1>3, <3>1, <3>2, <3>3
        <3> QED BY <1>2, <3>4
    <2> QED BY <2>2, <2>3
<1> QED BY <1>2, <1>7, <1>8 DEF S, B

\* What a batch makes of the table.
LEMMA CompactMoves ==
    ASSUME KeptTyped, Compact
    PROVE  /\ hist' \in Seq(History) /\ Len(hist') = Len(hist)
           /\ \A i \in 1 .. Len(hist) :
                 /\ hist'[i].old = hist[i].old
                 /\ hist'[i].drivers = IF i \in Batch(batch.last_id) THEN "compact" ELSE hist[i].drivers
<1> DEFINE n == Len(hist)
           ids == Batch(batch.last_id)
           Done(i) == IF i \in ids THEN [hist[i] EXCEPT !.drivers = "compact"] ELSE hist[i]
<1>0. hist \in Seq(History) BY DEF KeptTyped, RowsOK, History
<1>1. n \in Nat /\ DOMAIN hist = 1 .. n /\ \A i \in 1 .. n : hist[i] \in History BY <1>0
<1>2. hist' = [i \in 1 .. n |-> Done(i)] BY <1>1 DEF Compact
<1>3. ASSUME NEW i \in 1 .. n
      PROVE  /\ Done(i) \in History /\ Done(i).old = hist[i].old
             /\ Done(i).drivers = IF i \in ids THEN "compact" ELSE hist[i].drivers
    <2>1. hist[i] \in History BY <1>1
    <2> HIDE DEF ids
    <2> QED BY <2>1 DEF History, Formats
<1> HIDE DEF Done, ids, n
<1>4. hist' \in [1 .. n -> History] BY <1>2, <1>3
<1>5. hist' \in Seq(History) /\ Len(hist') = n BY <1>1, <1>4
<1> QED BY <1>2, <1>3, <1>5 DEF ids, n

\* An inserted row is appended, and not compact.
LEMMA InsertMoves ==
    ASSUME KeptTyped, InsertRow
    PROVE  /\ hist' \in Seq(History) /\ Len(hist') = Len(hist) + 1
           /\ \A i \in 1 .. Len(hist) : hist'[i] = hist[i]
           /\ hist'[Len(hist) + 1].drivers # "compact"
<1>1. hist \in Seq(History) BY DEF KeptTyped, RowsOK, History
<1>2. PICK r \in [old : BOOLEAN, drivers : {"verbose", "empty"}] : hist' = Append(hist, r)
    BY DEF InsertRow
<1>3. r \in History /\ r.drivers # "compact" BY DEF History, Formats
<1> QED BY <1>1, <1>2, <1>3

\* The steps keep the types.
LEMMA RetentionTyped == ASSUME RetentionInv, [RetentionNext]_kept PROVE KeptTyped'
<1>0. /\ KeptTyped /\ row \in Rows /\ row.age \in 0 .. MaxAge
      /\ hist \in Seq(History) /\ Len(hist) \in 0 .. MaxRows
      /\ step \in 0 .. Steps /\ sound \in BOOLEAN
      /\ batch \in [last_id : 0 .. MaxRows, upto : 0 .. MaxRows]
    BY DEF RetentionInv, KeptTyped, RowsOK, History
<1>a. MaxAge \in Nat /\ MaxRows \in Nat BY RetentionAssumption
<1>b. SUFFICES /\ row' \in Rows /\ row'.age \in 0 .. MaxAge
               /\ hist' \in Seq(History) /\ Len(hist') <= MaxRows
               /\ step' \in 0 .. Steps /\ sound' \in BOOLEAN
               /\ batch' \in [last_id : 0 .. MaxRows, upto : 0 .. MaxRows]
    BY DEF KeptTyped, RowsOK, Rows, History
<1>1. CASE Day
    <2>1. row' = [row EXCEPT !.age = row.age + 1] BY <1>1 DEF Day
    <2>2. row' \in Rows /\ row'.age = row.age + 1 BY <1>0, <2>1 DEF Rows
    <2> QED BY <1>0, <1>a, <1>1, <2>2 DEF Day, Steps
<1>2. CASE Purge
    <2>1. row' \in Rows /\ row'.age = row.age BY <1>0, <1>2, PurgeMoves
    <2>2. batch' \in [last_id : 0 .. MaxRows, upto : 0 .. MaxRows]
        BY <1>0, <1>a, <1>2 DEF Purge
    <2> QED BY <1>0, <1>2, <2>1, <2>2 DEF Purge, Steps
<1>3. CASE Compact
    <2>1. hist' \in Seq(History) /\ Len(hist') = Len(hist) BY <1>0, <1>3, CompactMoves
    <2>2. CASE Cardinality(Batch(batch.last_id)) < batch_size
        BY <1>0, <1>3, <2>1, <2>2 DEF Compact, Steps
    <2>3. CASE ~(Cardinality(Batch(batch.last_id)) < batch_size)
        <3> DEFINE ids == Batch(batch.last_id)
                   last == CHOOSE i \in ids : \A j \in ids : j <= i
        <3>1. batch' = [batch EXCEPT !.last_id = last] BY <1>3, <2>3 DEF Compact
        <3>2. last \in ids
            <4>1. \E i \in ids : \A j \in ids : j <= i BY <1>0, <2>3, BatchTakes
            <4> HIDE DEF ids
            <4> QED BY <4>1
        <3>3. ids \subseteq 1 .. Len(hist) BY <1>0 DEF Batch, CompactBatch
        <3> HIDE DEF ids, last
        <3>4. last \in 0 .. MaxRows BY <1>0, <1>a, <3>2, <3>3
        <3> QED BY <1>0, <1>3, <2>1, <2>3, <3>1, <3>4 DEF Compact
    <2> QED BY <2>2, <2>3
<1>4. CASE Fails
    <2>1. batch' \in [last_id : 0 .. MaxRows, upto : 0 .. MaxRows]
        BY <1>0, <1>a, <1>4 DEF Fails
    <2>2. sound' \in BOOLEAN BY <1>4 DEF Fails
    <2>3. row' = row /\ hist' = hist /\ step' \in 0 .. Steps BY <1>0, <1>4 DEF Fails, Steps
    <2> QED BY <1>0, <2>1, <2>2, <2>3
<1>5. CASE CutShort
    <2>1. sound' \in BOOLEAN BY <1>5 DEF CutShort
    <2>2. row' = row /\ hist' = hist /\ batch' = batch /\ step' \in 0 .. Steps
        BY <1>5 DEF CutShort, Steps
    <2> QED BY <1>0, <2>1, <2>2
<1>6. CASE InsertRow
    <2>1. hist' \in Seq(History) /\ Len(hist') = Len(hist) + 1 BY <1>0, <1>6, InsertMoves
    <2> QED BY <1>0, <1>a, <1>6, <2>1 DEF InsertRow
<1>7. CASE UNCHANGED kept BY <1>0, <1>7 DEF kept
<1> QED BY <1>1, <1>2, <1>3, <1>4, <1>5, <1>6, <1>7 DEF RetentionNext

\* What nobody asks for any more stays so.
LEMMA UnreadStays ==
    ASSUME Unread, row.age \in Nat, row'.age \in Nat, row.age <= row'.age, row'.type = row.type
    PROVE  Unread'
<1> SUFFICES ASSUME NEW r \in Readers, row.type \in r.types PROVE r.days < row'.age
    BY DEF Unread
<1>1. r.days \in Nat
    <2>1. \/ r = [types |-> OHLCV_SIGNAL_TYPES, days |-> SessionDays(50)]
          \/ r = [types |-> DERIVED_INTRADAY_SIGNAL_TYPES, days |-> SessionDays(500 \div 25)]
          \/ r = [types |-> QUOTE_SIGNAL_TYPES, days |-> 0]
          \/ r = [types |-> RESEARCH_RETAIN_SIGNAL_TYPES, days |-> MaxAge]
          \/ r = [types |-> OtherTypes, days |-> SessionDays(90 \div 2)]
          \/ r = [types |-> {"article"}, days |-> 15]
        BY Zenon DEF Readers
    <2>2. MaxAge \in Nat BY RetentionAssumption
    <2> QED BY <2>1, <2>2, NeededDays
<1>2. r.days < row.age BY DEF Unread
<1> QED BY <1>1, <1>2

\* The statements look at the type of a row and its age.
LEMMA StatementsStay ==
    ASSUME row'.type = row.type, row'.age = row.age, NEW n
    PROVE  (Deletes(n)' <=> Deletes(n)) /\ (Blanks(n)' <=> Blanks(n))
BY DEF Deletes, Blanks, purge_signals_before, purge_articles_before, strip_article_text_before

\* Only a day and the first six steps change the row.
LEMMA RowStays == ASSUME [RetentionNext]_kept, ~Day, ~Purge PROVE row' = row
BY DEF RetentionNext, Compact, Fails, CutShort, InsertRow, kept

\* Nothing is deleted that is still asked for.
LEMMA StepKeptLong == RetentionInv /\ [RetentionNext]_kept => KeptLongEnough'
<1> SUFFICES ASSUME RetentionInv, [RetentionNext]_kept PROVE KeptLongEnough'
    OBVIOUS
<1>0. /\ KeptTyped /\ KeptLongEnough /\ row \in Rows /\ row.age \in Nat /\ step \in Nat
      /\ row' \in Rows /\ row'.age \in Nat
    BY RetentionTyped DEF RetentionInv, KeptTyped, RowsOK, Rows
<1>1. CASE Day
    <2>1. row' = [row EXCEPT !.age = row.age + 1] BY <1>1 DEF Day
    <2>2. /\ row'.age = row.age + 1 /\ row'.type = row.type
          /\ row'.stored = row.stored /\ row'.text = row.text
        BY <1>0, <2>1 DEF Rows
    <2>3. row.age <= row'.age BY <1>0, <2>2
    <2>4. Unread => Unread' BY <1>0, <2>2, <2>3, UnreadStays
    <2> QED BY <1>0, <2>2, <2>3, <2>4 DEF KeptLongEnough
<1>2. CASE Purge
    <2>1. /\ row'.type = row.type /\ row'.age = row.age
          /\ row'.stored <=> row.stored /\ ~Deletes(step)
          /\ row'.text <=> row.text /\ ~Deletes(step) /\ ~Blanks(step)
        BY <1>0, <1>2, PurgeMoves
    <2>2. step \in 1 .. 6 BY <1>2 DEF Purge
    <2>3. (Deletes(step) => Unread) /\ (Blanks(step) => row.age > 2) BY <1>0, <2>2, DeletedAreOld
    <2>4. Unread => Unread' BY <1>0, <2>1, UnreadStays
    <2>5. ~row'.stored => Unread' BY <1>0, <2>1, <2>3, <2>4 DEF KeptLongEnough
    <2>6. row'.stored /\ ~row'.text => row'.age > 2 BY <1>0, <2>1, <2>3 DEF KeptLongEnough
    <2> QED BY <2>5, <2>6 DEF KeptLongEnough
<1>3. CASE ~Day /\ ~Purge
    <2>1. row' = row BY <1>3, RowStays
    <2> QED BY <1>0, <2>1 DEF KeptLongEnough, Unread
<1> QED BY <1>1, <1>2, <1>3

\* Every step of a run without a failure clears what is past its days.
LEMMA StepCleared == RetentionInv /\ [RetentionNext]_kept => ClearedSoFar'
<1> SUFFICES ASSUME RetentionInv, [RetentionNext]_kept, sound', row'.stored,
                    NEW n \in 1 .. 6, step' = 0 \/ n < step'
             PROVE  ~Deletes(n)' /\ (Blanks(n)' => ~row'.text)
    BY DEF ClearedSoFar
<1>0. KeptTyped /\ ClearedSoFar /\ step \in 0 .. 7 /\ step' \in 0 .. 7
    BY RetentionTyped DEF RetentionInv, KeptTyped, RowsOK, Steps
<1>1. ~Day BY DEF Day
<1>2. CASE Purge
    <2>1. /\ row'.type = row.type /\ row'.age = row.age
          /\ row'.stored <=> row.stored /\ ~Deletes(step)
          /\ row'.text <=> row.text /\ ~Deletes(step) /\ ~Blanks(step)
        BY <1>0, <1>2, PurgeMoves
    <2>2. sound /\ step \in 1 .. 6 /\ step' = step + 1 BY <1>2 DEF Purge
    <2>3. n < step \/ n = step BY <2>2
    <2>4. ~Deletes(n) /\ (Blanks(n) => ~row'.text) BY <1>0, <2>1, <2>2, <2>3 DEF ClearedSoFar
    <2> QED BY <2>1, <2>4, StatementsStay
<1>3. CASE ~Purge
    <2>1. row' = row BY <1>1, <1>3, RowStays
    <2>2. sound /\ (step = 0 \/ n < step)
        <3>1. CASE Compact BY <1>0, <3>1 DEF Compact
        <3>2. CASE Fails BY <3>2 DEF Fails
        <3>3. CASE CutShort BY <3>3 DEF CutShort
        <3>4. CASE InsertRow BY <3>4 DEF InsertRow
        <3>5. CASE UNCHANGED kept BY <3>5 DEF kept
        <3> QED BY <1>1, <1>3, <3>1, <3>2, <3>3, <3>4, <3>5 DEF RetentionNext
    <2>3. ~Deletes(n) /\ (Blanks(n) => ~row.text) BY <1>0, <2>1, <2>2 DEF ClearedSoFar
    <2> QED BY <2>1, <2>3, StatementsStay
<1> QED BY <1>2, <1>3

\* A batch compacts the rows up to its last id, the last one all that are left.
LEMMA BatchCompacts ==
    ASSUME KeptTyped, CompactSoFar, Compact
    PROVE  CompactSoFar'
<1> DEFINE n == Len(hist)
           last == batch.last_id
           ids == Batch(last)
<1>0. /\ n \in Nat /\ DOMAIN hist = 1 .. n /\ last \in Nat /\ batch.upto \in Nat /\ batch.upto <= n
      /\ step = 7 /\ last <= n /\ batch \in [last_id : 0 .. MaxRows, upto : 0 .. MaxRows]
      /\ \A i \in 1 .. last : hist[i].old => hist[i].drivers # "verbose"
      /\ \A i \in 1 .. n : hist[i].drivers = "compact" => hist[i].old
    BY DEF KeptTyped, RowsOK, CompactSoFar, Compact
<1>1. /\ Len(hist') = n /\ DOMAIN hist' = 1 .. n
      /\ \A i \in 1 .. n : /\ hist'[i].old = hist[i].old
                           /\ hist'[i].drivers = IF i \in ids THEN "compact" ELSE hist[i].drivers
    BY <1>0, CompactMoves
<1>2. ids \subseteq CompactBatch(last) BY <1>0, BatchTakes
<1>3. \A i : i \in CompactBatch(last) <=>
              i \in 1 .. n /\ last < i /\ hist[i].old /\ hist[i].drivers = "verbose"
    BY <1>0 DEF CompactBatch
<1>4. \A i \in 1 .. n : hist'[i].drivers = "compact" => hist'[i].old
    BY <1>0, <1>1, <1>2, <1>3
<1>5. CASE Cardinality(ids) < batch_size
    <2>1. ids = CompactBatch(last) BY <1>0, <1>5, BatchTakes
    <2>2. step' = 0 /\ batch' = batch BY <1>5 DEF Compact
    <2> HIDE DEF ids, last, n
    <2>3. ASSUME NEW i \in 1 .. n, hist'[i].old PROVE hist'[i].drivers # "verbose"
        <3>1. CASE i \in ids BY <1>1, <3>1
        <3>2. CASE i \notin ids BY <1>0, <1>1, <1>3, <2>1, <2>3, <3>2
        <3> QED BY <3>1, <3>2
    <2>4. \A i \in 1 .. batch.upto : i \in 1 .. n BY <1>0
    <2> QED BY <1>0, <1>1, <1>4, <2>2, <2>3, <2>4 DEF CompactSoFar
<1>6. CASE ~(Cardinality(ids) < batch_size)
    <2> DEFINE m == CHOOSE i \in ids : \A j \in ids : j <= i
    <2>1. batch' = [batch EXCEPT !.last_id = m] /\ step' = 7 BY <1>0, <1>6 DEF Compact
    <2>2. PICK k \in ids : /\ \A i \in ids : i <= k
                           /\ \A i \in CompactBatch(last) : i <= k => i \in ids
        BY <1>0, <1>6, BatchTakes
    <2> HIDE DEF ids, last, n
    <2>3. m \in ids /\ \A i \in ids : i <= m BY <2>2
    <2>4. \A i \in ids : i \in 1 .. n BY <1>2, <1>3
    <2> HIDE DEF m
    <2>5. m = k /\ m \in 1 .. n BY <2>2, <2>3, <2>4
    <2>6. batch'.last_id = m /\ batch'.upto = batch.upto BY <1>0, <2>1
    <2>7. ASSUME NEW i \in 1 .. m, hist'[i].old PROVE hist'[i].drivers # "verbose"
        <3>0. i \in 1 .. n BY <1>0, <2>5
        <3>1. CASE i \in ids BY <1>1, <3>0, <3>1
        <3>2. CASE i \notin ids BY <1>0, <1>1, <1>3, <2>2, <2>5, <2>7, <3>0, <3>2
        <3> QED BY <3>1, <3>2
    <2>8. m <= n BY <1>0, <2>5
    <2> QED BY <1>0, <1>1, <1>4, <2>1, <2>6, <2>7, <2>8 DEF CompactSoFar
<1> QED BY <1>5, <1>6

\* What is inserted while the batches go on is behind the cursor, or for the next run.
LEMMA StepCompact == RetentionInv /\ [RetentionNext]_kept => CompactSoFar'
<1> SUFFICES ASSUME RetentionInv, [RetentionNext]_kept PROVE CompactSoFar'
    OBVIOUS
<1>0. /\ KeptTyped /\ CompactSoFar /\ Len(hist) \in Nat /\ DOMAIN hist = 1 .. Len(hist)
      /\ batch.upto \in Nat /\ batch.last_id \in Nat /\ step \in 0 .. 7
    BY DEF RetentionInv, KeptTyped, RowsOK, Steps
<1>1. CASE Day BY <1>0, <1>1 DEF Day, CompactSoFar
<1>2. CASE Purge
    <2>1. hist' = hist /\ step \in 1 .. 6 /\ step' = step + 1 BY <1>2 DEF Purge
    <2>2. CASE step = 6
        <3>1. batch' = [last_id |-> 0, upto |-> Len(hist)] BY <1>2, <2>2 DEF Purge
        <3>2. batch'.last_id = 0 /\ batch'.upto = Len(hist) /\ step' = 7 BY <2>1, <2>2, <3>1
        <3> QED BY <1>0, <2>1, <3>2 DEF CompactSoFar
    <2>3. CASE step # 6
        <3>1. batch' = batch /\ step' # 7 /\ step' # 0 BY <1>2, <2>1, <2>3 DEF Purge
        <3> QED BY <1>0, <2>1, <3>1 DEF CompactSoFar
    <2> QED BY <2>2, <2>3
<1>3. CASE Compact BY <1>0, <1>3, BatchCompacts
<1>4. CASE Fails
    <2>1. hist' = hist /\ ~sound' BY <1>4 DEF Fails
    <2>2. CASE step = 6
        <3>1. batch' = [last_id |-> 0, upto |-> Len(hist)] BY <1>4, <2>2 DEF Fails
        <3>2. batch'.last_id = 0 /\ batch'.upto = Len(hist) BY <3>1
        <3> QED BY <1>0, <2>1, <3>2 DEF CompactSoFar
    <2>3. CASE step # 6
        <3>1. batch' = batch /\ step' # 7 BY <1>0, <1>4, <2>3 DEF Fails, Steps
        <3> QED BY <1>0, <2>1, <3>1 DEF CompactSoFar
    <2> QED BY <2>2, <2>3
<1>5. CASE CutShort
    <2>1. hist' = hist /\ ~sound' /\ batch' = batch /\ step' = 0 BY <1>5 DEF CutShort
    <2> QED BY <1>0, <2>1 DEF CompactSoFar
<1>6. CASE InsertRow
    <2> DEFINE n == Len(hist)
    <2>1. /\ Len(hist') = n + 1 /\ \A i \in 1 .. n : hist'[i] = hist[i]
          /\ hist'[n + 1].drivers # "compact" /\ hist' \in Seq(History)
        BY <1>0, <1>6, InsertMoves
    <2>2. DOMAIN hist' = 1 .. n + 1 BY <2>1
    <2>3. step' = step /\ sound' = sound /\ batch' = batch BY <1>6 DEF InsertRow
    <2> HIDE DEF n
    <2>4. n \in Nat /\ DOMAIN hist = 1 .. n /\ Len(hist) = n BY <1>0 DEF n
    <2>5. \A i \in DOMAIN hist' : hist'[i].drivers = "compact" => hist'[i].old
        <3> SUFFICES ASSUME NEW i \in 1 .. n + 1, hist'[i].drivers = "compact" PROVE hist'[i].old
            BY <2>2
        <3>1. i \in 1 .. n BY <2>1, <2>4
        <3> QED BY <1>0, <2>1, <2>4, <3>1 DEF CompactSoFar
    <2>6. batch'.upto <= Len(hist') BY <1>0, <2>1, <2>3, <2>4 DEF CompactSoFar
    <2>7. step' = 7 => /\ batch'.last_id <= Len(hist')
                       /\ \A i \in 1 .. batch'.last_id : hist'[i].old => hist'[i].drivers # "verbose"
        <3> SUFFICES ASSUME step = 7
                     PROVE  /\ batch.last_id <= n + 1
                            /\ \A i \in 1 .. batch.last_id : hist'[i].old => hist'[i].drivers # "verbose"
            BY <2>1, <2>3
        <3>1. batch.last_id <= n BY <2>4 DEF CompactSoFar, RetentionInv
        <3>2. \A i \in 1 .. batch.last_id : i \in 1 .. n BY <1>0, <2>4, <3>1
        <3> QED BY <1>0, <2>1, <2>4, <3>1, <3>2 DEF CompactSoFar
    <2>8. sound' /\ step' = 0 =>
             \A i \in 1 .. batch'.upto : hist'[i].old => hist'[i].drivers # "verbose"
        <3>1. \A i \in 1 .. batch.upto : i \in 1 .. n BY <1>0, <2>4 DEF CompactSoFar
        <3> QED BY <1>0, <2>1, <2>3, <3>1 DEF CompactSoFar
    <2> QED BY <2>5, <2>6, <2>7, <2>8 DEF CompactSoFar
<1>7. CASE UNCHANGED kept BY <1>0, <1>7 DEF kept, CompactSoFar
<1> QED BY <1>1, <1>2, <1>3, <1>4, <1>5, <1>6, <1>7 DEF RetentionNext

\* Retention keeps what is still read and clears what is past its days, for any age of a
\* row, size of the table and of a batch, whichever steps fail or are never reached and
\* whatever is inserted meanwhile.
THEOREM RetentionExact == RetentionSpec => []RetentionIsExact
<1>1. RetentionInit => RetentionInv
    <2> SUFFICES ASSUME RetentionInit PROVE RetentionInv OBVIOUS
    <2>1. MaxAge \in Nat /\ MaxRows \in Nat BY RetentionAssumption
    <2>2. /\ row \in [type : SignalTypes \cup {"article"}, age : {0}, stored : {TRUE}, text : {TRUE}]
          /\ step = 0 /\ ~sound /\ hist = <<>> /\ batch = [last_id |-> 0, upto |-> 0]
        BY DEF RetentionInit, NoBatch
    <2>3. /\ row \in Rows /\ row.age = 0 /\ row.stored /\ row.text
          /\ row.type \in SignalTypes \cup {"article"}
        <3>1. /\ row = [type |-> row.type, age |-> row.age, stored |-> row.stored, text |-> row.text]
              /\ row.type \in SignalTypes \cup {"article"} /\ row.age = 0
              /\ row.stored = TRUE /\ row.text = TRUE
            BY <2>2
        <3>2. PICK s \in BOOLEAN, x \in BOOLEAN : s = TRUE /\ x = TRUE OBVIOUS
        <3>3. row = [type |-> row.type, age |-> 0, stored |-> s, text |-> x] BY <3>1, <3>2
        <3>4. row \in Rows BY <3>1, <3>3 DEF Rows
        <3> QED BY <3>1, <3>4
    <2>4. hist \in Seq(History) /\ Len(hist) = 0 /\ DOMAIN hist = {} BY <2>2
    <2>5. batch \in [last_id : 0 .. MaxRows, upto : 0 .. MaxRows] BY <2>1, <2>2
    <2>6. sound \in BOOLEAN BY DEF RetentionInit
    <2>7. KeptTyped
        <3>1. row.stored \in BOOLEAN /\ row.text \in BOOLEAN BY <2>3 DEF Rows
        <3> QED BY <2>1, <2>2, <2>3, <2>4, <2>5, <2>6, <3>1 DEF KeptTyped, RowsOK, History, Steps
    <2>8. KeptLongEnough BY <2>3 DEF KeptLongEnough
    <2>9. ClearedSoFar BY <2>2 DEF ClearedSoFar
    <2>10. CompactSoFar BY <2>2, <2>4 DEF CompactSoFar
    <2> QED BY <2>7, <2>8, <2>9, <2>10 DEF RetentionInv
<1>2. RetentionInv /\ [RetentionNext]_kept => RetentionInv'
    BY RetentionTyped, StepKeptLong, StepCleared, StepCompact DEF RetentionInv
<1>3. RetentionInv => RetentionIsExact
    <2> SUFFICES ASSUME RetentionInv PROVE Drained /\ Compacted
        BY DEF RetentionInv, RetentionIsExact, KeptTyped
    <2>1. Drained BY DEF RetentionInv, ClearedSoFar, Drained
    <2>2. Compacted BY DEF RetentionInv, CompactSoFar, Compacted
    <2> QED BY <2>1, <2>2
<1> QED BY <1>1, <1>2, <1>3, PTL DEF RetentionSpec

---------------------------------------------------------------------------
(* The queue without some of its fetches.                                  *)

\* What is taken out of a finite set is no longer counted.
LEMMA TakenOut ==
    ASSUME NEW S, IsFiniteSet(S), NEW T \in SUBSET S
    PROVE  /\ Cardinality(S \ T) = Cardinality(S) - Cardinality(T)
           /\ Cardinality(S \ T) \in Nat /\ Cardinality(T) \in Nat /\ Cardinality(S) \in Nat
<1>1. IsFiniteSet(T) /\ IsFiniteSet(S \ T) BY FS_Subset
<1>2. Cardinality(T) \in Nat /\ Cardinality(S \ T) \in Nat /\ Cardinality(S) \in Nat
    BY <1>1, FS_CardinalityType
<1>3. S \cap T = T OBVIOUS
<1>4. Cardinality(S \ T) = Cardinality(S) - Cardinality(S \cap T) BY FS_Difference
<1> QED BY <1>2, <1>3, <1>4

\* The members of S that are not after i.
Upto(S, i) == {k \in S : k <= i}

\* The places of what stays are 1 to their number, each taken once.
LEMMA PlacesAreTaken ==
    ASSUME NEW stay \in SUBSET Nat, IsFiniteSet(stay),
           NEW place, place = [i \in stay |-> place[i]],
           \A i \in stay : place[i] = Cardinality(Upto(stay, i))
    PROVE  /\ Cardinality(stay) \in Nat
           /\ \A i \in stay : place[i] \in 1 .. Cardinality(stay)
           /\ \A i, k \in stay : place[i] = place[k] => i = k
           /\ \A n \in 1 .. Cardinality(stay) : \E i \in stay : place[i] = n
<1> DEFINE size == Cardinality(stay)
<1>1. size \in Nat BY FS_CardinalityType
<1>2. ASSUME NEW i \in stay
      PROVE  /\ IsFiniteSet(Upto(stay, i)) /\ Cardinality(Upto(stay, i)) \in 1 .. size
             /\ place[i] = Cardinality(Upto(stay, i))
    <2>1. Upto(stay, i) \in SUBSET stay /\ i \in Upto(stay, i)
        <3>1. i \in Nat OBVIOUS
        <3> QED BY <3>1 DEF Upto
    <2>2. place[i] = Cardinality(Upto(stay, i)) OBVIOUS
    <2>3. IsFiniteSet(Upto(stay, i)) /\ Cardinality(Upto(stay, i)) <= size BY <2>1, FS_Subset
    <2>4. Cardinality(Upto(stay, i)) \in Nat /\ Cardinality(Upto(stay, i)) # 0
        BY <2>1, <2>3, FS_CardinalityType, FS_EmptySet
    <2> QED BY <1>1, <2>2, <2>3, <2>4
<1>3. ASSUME NEW i \in stay, NEW k \in stay, i < k PROVE place[i] # place[k]
    <2>1. Upto(stay, i) \in SUBSET Upto(stay, k) /\ k \in Upto(stay, k) /\ k \notin Upto(stay, i)
        <3>1. i \in Nat /\ k \in Nat BY <1>3
        <3>2. ASSUME NEW m \in stay, m <= i PROVE m <= k
            <4>1. m \in Nat OBVIOUS
            <4> QED BY <1>3, <3>1, <3>2, <4>1
        <3>3. k <= k /\ ~(k <= i) BY <1>3, <3>1
        <3> QED BY <3>2, <3>3 DEF Upto
    <2>2. IsFiniteSet(Upto(stay, k)) BY <1>2
    <2>3. Cardinality(Upto(stay, i)) # Cardinality(Upto(stay, k)) BY <2>1, <2>2, FS_Subset
    <2> QED BY <1>2, <2>3
<1> HIDE DEF size
<1>4. ASSUME NEW i \in stay, NEW k \in stay, place[i] = place[k] PROVE i = k
    <2>1. i \in Nat /\ k \in Nat /\ (i < k \/ k < i \/ i = k) OBVIOUS
    <2> QED BY <1>3, <1>4, <2>1
<1>5. place \in Surjection(stay, 1 .. size)
    <2>1. IsFiniteSet(1 .. size) /\ Cardinality(1 .. size) = size
        BY <1>1, FS_Interval
    <2>2. place \in [stay -> 1 .. size] BY <1>2
    <2>3. place \in Injection(stay, 1 .. size) BY <1>4, <2>2 DEF Injection, IsInjective
    <2> QED BY <2>1, <2>3, FS_Injection DEF size
<1>6. \A n \in 1 .. size : \E i \in stay : place[i] = n BY <1>5 DEF Surjection
<1> QED BY <1>1, <1>2, <1>4, <1>6 DEF size

\* It holds the fetches that stay, each of them as often as before.
LEMMA WithoutKeeps ==
    ASSUME queue \in Seq(Calls), NEW C,
           \A i, k \in DOMAIN queue : queue[i] = queue[k] => i = k
    PROVE  /\ Without(C) \in Seq(Calls)
           /\ \A n \in DOMAIN Without(C) :
                 Without(C)[n] \notin C /\ \E i \in DOMAIN queue : queue[i] = Without(C)[n]
           /\ \A i \in DOMAIN queue : queue[i] \notin C => \E n \in DOMAIN Without(C) : Without(C)[n] = queue[i]
           /\ \A m, n \in DOMAIN Without(C) : Without(C)[m] = Without(C)[n] => m = n
<1> DEFINE stay == {i \in DOMAIN queue : queue[i] \notin C}
           place == [i \in stay |-> Cardinality({k \in stay : k <= i})]
           size == Cardinality(stay)
           at == [n \in 1 .. size |-> CHOOSE i \in stay : place[i] = n]
           new == Without(C)
<1>1. new = [n \in 1 .. size |-> queue[at[n]]] BY DEF Without
<1>2. stay \in SUBSET Nat /\ IsFiniteSet(stay)
    <2>1. Len(queue) \in Nat /\ DOMAIN queue = 1 .. Len(queue) OBVIOUS
    <2>2. IsFiniteSet(1 .. Len(queue)) BY <2>1, FS_Interval
    <2>3. stay \in SUBSET (1 .. Len(queue)) BY <2>1
    <2> QED BY <2>1, <2>2, <2>3, FS_Subset
<1>3. \A i \in stay : i \in DOMAIN queue /\ queue[i] \notin C OBVIOUS
<1>4. \A i \in DOMAIN queue : queue[i] \notin C => i \in stay OBVIOUS
<1> HIDE DEF stay
<1>5. /\ place = [i \in stay |-> place[i]]
      /\ \A i \in stay : place[i] = Cardinality(Upto(stay, i))
    BY DEF Upto
<1> HIDE DEF place
<1>6. /\ size \in Nat
      /\ \A i \in stay : place[i] \in 1 .. size
      /\ \A i, k \in stay : place[i] = place[k] => i = k
      /\ \A n \in 1 .. size : \E i \in stay : place[i] = n
    BY <1>2, <1>5, PlacesAreTaken
<1> HIDE DEF size
<1>7. \A n \in 1 .. size : at[n] \in stay /\ place[at[n]] = n BY <1>6
<1>8. \A i \in stay : at[place[i]] = i /\ place[i] \in 1 .. size BY <1>6, <1>7
<1> HIDE DEF at, new
<1>9. \A n \in 1 .. size : queue[at[n]] \in Calls BY <1>3, <1>7
<1>10. new \in Seq(Calls) /\ DOMAIN new = 1 .. size BY <1>1, <1>6, <1>9
<1>11. \A n \in DOMAIN new : new[n] \notin C /\ \E i \in DOMAIN queue : queue[i] = new[n]
    BY <1>1, <1>3, <1>7, <1>10
<1>12. \A i \in DOMAIN queue : queue[i] \notin C => \E n \in DOMAIN new : new[n] = queue[i]
    BY <1>1, <1>4, <1>8, <1>10
<1>13. ASSUME NEW m \in DOMAIN new, NEW n \in DOMAIN new, new[m] = new[n] PROVE m = n
    <2>1. queue[at[m]] = queue[at[n]] /\ at[m] \in stay /\ at[n] \in stay BY <1>1, <1>7, <1>10, <1>13
    <2>2. at[m] = at[n] BY <1>3, <2>1
    <2> QED BY <1>7, <1>10, <2>2
<1> QED BY <1>10, <1>11, <1>12, <1>13 DEF new

---------------------------------------------------------------------------
(* The steps of the calls.                                                 *)

\* The phases and the answers, and numbers of which the rest of the invariant says more.
Shapes ==
    /\ running \subseteq Jobs
    /\ phase \in [Calls -> {"idle", "queued", "calling", "holding", "pausing", "inserting", "ended"}]
    /\ timer \in [Calls -> 0 .. Delay] /\ request \in [Calls -> 1 .. Requests]
    /\ sent \in [Calls -> Seq(Answers)]
    /\ n429 \in [Calls -> 0 .. Backoff] /\ nnet \in [Calls -> 0 .. NetRetries]
    /\ queue \in Seq(Calls) /\ free \in Int /\ spent \in Int

\* The constants, and to which job a fetch belongs.
LEMMA FetchesBelong ==
    /\ IsFiniteSet(Calls) /\ Permits \in Nat /\ Permits > 0
    /\ Delay \in Nat /\ Backoff \in Nat /\ NetRetries = 1 /\ Requests \in Nat /\ Requests > 0
    /\ \A j \in Jobs : Fetches[j] \in Seq(Calls) /\ CallsOf(j) \subseteq Calls
    /\ \A j, k \in Jobs : \A c \in CallsOf(j) \cap CallsOf(k) : j = k
    /\ \A j \in Jobs : \A m, n \in DOMAIN Fetches[j] : Fetches[j][m] = Fetches[j][n] => m = n
BY UpstreamAssumption DEF CallsOf, NetRetries

\* A set of fetches is finite and so is counted by a natural number.
LEMMA FetchesAreFinite ==
    ASSUME NEW S \in SUBSET Calls
    PROVE  IsFiniteSet(S) /\ Cardinality(S) \in Nat
<1>1. IsFiniteSet(S) BY FetchesBelong, FS_Subset
<1> QED BY <1>1, FS_CardinalityType

\* How often a appears in s.
CountIn(s, a) == Cardinality({i \in DOMAIN s : s[i] = a})

\* A further answer is counted once; there are none of a new request.
LEMMA AnswersAreCounted ==
    ASSUME NEW s \in Seq(Answers), NEW a \in Answers, NEW b \in Answers
    PROVE  /\ CountIn(s, a) \in Nat /\ CountIn(<<>>, a) = 0
           /\ CountIn(Append(s, b), a) = CountIn(s, a) + (IF a = b THEN 1 ELSE 0)
<1> DEFINE n == Len(s)
           t == Append(s, b)
           S == {i \in DOMAIN s : s[i] = a}
           T == {i \in DOMAIN t : t[i] = a}
<1>1. /\ n \in Nat /\ DOMAIN s = 1 .. n /\ DOMAIN t = 1 .. n + 1
      /\ t[n + 1] = b /\ \A i \in 1 .. n : t[i] = s[i]
    OBVIOUS
<1>2. S \subseteq 1 .. n BY <1>1
<1>3. T = IF a = b THEN S \cup {n + 1} ELSE S BY <1>1
<1>4. n + 1 \notin S BY <1>1, <1>2
<1>5. {i \in DOMAIN <<>> : <<>>[i] = a} = {} OBVIOUS
<1>6. CountIn(<<>>, a) = 0 BY <1>5, FS_EmptySet DEF CountIn
<1>7. CountIn(s, a) = Cardinality(S) /\ CountIn(t, a) = Cardinality(T) BY DEF CountIn
<1> HIDE DEF S, T, t, n
<1>8. IsFiniteSet(S) /\ Cardinality(S) \in Nat
    <2>1. IsFiniteSet(1 .. n) BY <1>1, FS_Interval
    <2> QED BY <1>2, <2>1, FS_Subset, FS_CardinalityType
<1>9. Cardinality(S \cup {n + 1}) = Cardinality(S) + 1 BY <1>4, <1>8, FS_AddElement
<1>10. CountIn(t, a) = CountIn(s, a) + (IF a = b THEN 1 ELSE 0)
    BY <1>3, <1>7, <1>8, <1>9
<1> QED BY <1>6, <1>7, <1>8, <1>10 DEF t

\* The phases and the answers keep their types.
LEMMA StepShapes == CallsInv /\ [Next]_vars => Shapes'
<1> SUFFICES ASSUME CallsInv, [Next]_vars PROVE Shapes'
    OBVIOUS
<1> USE FetchesBelong
<1>0. Shapes BY DEF CallsInv, TypeOK, Shapes
<1>1. CASE Tick
    <2>1. ASSUME NEW c \in Calls PROVE (IF timer[c] > 0 THEN timer[c] - 1 ELSE 0) \in 0 .. Delay
        BY <1>0 DEF Shapes
    <2>2. timer' \in [Calls -> 0 .. Delay] BY <1>1, <2>1 DEF Tick
    <2> QED BY <1>0, <1>1, <2>2 DEF Tick, get, sem, Shapes
<1>2. ASSUME NEW c \in Calls, Acquire(c) PROVE Shapes'
    <2>1. Tail(queue) \in Seq(Calls) /\ free - 1 \in Int BY <1>0, <1>2 DEF Acquire, Shapes
    <2> QED BY <1>0, <1>2, <2>1 DEF Acquire, get, Shapes
<1>3. ASSUME NEW c \in Calls, Release(c) PROVE Shapes'
    <2>0. free' \in Int /\ running' = running /\ timer' = timer /\ spent' = spent
        BY <1>0, <1>3 DEF Release, Shapes
    <2>1. n429[c] \in 0 .. Backoff /\ nnet[c] \in 0 .. NetRetries /\ request[c] \in 1 .. Requests
        BY <1>0 DEF Shapes
    <2>2. CASE /\ n429[c] < Backoff /\ Retry(c) /\ n429' = [n429 EXCEPT ![c] = @ + 1] /\ UNCHANGED nnet
        BY <1>0, <2>0, <2>1, <2>2 DEF Retry, Shapes
    <2>3. CASE /\ nnet[c] < NetRetries /\ Retry(c) /\ nnet' = [nnet EXCEPT ![c] = @ + 1] /\ UNCHANGED n429
        BY <1>0, <2>0, <2>1, <2>3 DEF Retry, Shapes
    <2>4. CASE Return(c)
        <3>1. CASE request[c] < Requests
            <4>1. Append(queue, c) \in Seq(Calls) /\ <<>> \in Seq(Answers) BY <1>0 DEF Shapes
            <4>2. request[c] + 1 \in 1 .. Requests /\ 0 \in 0 .. Backoff /\ 0 \in 0 .. NetRetries
                BY <2>1, <3>1
            <4>3. /\ request' = [request EXCEPT ![c] = request[c] + 1]
                  /\ phase' = [phase EXCEPT ![c] = "queued"] /\ queue' = Append(queue, c) /\ Fresh(c)
                BY <2>4, <3>1 DEF Return
            <4>4. request' \in [Calls -> 1 .. Requests] BY <1>0, <4>2, <4>3 DEF Shapes
            <4>5. sent' \in [Calls -> Seq(Answers)] BY <1>0, <4>1, <4>3 DEF Fresh, Shapes
            <4> QED BY <1>0, <2>0, <4>1, <4>2, <4>3, <4>4, <4>5 DEF Fresh, Shapes
        <3>2. CASE ~(request[c] < Requests)
            BY <1>0, <2>0, <2>4, <3>2 DEF Return, get, Shapes
        <3> QED BY <3>1, <3>2
    <2> QED BY <1>3, <2>2, <2>3, <2>4 DEF Release, After
<1>4. ASSUME NEW c \in Calls, Resume(c) PROVE Shapes'
    <2>1. Append(queue, c) \in Seq(Calls) BY <1>0 DEF Shapes
    <2> QED BY <1>0, <1>4, <2>1 DEF Resume, get, Shapes
<1>5. ASSUME NEW C \in SUBSET Calls, Clear(C)
      PROVE  /\ timer' \in [Calls -> 0 .. Delay] /\ request' \in [Calls -> 1 .. Requests]
             /\ sent' \in [Calls -> Seq(Answers)]
             /\ n429' \in [Calls -> 0 .. Backoff] /\ nnet' \in [Calls -> 0 .. NetRetries]
    <2>1. 0 \in 0 .. Delay /\ 1 \in 1 .. Requests /\ <<>> \in Seq(Answers) /\ 0 \in 0 .. Backoff
        OBVIOUS
    <2>2. 0 \in 0 .. NetRetries OBVIOUS
    <2> QED BY <1>0, <1>5, <2>1, <2>2 DEF Clear, Shapes
<1>6. ASSUME NEW c \in Calls, Insert(c) PROVE Shapes'
    BY <1>0, <1>5, <1>6 DEF Insert, sem, Shapes
<1>7. ASSUME NEW c \in Calls, NEW a \in Answers, Answer(c, a) PROVE Shapes'
    <2>1. sent' \in [Calls -> Seq(Answers)]
        <3>1. Append(sent[c], a) \in Seq(Answers) BY <1>0 DEF Shapes
        <3> QED BY <1>0, <1>7, <3>1 DEF Answer, Shapes
    <2>2. timer' \in [Calls -> 0 .. Delay] BY <1>0, <1>7 DEF Answer, Shapes
    <2>3. spent' \in Int BY <1>0, <1>7 DEF Answer, Shapes
    <2> QED BY <1>0, <1>7, <2>1, <2>2, <2>3 DEF Answer, sem, Shapes
<1>8. ASSUME NEW j \in Jobs, Start(j) PROVE Shapes'
    <2>1. queue \o Fetches[j] \in Seq(Calls) BY <1>0 DEF Shapes
    <2> QED BY <1>0, <1>8, <2>1 DEF Start, AllIn, get, Shapes
<1>9. ASSUME NEW j \in Jobs, Finish(j) PROVE Shapes'
    BY <1>0, <1>5, <1>9 DEF Finish, AllIn, sem, Shapes
<1>10. ASSUME NEW j \in Jobs, Timeout(j) PROVE Shapes'
    <2>1. queue' \in Seq(Calls)
        BY <1>0, <1>10, WithoutKeeps DEF CallsInv, QueueNamesWaiters, Timeout, Shapes
    <2>2. free' \in Int
        <3>1. Cardinality({c \in CallsOf(j) : Holds(c)}) \in Nat BY FetchesAreFinite
        <3> QED BY <1>0, <1>10, <3>1 DEF Timeout, Shapes
    <2>3. spent' \in Int
        <3>1. Cardinality({c \in CallsOf(j) : timer[c] = Delay /\ Delay > 0}) \in Nat
            BY FetchesAreFinite
        <3> QED BY <1>0, <1>10, <3>1 DEF Timeout, Shapes
    <2> QED BY <1>0, <1>5, <1>10, <2>1, <2>2, <2>3 DEF Timeout, AllIn, Shapes
<1>11. CASE UNCHANGED vars BY <1>0, <1>11 DEF vars, get, sem, Shapes
<1> QED BY <1>1, <1>2, <1>3, <1>4, <1>6, <1>7, <1>8, <1>9, <1>10, <1>11 DEF Next, Step

\* Fetch c goes from phase p to phase q.
Moves(c, p, q) == phase[c] = p /\ phase' = [phase EXCEPT ![c] = q]

\* The steps of a fetch move it alone, on one of these ways.
LEMMA StepsMove ==
    ASSUME CallsInv, NEW c \in Calls
    PROVE  /\ Acquire(c) => Moves(c, "queued", "calling")
           /\ \A a \in Answers : Answer(c, a) => Moves(c, "calling", "holding")
           /\ Release(c) => \E q \in {"pausing", "inserting", "queued"} :
                               /\ Moves(c, "holding", q)
                               /\ queue' = IF q = "queued" THEN Append(queue, c) ELSE queue
           /\ Resume(c) => Moves(c, "pausing", "queued")
           /\ Insert(c) => Moves(c, "inserting", "ended")
           /\ Step(c) => running' = running
<1>1. ASSUME Acquire(c) PROVE Moves(c, "queued", "calling")
    <2>1. queue \in Seq(Calls) /\ queue # <<>> /\ c = Head(queue) BY <1>1 DEF CallsInv, TypeOK, Acquire
    <2>2. 1 \in DOMAIN queue /\ queue[1] = c BY <2>1
    <2> QED BY <1>1, <2>2 DEF CallsInv, QueueNamesWaiters, Acquire, Moves
<1>2. ASSUME NEW a \in Answers, Answer(c, a) PROVE Moves(c, "calling", "holding")
    BY <1>2 DEF Answer, Moves
<1>3. ASSUME Release(c)
      PROVE  \E q \in {"pausing", "inserting", "queued"} :
                /\ Moves(c, "holding", q)
                /\ queue' = IF q = "queued" THEN Append(queue, c) ELSE queue
    <2>1. CASE Retry(c) BY <1>3, <2>1 DEF Release, Retry, Moves
    <2>2. CASE Return(c)
        <3>1. CASE request[c] < Requests BY <1>3, <2>2, <3>1 DEF Release, Return, Moves
        <3>2. CASE ~(request[c] < Requests) BY <1>3, <2>2, <3>2 DEF Release, Return, Moves
        <3> QED BY <3>1, <3>2
    <2> QED BY <1>3, <2>1, <2>2 DEF Release, After
<1>4. Resume(c) => Moves(c, "pausing", "queued") BY DEF Resume, Moves
<1>5. Insert(c) => Moves(c, "inserting", "ended") BY DEF Insert, Moves
<1>6. Step(c) => running' = running BY DEF Step, Acquire, Release, Resume, Insert, Answer
<1> QED BY <1>1, <1>2, <1>3, <1>4, <1>5, <1>6

\* No step of a fetch begins or ends where a run is over.
LEMMA StepIdle == CallsInv /\ [Next]_vars => IdleOutside'
<1> SUFFICES ASSUME CallsInv, [Next]_vars PROVE IdleOutside'
    OBVIOUS
<1> USE FetchesBelong
<1>0. phase \in [Calls -> {"idle", "queued", "calling", "holding", "pausing", "inserting", "ended"}] /\ IdleOutside
    BY DEF CallsInv, TypeOK
<1>1. CASE Tick BY <1>0, <1>1 DEF Tick, IdleOutside
<1>2. ASSUME NEW c \in Calls, Step(c) PROVE IdleOutside'
    <2>1. running' = running /\ \E p, q : p # "idle" /\ Moves(c, p, q) BY <1>2, StepsMove DEF Step
    <2> QED BY <1>0, <2>1 DEF IdleOutside, Moves
<1>3. ASSUME NEW j \in Jobs, Start(j) PROVE IdleOutside'
    <2>1. ASSUME NEW k \in Jobs \ running', NEW c \in CallsOf(k) PROVE phase'[c] = "idle"
        <3>1. k \in Jobs \ running /\ k # j BY <1>3, <2>1 DEF Start
        <3>2. c \in Calls /\ c \notin CallsOf(j) BY <2>1, <3>1
        <3> QED BY <1>0, <1>3, <3>1, <3>2 DEF Start, AllIn, IdleOutside
    <2> QED BY <2>1 DEF IdleOutside
<1>4. ASSUME NEW j \in Jobs, running' = running \ {j}, phase' = AllIn(j, "idle") PROVE IdleOutside'
    <2>1. ASSUME NEW k \in Jobs \ running', NEW c \in CallsOf(k) PROVE phase'[c] = "idle"
        <3>1. k \in Jobs \ running \/ k = j BY <1>4
        <3>2. c \in Calls BY <2>1
        <3> QED BY <1>0, <1>4, <3>1, <3>2 DEF AllIn, IdleOutside
    <2> QED BY <2>1 DEF IdleOutside
<1>5. CASE UNCHANGED vars BY <1>0, <1>5 DEF vars, IdleOutside
<1> QED BY <1>1, <1>2, <1>3, <1>4, <1>5 DEF Next, Finish, Timeout

\* A permit that is asked for, or given back, is not held for any time.
LEMMA StepTimers == CallsInv /\ [Next]_vars => TimersRun'
<1> SUFFICES ASSUME CallsInv, [Next]_vars PROVE TimersRun'
    OBVIOUS
<1> USE FetchesBelong
<1>0. /\ phase \in [Calls -> {"idle", "queued", "calling", "holding", "pausing", "inserting", "ended"}]
      /\ timer \in [Calls -> 0 .. Delay] /\ TimersRun /\ IdleOutside
    BY DEF CallsInv, TypeOK
<1>1. CASE Tick BY <1>0, <1>1 DEF Tick, TimersRun
<1>2. ASSUME NEW c \in Calls, NEW p, NEW q, Moves(c, p, q), timer[c] = 0, timer' = timer
      PROVE  TimersRun'
    BY <1>0, <1>2 DEF Moves, TimersRun
<1>3. ASSUME NEW c \in Calls, Acquire(c) \/ Resume(c) \/ Release(c) PROVE TimersRun'
    <2>1. timer' = timer BY <1>3 DEF Acquire, Resume, Release
    <2>2. \E p, q : Moves(c, p, q) /\ (p = "holding" => timer[c] = 0) BY <1>3, StepsMove DEF Release
    <2>3. timer[c] = 0 BY <1>0, <2>2 DEF TimersRun, Moves
    <2> QED BY <1>2, <2>1, <2>2, <2>3
<1>4. ASSUME NEW c \in Calls, NEW a \in Answers, Answer(c, a) PROVE TimersRun'
    BY <1>0, <1>4 DEF Answer, TimersRun
<1>5. ASSUME NEW c \in Calls, Insert(c) PROVE TimersRun'
    BY <1>0, <1>5 DEF Insert, Clear, TimersRun
<1>6. ASSUME NEW j \in Jobs, Start(j) PROVE TimersRun'
    BY <1>0, <1>6 DEF Start, AllIn, TimersRun, IdleOutside
<1>7. ASSUME NEW j \in Jobs, Finish(j) \/ Timeout(j) PROVE TimersRun'
    BY <1>0, <1>7 DEF Finish, Timeout, Clear, AllIn, TimersRun
<1>8. CASE UNCHANGED vars BY <1>0, <1>8 DEF vars, TimersRun
<1> QED BY <1>1, <1>3, <1>4, <1>5, <1>6, <1>7, <1>8 DEF Next, Step

\* A permit is taken by one fetch and given back by it, or by all that a run still had.
LEMMA StepPermits == CallsInv /\ [Next]_vars => PermitsAdd' /\ free' \in Nat
<1> SUFFICES ASSUME CallsInv, [Next]_vars PROVE PermitsAdd' /\ free' \in Nat
    OBVIOUS
<1> USE FetchesBelong
<1>0. /\ phase \in [Calls -> {"idle", "queued", "calling", "holding", "pausing", "inserting", "ended"}]
      /\ free \in Nat /\ free + Cardinality(Holders) = Permits /\ IdleOutside
      /\ Holders \in SUBSET Calls /\ IsFiniteSet(Holders) /\ Cardinality(Holders) \in Nat
    <2>1. Holders \in SUBSET Calls BY DEF Holders
    <2> QED BY <2>1, FetchesAreFinite DEF CallsInv, TypeOK, PermitsAdd
<1>1. ASSUME free' = free, Holders' = Holders PROVE PermitsAdd' /\ free' \in Nat
    BY <1>0, <1>1 DEF PermitsAdd
<1>2. ASSUME NEW c \in Calls, NEW p, NEW q, Moves(c, p, q)
      PROVE  \A d \in Calls : Holds(d)' <=> IF d = c THEN q \in {"calling", "holding"} ELSE Holds(d)
    BY <1>0, <1>2 DEF Moves, Holds
<1>3. ASSUME NEW c \in Calls, Acquire(c) PROVE PermitsAdd' /\ free' \in Nat
    <2>1. Holders' = Holders \cup {c} /\ c \notin Holders
        <3>1. Moves(c, "queued", "calling") BY <1>3, StepsMove
        <3> QED BY <1>2, <3>1 DEF Holders, Holds, Moves
    <2>2. Cardinality(Holders \cup {c}) = Cardinality(Holders) + 1 BY <1>0, <2>1, FS_AddElement
    <2>3. free' = free - 1 /\ free > 0 BY <1>3 DEF Acquire
    <2>4. free' \in Nat BY <1>0, <2>3
    <2> QED BY <1>0, <2>1, <2>2, <2>3, <2>4 DEF PermitsAdd
<1>4. ASSUME NEW c \in Calls, Release(c) PROVE PermitsAdd' /\ free' \in Nat
    <2>1. Holders' = Holders \ {c} /\ c \in Holders
        <3>1. \E q \in {"pausing", "inserting", "queued"} : Moves(c, "holding", q) BY <1>4, StepsMove
        <3> QED BY <1>2, <3>1 DEF Holders, Holds, Moves
    <2>2. Cardinality(Holders \ {c}) = Cardinality(Holders) - 1 BY <1>0, <2>1, FS_RemoveElement
    <2>3. free' = free + 1 BY <1>4 DEF Release
    <2>4. free' \in Nat BY <1>0, <2>3
    <2> QED BY <1>0, <2>1, <2>2, <2>3, <2>4 DEF PermitsAdd
<1>5. ASSUME NEW c \in Calls, Resume(c) \/ Insert(c) \/ \E a \in Answers : Answer(c, a) PROVE PermitsAdd' /\ free' \in Nat
    <2>1. \/ Moves(c, "pausing", "queued")
          \/ Moves(c, "inserting", "ended")
          \/ Moves(c, "calling", "holding")
        BY <1>5, StepsMove
    <2>2. Holders' = Holders BY <1>2, <2>1 DEF Holders, Holds, Moves
    <2>3. free' = free BY <1>5 DEF Resume, Insert, Answer, sem
    <2> QED BY <1>1, <2>2, <2>3
<1>6. ASSUME NEW j \in Jobs, Start(j) PROVE PermitsAdd' /\ free' \in Nat
    <2>1. Holders' = Holders BY <1>0, <1>6 DEF Start, AllIn, Holders, Holds, IdleOutside
    <2> QED BY <1>1, <1>6, <2>1 DEF Start
<1>7. ASSUME NEW j \in Jobs, Finish(j) PROVE PermitsAdd' /\ free' \in Nat
    <2>1. Holders' = Holders BY <1>0, <1>7 DEF Finish, Ended, AllIn, Holders, Holds
    <2> QED BY <1>1, <1>7, <2>1 DEF Finish, sem
<1>8. ASSUME NEW j \in Jobs, Timeout(j) PROVE PermitsAdd' /\ free' \in Nat
    <2> DEFINE back == {c \in CallsOf(j) : Holds(c)}
    <2>1. Holders' = Holders \ back /\ back \in SUBSET Holders
        BY <1>0, <1>8 DEF Timeout, AllIn, Holders, Holds
    <2>2. free' = free + Cardinality(back) BY <1>8 DEF Timeout
    <2> HIDE DEF back
    <2>3. /\ Cardinality(Holders \ back) = Cardinality(Holders) - Cardinality(back)
          /\ Cardinality(back) \in Nat
        BY <1>0, <2>1, TakenOut
    <2>4. free' \in Nat BY <1>0, <2>2, <2>3
    <2> QED BY <1>0, <2>1, <2>2, <2>3, <2>4 DEF PermitsAdd
<1>9. CASE Tick \/ UNCHANGED vars
    <2>1. free' = free /\ phase' = phase BY <1>9 DEF Tick, vars, sem
    <2>2. Holders' = Holders BY <2>1 DEF Holders, Holds
    <2> QED BY <1>1, <2>1, <2>2
<1> QED BY <1>3, <1>4, <1>5, <1>6, <1>7, <1>8, <1>9 DEF Next, Step

\* A fetch is appended when it begins to wait and taken out when it no longer does.
LEMMA StepQueue == CallsInv /\ [Next]_vars => QueueNamesWaiters'
<1> SUFFICES ASSUME CallsInv, [Next]_vars PROVE QueueNamesWaiters'
    OBVIOUS
<1> USE FetchesBelong
<1> DEFINE n == Len(queue)
<1>0. /\ phase \in [Calls -> {"idle", "queued", "calling", "holding", "pausing", "inserting", "ended"}]
      /\ queue \in Seq(Calls) /\ n \in Nat /\ DOMAIN queue = 1 .. n /\ IdleOutside
      /\ \A i \in 1 .. n : queue[i] \in Calls /\ phase[queue[i]] = "queued"
      /\ \A c \in Calls : phase[c] = "queued" => \E i \in 1 .. n : queue[i] = c
      /\ \A i, k \in 1 .. n : queue[i] = queue[k] => i = k
    <2>1. queue \in Seq(Calls) /\ n \in Nat /\ DOMAIN queue = 1 .. n BY DEF CallsInv, TypeOK
    <2>2. IdleOutside /\ QueueNamesWaiters BY DEF CallsInv
    <2>3. phase \in [Calls -> {"idle", "queued", "calling", "holding", "pausing", "inserting", "ended"}]
        BY DEF CallsInv, TypeOK
    <2> HIDE DEF n
    <2>4. /\ \A i \in 1 .. n : queue[i] \in Calls /\ phase[queue[i]] = "queued"
          /\ \A c \in Calls : phase[c] = "queued" => \E i \in 1 .. n : queue[i] = c
          /\ \A i, k \in 1 .. n : queue[i] = queue[k] => i = k
        BY <2>1, <2>2 DEF QueueNamesWaiters
    <2> QED BY <2>1, <2>2, <2>3, <2>4
<1> HIDE DEF n
<1>1. ASSUME NEW c \in Calls, NEW p, NEW q, Moves(c, p, q), p # "queued", q # "queued", queue' = queue
      PROVE  QueueNamesWaiters'
    BY <1>0, <1>1 DEF Moves, QueueNamesWaiters
<1>2. ASSUME NEW c \in Calls, NEW p, Moves(c, p, "queued"), p # "queued", queue' = Append(queue, c)
      PROVE  QueueNamesWaiters'
    <2>1. /\ DOMAIN queue' = 1 .. n + 1 /\ queue'[n + 1] = c
          /\ \A i \in 1 .. n : queue'[i] = queue[i] /\ queue[i] # c
          /\ \A i \in 1 .. n + 1 : i \in 1 .. n \/ i = n + 1
        BY <1>0, <1>2 DEF n, Moves
    <2>2. phase'[c] = "queued" /\ \A d \in Calls : d # c => phase'[d] = phase[d]
        BY <1>0, <1>2 DEF Moves
    <2>3. n + 1 \in 1 .. n + 1 /\ \A i \in 1 .. n : i \in 1 .. n + 1 BY <1>0
    <2>4. \A i \in DOMAIN queue' : phase'[queue'[i]] = "queued" BY <1>0, <2>1, <2>2
    <2>5. \A d \in Calls : phase'[d] = "queued" => \E i \in DOMAIN queue' : queue'[i] = d
        BY <1>0, <2>1, <2>2, <2>3
    <2>6. \A i, k \in DOMAIN queue' : queue'[i] = queue'[k] => i = k BY <1>0, <2>1
    <2> QED BY <2>4, <2>5, <2>6 DEF QueueNamesWaiters
<1>3. ASSUME NEW c \in Calls, Acquire(c) PROVE QueueNamesWaiters'
    <2>1. /\ n > 0 /\ queue[1] = c /\ DOMAIN queue' = 1 .. n - 1
          /\ \A i \in 1 .. n - 1 : queue'[i] = queue[i + 1] /\ i + 1 \in 1 .. n
        BY <1>0, <1>3 DEF Acquire, n
    <2>2. \A i \in 1 .. n - 1 : queue'[i] # c
        <3>1. 1 \in 1 .. n /\ \A i \in 1 .. n - 1 : i + 1 # 1 BY <1>0, <2>1
        <3> QED BY <1>0, <2>1, <3>1
    <2>3. phase'[c] = "calling" /\ \A d \in Calls : d # c => phase'[d] = phase[d]
        BY <1>0, <1>3 DEF Acquire
    <2>4. \A i \in DOMAIN queue' : phase'[queue'[i]] = "queued" BY <1>0, <2>1, <2>2, <2>3
    <2>5. ASSUME NEW d \in Calls, phase'[d] = "queued" PROVE \E i \in DOMAIN queue' : queue'[i] = d
        <3>1. d # c /\ phase[d] = "queued" BY <2>3, <2>5
        <3>2. PICK i \in 1 .. n : queue[i] = d BY <1>0, <3>1
        <3>3. i # 1 BY <2>1, <3>1, <3>2
        <3>4. i - 1 \in 1 .. n - 1 /\ (i - 1) + 1 = i BY <1>0, <3>3
        <3>5. queue'[i - 1] = queue[(i - 1) + 1] BY <2>1, <3>4
        <3> QED BY <2>1, <3>2, <3>4, <3>5
    <2>6. \A i, k \in DOMAIN queue' : queue'[i] = queue'[k] => i = k BY <1>0, <2>1
    <2> QED BY <2>4, <2>5, <2>6 DEF QueueNamesWaiters
<1>4. ASSUME NEW c \in Calls, Release(c) PROVE QueueNamesWaiters'
    BY <1>1, <1>2, <1>4, StepsMove
<1>5. ASSUME NEW c \in Calls, Resume(c) PROVE QueueNamesWaiters'
    <2>1. queue' = Append(queue, c) BY <1>5 DEF Resume
    <2> QED BY <1>2, <1>5, <2>1, StepsMove
<1>6. ASSUME NEW c \in Calls, Insert(c) \/ \E a \in Answers : Answer(c, a) PROVE QueueNamesWaiters'
    <2>1. queue' = queue BY <1>6 DEF Insert, Answer, sem
    <2>2. Moves(c, "inserting", "ended") \/ Moves(c, "calling", "holding") BY <1>6, StepsMove
    <2> QED BY <1>1, <2>1, <2>2
<1>7. ASSUME NEW j \in Jobs, Start(j) PROVE QueueNamesWaiters'
    <2> DEFINE m == Len(Fetches[j])
    <2>0. /\ Fetches[j] \in Seq(Calls) /\ m \in Nat /\ DOMAIN Fetches[j] = 1 .. m
          /\ queue' = queue \o Fetches[j]
        BY <1>7 DEF Start
    <2>1. Len(queue') = n + m /\ DOMAIN queue' = 1 .. n + m
        BY <1>0, <2>0 DEF n
    <2>2. \A i \in 1 .. n + m : queue'[i] = IF i <= n THEN queue[i] ELSE Fetches[j][i - n]
        BY <1>0, <2>0 DEF n
    <2>3. \A c \in CallsOf(j) : phase[c] = "idle" /\ phase'[c] = "queued"
        BY <1>0, <1>7 DEF Start, AllIn, IdleOutside
    <2>4. \A c \in Calls \ CallsOf(j) : phase'[c] = phase[c] BY <1>0, <1>7 DEF Start, AllIn
    <2>5. \A i \in 1 .. m : Fetches[j][i] \in CallsOf(j) BY <2>0 DEF CallsOf
    <2>6. \A c \in CallsOf(j) : \E i \in 1 .. m : Fetches[j][i] = c BY <2>0 DEF CallsOf
    <2>7. \A i \in 1 .. n + m : IF i <= n THEN i \in 1 .. n ELSE i - n \in 1 .. m
        BY <1>0, <2>0
    <2> HIDE DEF m
    <2>8. \A i \in DOMAIN queue' : phase'[queue'[i]] = "queued"
        BY <1>0, <2>1, <2>2, <2>3, <2>4, <2>5, <2>7
    <2>9. ASSUME NEW c \in Calls, phase'[c] = "queued" PROVE \E i \in DOMAIN queue' : queue'[i] = c
        <3>1. CASE c \in CallsOf(j)
            <4>1. PICK i \in 1 .. m : Fetches[j][i] = c BY <2>6, <3>1
            <4>2. n + i \in 1 .. n + m /\ ~(n + i <= n) /\ (n + i) - n = i BY <1>0, <2>0
            <4>3. queue'[n + i] = Fetches[j][(n + i) - n] BY <2>2, <4>2
            <4> QED BY <2>1, <4>1, <4>2, <4>3
        <3>2. CASE c \notin CallsOf(j)
            <4>1. PICK i \in 1 .. n : queue[i] = c BY <1>0, <2>4, <2>9, <3>2
            <4>2. i \in 1 .. n + m /\ i <= n BY <1>0, <2>0
            <4> QED BY <2>1, <2>2, <4>1, <4>2
        <3> QED BY <3>1, <3>2
    <2>10. ASSUME NEW i \in 1 .. n + m, NEW k \in 1 .. n + m, queue'[i] = queue'[k] PROVE i = k
        <3>1. CASE i <= n /\ k <= n BY <1>0, <2>2, <2>7, <2>10, <3>1
        <3>2. CASE ~(i <= n) /\ ~(k <= n)
            <4>1. i - n \in 1 .. m /\ k - n \in 1 .. m /\ Fetches[j][i - n] = Fetches[j][k - n]
                BY <2>2, <2>7, <2>10, <3>2
            <4>2. i - n = k - n BY <2>0, <4>1
            <4> QED BY <1>0, <4>2
        <3>3. ASSUME NEW x \in 1 .. n + m, NEW y \in 1 .. n + m, x <= n, ~(y <= n)
              PROVE  queue'[x] # queue'[y]
            BY <1>0, <2>2, <2>3, <2>5, <2>7, <3>3
        <3> QED BY <2>10, <3>1, <3>2, <3>3
    <2> QED BY <2>1, <2>8, <2>9, <2>10 DEF QueueNamesWaiters
<1>8. ASSUME NEW j \in Jobs, Finish(j) PROVE QueueNamesWaiters'
    <2>1. queue' = queue BY <1>8 DEF Finish, sem
    <2>2. \A c \in Calls : phase'[c] = "queued" <=> phase[c] = "queued"
        BY <1>0, <1>8 DEF Finish, Ended, AllIn
    <2> QED BY <1>0, <2>1, <2>2 DEF QueueNamesWaiters
<1>9. ASSUME NEW j \in Jobs, Timeout(j) PROVE QueueNamesWaiters'
    <2> DEFINE new == Without(CallsOf(j))
    <2>1. queue' = new BY <1>9 DEF Timeout
    <2>2. /\ new \in Seq(Calls)
          /\ \A i \in DOMAIN new : new[i] \notin CallsOf(j) /\ \E k \in 1 .. n : queue[k] = new[i]
          /\ \A k \in 1 .. n : queue[k] \notin CallsOf(j) => \E i \in DOMAIN new : new[i] = queue[k]
          /\ \A i, k \in DOMAIN new : new[i] = new[k] => i = k
        <3>1. \A i, k \in DOMAIN queue : queue[i] = queue[k] => i = k BY <1>0
        <3>2. /\ new \in Seq(Calls)
              /\ \A i \in DOMAIN new :
                    new[i] \notin CallsOf(j) /\ \E k \in DOMAIN queue : queue[k] = new[i]
              /\ \A k \in DOMAIN queue : queue[k] \notin CallsOf(j) => \E i \in DOMAIN new : new[i] = queue[k]
              /\ \A i, k \in DOMAIN new : new[i] = new[k] => i = k
            BY <1>0, <3>1, WithoutKeeps
        <3> HIDE DEF new
        <3> QED BY <1>0, <3>2
    <2> HIDE DEF new
    <2>3. \A c \in Calls : phase'[c] = IF c \in CallsOf(j) THEN "idle" ELSE phase[c]
        BY <1>9 DEF Timeout, AllIn
    <2>4. \A i \in DOMAIN new : phase'[new[i]] = "queued"
        <3> SUFFICES ASSUME NEW i \in DOMAIN new PROVE phase'[new[i]] = "queued" OBVIOUS
        <3>1. PICK k \in 1 .. n : queue[k] = new[i] BY <2>2
        <3> QED BY <1>0, <2>2, <2>3, <3>1
    <2>5. \A c \in Calls : phase'[c] = "queued" => \E i \in DOMAIN new : new[i] = c
        BY <1>0, <2>2, <2>3
    <2> QED BY <2>1, <2>2, <2>4, <2>5 DEF QueueNamesWaiters
<1>10. CASE Tick \/ UNCHANGED vars
    <2>1. queue' = queue /\ phase' = phase BY <1>10 DEF Tick, vars, sem
    <2> QED BY <1>0, <2>1 DEF QueueNamesWaiters
<1> QED BY <1>3, <1>4, <1>5, <1>6, <1>7, <1>8, <1>9, <1>10 DEF Next, Step

\* A counted answer is held for the whole delay, and not longer than its unit of time.
LEMMA StepSpending == CallsInv /\ [Next]_vars => SpendingHeld' /\ spent' \in Nat
<1> SUFFICES ASSUME CallsInv, [Next]_vars PROVE SpendingHeld' /\ spent' \in Nat
    OBVIOUS
<1> USE FetchesBelong
<1>0. /\ phase \in [Calls -> {"idle", "queued", "calling", "holding", "pausing", "inserting", "ended"}]
      /\ timer \in [Calls -> 0 .. Delay] /\ TimersRun /\ spent \in Nat
      /\ Delay > 0 => spent = Cardinality(Spenders)
      /\ Spenders \in SUBSET Calls /\ IsFiniteSet(Spenders) /\ Cardinality(Spenders) \in Nat
    <2>1. Spenders \in SUBSET Calls BY DEF Spenders
    <2> QED BY <2>1, FetchesAreFinite DEF CallsInv, TypeOK, SpendingHeld
<1>1. ASSUME spent' = spent, Delay > 0 => Spenders' = Spenders PROVE SpendingHeld' /\ spent' \in Nat
    BY <1>0, <1>1 DEF SpendingHeld
<1>2. ASSUME timer' = timer PROVE Spenders' = Spenders BY <1>2 DEF Spenders
<1>3. CASE Tick
    <2>1. ASSUME Delay > 0 PROVE Spenders' = {}
        BY <1>0, <1>3, <2>1 DEF Tick, Spenders
    <2>2. spent' = 0 BY <1>3 DEF Tick
    <2> QED BY <2>1, <2>2, FS_EmptySet DEF SpendingHeld
<1>4. ASSUME NEW c \in Calls, Acquire(c) \/ Release(c) \/ Resume(c) PROVE SpendingHeld' /\ spent' \in Nat
    <2>1. timer' = timer /\ spent' = spent BY <1>4 DEF Acquire, Release, Resume
    <2> QED BY <1>1, <1>2, <2>1
<1>5. ASSUME NEW C \in SUBSET Calls, Clear(C)
      PROVE  Delay > 0 => Spenders' = Spenders \ {c \in C : timer[c] = Delay}
    BY <1>0, <1>5 DEF Clear, Spenders
<1>6. ASSUME NEW C \in SUBSET Calls, Clear(C), spent' = spent, \A c \in C : phase[c] # "holding"
      PROVE  SpendingHeld' /\ spent' \in Nat
    <2>1. Delay > 0 => {c \in C : timer[c] = Delay} = {} BY <1>0, <1>6 DEF TimersRun
    <2>2. Delay > 0 => Spenders' = Spenders BY <1>5, <1>6, <2>1
    <2> QED BY <1>1, <1>6, <2>2
<1>7. ASSUME NEW c \in Calls, Insert(c) PROVE SpendingHeld' /\ spent' \in Nat
    <2>1. Clear({c}) /\ spent' = spent /\ phase[c] = "inserting" BY <1>7 DEF Insert
    <2> QED BY <1>6, <2>1
<1>8. ASSUME NEW c \in Calls, NEW a \in Answers, Answer(c, a) PROVE SpendingHeld' /\ spent' \in Nat
    <2>0. phase[c] = "calling" /\ timer[c] = 0 BY <1>0, <1>8 DEF Answer, TimersRun
    <2>1. CASE a \in {"ok", "limited"}
        <3>1. timer' = [timer EXCEPT ![c] = Delay] /\ spent' = spent + 1 BY <1>0, <1>8, <2>1 DEF Answer
        <3>2. ASSUME Delay > 0 PROVE Spenders' = Spenders \cup {c} /\ c \notin Spenders
            BY <1>0, <2>0, <3>1, <3>2 DEF Spenders
        <3>3. c \notin Spenders => Cardinality(Spenders \cup {c}) = Cardinality(Spenders) + 1
            BY <1>0, FS_AddElement
        <3>4. spent' \in Nat BY <1>0, <3>1
        <3> QED BY <1>0, <3>1, <3>2, <3>3, <3>4 DEF SpendingHeld
    <2>2. CASE a \notin {"ok", "limited"}
        <3>1. timer' = [timer EXCEPT ![c] = 0] /\ spent' = spent BY <1>0, <1>8, <2>2 DEF Answer
        <3>2. timer' = timer BY <1>0, <2>0, <3>1
        <3> QED BY <1>1, <1>2, <3>1, <3>2
    <2> QED BY <2>1, <2>2
<1>9. ASSUME NEW j \in Jobs, Start(j) PROVE SpendingHeld' /\ spent' \in Nat
    <2>1. timer' = timer /\ spent' = spent BY <1>9 DEF Start
    <2> QED BY <1>1, <1>2, <2>1
<1>10. ASSUME NEW j \in Jobs, Finish(j) PROVE SpendingHeld' /\ spent' \in Nat
    <2>1. Clear(CallsOf(j)) /\ spent' = spent /\ \A c \in CallsOf(j) : phase[c] # "holding"
        BY <1>10 DEF Finish, Ended
    <2> QED BY <1>6, <2>1
<1>11. ASSUME NEW j \in Jobs, Timeout(j) PROVE SpendingHeld' /\ spent' \in Nat
    <2> DEFINE lost == {c \in CallsOf(j) : timer[c] = Delay /\ Delay > 0}
    <2>1. spent' = spent - Cardinality(lost) /\ Clear(CallsOf(j)) BY <1>11 DEF Timeout
    <2>2. ASSUME Delay > 0 PROVE Spenders' = Spenders \ lost /\ lost \in SUBSET Spenders
        <3>1. lost = {c \in CallsOf(j) : timer[c] = Delay} BY <2>2
        <3>2. Spenders' = Spenders \ lost BY <1>5, <2>1, <2>2, <3>1
        <3>3. lost \in SUBSET Spenders BY DEF Spenders
        <3> QED BY <3>2, <3>3
    <2>3. ~(Delay > 0) => lost = {} OBVIOUS
    <2> HIDE DEF lost
    <2>4. CASE Delay > 0
        <3>1. /\ Cardinality(Spenders \ lost) = Cardinality(Spenders) - Cardinality(lost)
              /\ Cardinality(Spenders \ lost) \in Nat /\ Cardinality(lost) \in Nat
            BY <1>0, <2>2, <2>4, TakenOut
        <3>2. spent' = Cardinality(Spenders \ lost) BY <1>0, <2>1, <2>4, <3>1
        <3> QED BY <2>2, <2>4, <3>1, <3>2 DEF SpendingHeld
    <2>5. CASE ~(Delay > 0)
        <3>1. spent' = spent - 0 BY <2>1, <2>3, <2>5, FS_EmptySet
        <3>2. spent' = spent BY <1>0, <3>1
        <3> QED BY <1>1, <2>5, <3>2
    <2> QED BY <2>4, <2>5
<1>12. CASE UNCHANGED vars
    <2>1. timer' = timer /\ spent' = spent BY <1>12 DEF vars
    <2> QED BY <1>1, <1>2, <2>1
<1> QED BY <1>3, <1>4, <1>7, <1>8, <1>9, <1>10, <1>11, <1>12 DEF Next, Step

\* The fetch has the same retries and answers, none of them newly judged.
LEMMA BudgetStays ==
    ASSUME NEW c \in Calls, Budget(c), sent'[c] = sent[c], n429'[c] = n429[c], nnet'[c] = nnet[c],
           phase'[c] = phase[c] \/ {phase[c], phase'[c]} \cap {"holding", "inserting"} = {}
    PROVE  Budget(c)'
<1>1. phase'[c] \in {"holding", "inserting"} <=> phase[c] \in {"holding", "inserting"} OBVIOUS
<1>2. AllUsed(c)' <=> AllUsed(c) BY Zenon DEF AllUsed, Retried, Count
<1>3. AllButLastUsed(c)' <=> AllButLastUsed(c) BY Zenon DEF AllButLastUsed, Retried, Count
<1>4. GivenUp(c)' <=> GivenUp(c) BY Zenon DEF GivenUp
<1>5. phase'[c] = "inserting" <=> phase[c] = "inserting" BY DEF Budget
<1> QED BY <1>1, <1>2, <1>3, <1>4, <1>5 DEF Budget

\* A new call of guarded_get has used nothing.
LEMMA BudgetStarts ==
    ASSUME NEW c \in Calls, sent'[c] = <<>>, n429'[c] = 0, nnet'[c] = 0,
           phase'[c] \notin {"holding", "inserting"}
    PROVE  Budget(c)'
<1>1. Count(c, "limited")' = 0 /\ Count(c, "net")' = 0
    <2>1. <<>> \in Seq(Answers) /\ {"limited", "net"} \subseteq Answers BY DEF Answers
    <2>2. CountIn(<<>>, "limited") = 0 /\ CountIn(<<>>, "net") = 0 BY <2>1, AnswersAreCounted
    <2>3. \A a : Count(c, a)' = CountIn(sent'[c], a) BY DEF Count, CountIn
    <2> QED BY <2>2, <2>3
<1>2. Len(sent'[c]) = 0 OBVIOUS
<1> QED BY <1>1, <1>2 DEF Budget, AllUsed, Retried

\* What the answers of a fetch and its counts are made of.
LEMMA AnswersTyped ==
    ASSUME Shapes, NEW c \in Calls
    PROVE  /\ sent[c] \in Seq(Answers) /\ Len(sent[c]) \in Nat /\ DOMAIN sent[c] = 1 .. Len(sent[c])
           /\ n429[c] \in 0 .. Backoff /\ nnet[c] \in 0 .. NetRetries /\ Backoff \in Nat /\ NetRetries = 1
           /\ \A a : Count(c, a) = CountIn(sent[c], a)
           /\ \A a \in Answers : Count(c, a) \in Nat
<1>1. sent[c] \in Seq(Answers) /\ n429[c] \in 0 .. Backoff /\ nnet[c] \in 0 .. NetRetries BY DEF Shapes
<1>2. \A a : Count(c, a) = CountIn(sent[c], a) BY DEF Count, CountIn
<1> QED BY <1>1, <1>2, AnswersAreCounted, FetchesBelong

\* An answer is judged after it has come.
LEMMA BudgetAnswered ==
    ASSUME Shapes, NEW c \in Calls, NEW a \in Answers, AllUsed(c),
           sent'[c] = Append(sent[c], a), n429'[c] = n429[c], nnet'[c] = nnet[c], phase'[c] = "holding"
    PROVE  Budget(c)'
<1> DEFINE s == sent[c]
           t == Append(s, a)
           n == Len(s)
<1>1. /\ s \in Seq(Answers) /\ n \in Nat /\ DOMAIN s = 1 .. n
      /\ n429[c] \in Nat /\ nnet[c] \in Nat
    BY AnswersTyped
<1>2. Len(t) = n + 1 /\ t[n + 1] = a /\ \A i \in 1 .. n : t[i] = s[i] BY <1>1
<1>3. /\ n = n429[c] + nnet[c] /\ \A i \in 1 .. n : s[i] \in {"limited", "net"}
      /\ CountIn(s, "limited") = n429[c] /\ CountIn(s, "net") = nnet[c]
    BY AnswersTyped DEF AllUsed, Retried
<1>4. /\ CountIn(t, "limited") = CountIn(s, "limited") + (IF a = "limited" THEN 1 ELSE 0)
      /\ CountIn(t, "net") = CountIn(s, "net") + (IF a = "net" THEN 1 ELSE 0)
    BY <1>1, AnswersAreCounted DEF Answers
<1>5. \A b : Count(c, b)' = CountIn(sent'[c], b) BY DEF Count, CountIn
<1>6. sent'[c] = t OBVIOUS
<1> HIDE DEF s, t, n
<1>7. Count(c, "limited")' = CountIn(t, "limited") /\ Count(c, "net")' = CountIn(t, "net")
    BY <1>5, <1>6
<1>8. Len(t) = n429[c] + nnet[c] + 1 /\ \A i \in 1 .. Len(t) - 1 : t[i] \in {"limited", "net"}
    BY <1>1, <1>2, <1>3
<1>9. /\ CountIn(t, "limited") = n429[c] + (IF t[Len(t)] = "limited" THEN 1 ELSE 0)
      /\ CountIn(t, "net") = nnet[c] + (IF t[Len(t)] = "net" THEN 1 ELSE 0)
    BY <1>2, <1>3, <1>4
<1>10. AllButLastUsed(c)'
    BY <1>6, <1>7, <1>8, <1>9 DEF AllButLastUsed, Retried
<1> QED BY <1>10 DEF Budget

\* A retry uses up the answer it is for.
LEMMA BudgetRetried ==
    ASSUME Shapes, Shapes', NEW c \in Calls, AllButLastUsed(c), sent'[c] = sent[c],
           phase'[c] \notin {"holding", "inserting"},
           \/ /\ sent[c][Len(sent[c])] = "limited"
              /\ n429'[c] = n429[c] + 1 /\ nnet'[c] = nnet[c]
           \/ /\ sent[c][Len(sent[c])] = "net"
              /\ n429'[c] = n429[c] /\ nnet'[c] = nnet[c] + 1
    PROVE  Budget(c)'
<1> DEFINE s == sent[c]
           n == Len(s)
<1>1. s \in Seq(Answers) /\ n \in Nat /\ DOMAIN s = 1 .. n /\ n429[c] \in Nat /\ nnet[c] \in Nat
    BY AnswersTyped
<1>2. /\ n = n429[c] + nnet[c] + 1 /\ \A i \in 1 .. n - 1 : s[i] \in {"limited", "net"}
      /\ CountIn(s, "limited") = n429[c] + (IF s[n] = "limited" THEN 1 ELSE 0)
      /\ CountIn(s, "net") = nnet[c] + (IF s[n] = "net" THEN 1 ELSE 0)
    BY AnswersTyped DEF AllButLastUsed, Retried
<1>3. \A b : Count(c, b)' = CountIn(sent'[c], b) BY DEF Count, CountIn
<1>4. sent'[c] = s /\ s[n] \in {"limited", "net"} OBVIOUS
<1>5. n429'[c] + nnet'[c] = n /\ n429'[c] = CountIn(s, "limited") /\ nnet'[c] = CountIn(s, "net")
    BY <1>1, <1>2
<1> HIDE DEF s, n
<1>6. \A i \in 1 .. n : s[i] \in {"limited", "net"} BY <1>1, <1>2, <1>4
<1>7. Count(c, "limited")' = CountIn(s, "limited") /\ Count(c, "net")' = CountIn(s, "net")
    BY <1>3, <1>4
<1>8. AllUsed(c)' BY <1>4, <1>5, <1>6, <1>7 DEF AllUsed, Retried, n
<1> QED BY <1>8 DEF Budget

\* Every retry is paid from the budget of its kind.
LEMMA StepBudgets == CallsInv /\ [Next]_vars => Budgets'
<1> SUFFICES ASSUME CallsInv, [Next]_vars PROVE Budgets'
    OBVIOUS
<1> USE FetchesBelong
<1>0. /\ phase \in [Calls -> {"idle", "queued", "calling", "holding", "pausing", "inserting", "ended"}]
      /\ sent \in [Calls -> Seq(Answers)] /\ n429 \in [Calls -> 0 .. Backoff]
      /\ nnet \in [Calls -> 0 .. NetRetries]
      /\ Shapes /\ Shapes' /\ IdleOutside /\ \A c \in Calls : Budget(c)
    <2>1. Shapes' BY StepShapes
    <2>2. IdleOutside /\ \A c \in Calls : Budget(c) BY DEF CallsInv, Budgets
    <2> QED BY <2>1, <2>2 DEF CallsInv, TypeOK, Shapes
<1>1. ASSUME UNCHANGED get,
             NEW C \in SUBSET Calls, \A c \in Calls \ C : phase'[c] = phase[c],
             \A c \in C : {phase[c], phase'[c]} \cap {"holding", "inserting"} = {}
      PROVE  Budgets'
    BY <1>0, <1>1, BudgetStays DEF Budgets, get
<1>2. ASSUME NEW C \in SUBSET Calls, Clear(C), \A c \in Calls \ C : phase'[c] = phase[c],
             \A c \in C : phase'[c] \notin {"holding", "inserting"}
      PROVE  Budgets'
    <2>1. ASSUME NEW c \in C PROVE Budget(c)'
        <3>1. c \in Calls /\ sent'[c] = <<>> /\ n429'[c] = 0 /\ nnet'[c] = 0
            BY <1>2 DEF Clear
        <3> QED BY <1>2, <3>1, BudgetStarts
    <2>2. ASSUME NEW c \in Calls \ C PROVE Budget(c)'
        <3>1. sent'[c] = sent[c] /\ n429'[c] = n429[c] /\ nnet'[c] = nnet[c] BY <1>2 DEF Clear
        <3> QED BY <1>0, <1>2, <3>1, BudgetStays
    <2> QED BY <2>1, <2>2 DEF Budgets
<1>3. ASSUME NEW c \in Calls, NEW p, NEW q, Moves(c, p, q)
      PROVE  phase[c] = p /\ phase'[c] = q /\ \A d \in Calls \ {c} : phase'[d] = phase[d]
    BY <1>0, <1>3 DEF Moves
<1>4. ASSUME NEW c \in Calls, Acquire(c) \/ Resume(c) PROVE Budgets'
    <2>1. UNCHANGED get BY <1>4 DEF Acquire, Resume
    <2>2. \/ Moves(c, "queued", "calling")
          \/ Moves(c, "pausing", "queued")
        BY <1>4, StepsMove
    <2>3. {phase[c], phase'[c]} \cap {"holding", "inserting"} = {} BY <1>3, <2>2
    <2> QED BY <1>1, <1>3, <2>1, <2>2, <2>3
<1>5. ASSUME NEW c \in Calls, Release(c) PROVE Budgets'
    <2>0. phase[c] = "holding" /\ AllButLastUsed(c) BY <1>0, <1>5 DEF Release, Budget
    <2>1. ASSUME Budget(c)', \A d \in Calls \ {c} : /\ sent'[d] = sent[d] /\ n429'[d] = n429[d]
                                                    /\ nnet'[d] = nnet[d]
          PROVE  Budgets'
        <3>1. \A d \in Calls \ {c} : phase'[d] = phase[d]
            BY <1>3, <1>5, StepsMove
        <3> QED BY <1>0, <2>1, <3>1, BudgetStays DEF Budgets
    <2>2. ASSUME Retry(c), \/ /\ sent[c][Len(sent[c])] = "limited"
                              /\ n429' = [n429 EXCEPT ![c] = @ + 1] /\ UNCHANGED nnet
                           \/ /\ sent[c][Len(sent[c])] = "net"
                              /\ nnet' = [nnet EXCEPT ![c] = @ + 1] /\ UNCHANGED n429
          PROVE  Budgets'
        <3>1. phase'[c] = "pausing" /\ sent' = sent BY <1>0, <2>2 DEF Retry
        <3>2. \/ /\ sent[c][Len(sent[c])] = "limited"
                 /\ n429'[c] = n429[c] + 1 /\ nnet'[c] = nnet[c]
              \/ /\ sent[c][Len(sent[c])] = "net"
                 /\ n429'[c] = n429[c] /\ nnet'[c] = nnet[c] + 1
            BY <1>0, <2>2
        <3>3. Budget(c)' BY <1>0, <2>0, <3>1, <3>2, BudgetRetried
        <3>4. \A d \in Calls \ {c} : n429'[d] = n429[d] /\ nnet'[d] = nnet[d] BY <1>0, <2>2
        <3> QED BY <2>1, <3>1, <3>3, <3>4
    <2>3. ASSUME Return(c), GivenUp(c) PROVE Budgets'
        <3>1. CASE request[c] < Requests
            <4>1. Fresh(c) /\ phase' = [phase EXCEPT ![c] = "queued"] BY <2>3, <3>1 DEF Return
            <4>2. Budget(c)'
                <5>1. /\ sent'[c] = <<>> /\ n429'[c] = 0 /\ nnet'[c] = 0
                      /\ phase'[c] \notin {"holding", "inserting"}
                    BY <1>0, <4>1 DEF Fresh
                <5> QED BY <5>1, BudgetStarts
            <4> QED BY <1>0, <2>1, <4>1, <4>2 DEF Fresh
        <3>2. CASE ~(request[c] < Requests)
            <4>1. UNCHANGED get /\ phase'[c] = "inserting" BY <1>0, <2>3, <3>2 DEF Return
            <4>2. AllButLastUsed(c)' BY <2>0, <4>1, Zenon DEF AllButLastUsed, Retried, Count, get
            <4>3. GivenUp(c)' BY <2>3, <4>1, Zenon DEF GivenUp, get
            <4>4. Budget(c)' BY <4>1, <4>2, <4>3 DEF Budget
            <4> QED BY <2>1, <4>1, <4>4 DEF get
        <3> QED BY <3>1, <3>2
    <2>4. After(c) BY <1>5 DEF Release
    <2> QED BY <2>2, <2>3, <2>4 DEF After, GivenUp
<1>6. ASSUME NEW c \in Calls, Insert(c) PROVE Budgets'
    <2>1. Clear({c}) /\ Moves(c, "inserting", "ended") BY <1>6, StepsMove DEF Insert
    <2>2. phase'[c] = "ended" /\ \A d \in Calls \ {c} : phase'[d] = phase[d] BY <1>3, <2>1
    <2> QED BY <1>2, <2>1, <2>2
<1>7. ASSUME NEW c \in Calls, NEW a \in Answers, Answer(c, a) PROVE Budgets'
    <2>1. /\ phase[c] = "calling" /\ phase'[c] = "holding"
          /\ sent'[c] = Append(sent[c], a) /\ n429' = n429 /\ nnet' = nnet
        BY <1>0, <1>7 DEF Answer
    <2>2. AllUsed(c) BY <1>0, <2>1 DEF Budget
    <2>3. Budget(c)' BY <1>0, <2>1, <2>2, BudgetAnswered
    <2>4. \A d \in Calls \ {c} : phase'[d] = phase[d] /\ sent'[d] = sent[d] BY <1>0, <1>7 DEF Answer
    <2>5. \A d \in Calls \ {c} : Budget(d)' BY <1>0, <2>1, <2>4, BudgetStays
    <2> QED BY <2>3, <2>5 DEF Budgets
<1>8. ASSUME NEW j \in Jobs, Start(j) PROVE Budgets'
    <2>1. UNCHANGED get BY <1>8 DEF Start
    <2>2. /\ CallsOf(j) \in SUBSET Calls /\ \A c \in Calls \ CallsOf(j) : phase'[c] = phase[c]
          /\ \A c \in CallsOf(j) : phase[c] = "idle" /\ phase'[c] = "queued"
        BY <1>0, <1>8 DEF Start, AllIn, IdleOutside
    <2>3. \A c \in CallsOf(j) : {phase[c], phase'[c]} \cap {"holding", "inserting"} = {} BY <2>2
    <2> QED BY <1>1, <2>1, <2>2, <2>3
<1>9. ASSUME NEW j \in Jobs, Finish(j) \/ Timeout(j) PROVE Budgets'
    <2>1. /\ CallsOf(j) \in SUBSET Calls /\ Clear(CallsOf(j))
          /\ \A c \in Calls \ CallsOf(j) : phase'[c] = phase[c]
          /\ \A c \in CallsOf(j) : phase'[c] = "idle"
        BY <1>9 DEF Finish, Timeout, AllIn
    <2> QED BY <1>2, <2>1
<1>10. CASE Tick \/ UNCHANGED vars
    <2>1. UNCHANGED get /\ phase' = phase BY <1>10 DEF Tick, vars
    <2> QED BY <1>1, <2>1
<1> QED BY <1>4, <1>5, <1>6, <1>7, <1>8, <1>9, <1>10 DEF Next, Step

\* What the invariant says of a state is what guarded_get promises.
LEMMA InvariantGuards == CallsInv => RequestsAreGuarded
<1> SUFFICES ASSUME CallsInv PROVE RequestsAreGuarded
    OBVIOUS
<1> USE FetchesBelong
<1>0. TypeOK /\ Shapes BY DEF CallsInv, TypeOK, Shapes
<1>1. PermitsComeBack
    <2>1. free + Held = Permits BY DEF CallsInv, PermitsAdd, Holders, Held
    <2>2. ASSUME NEW c \in Calls
          PROVE  Cardinality({i \in DOMAIN queue : queue[i] = c}) = IF phase[c] = "queued" THEN 1 ELSE 0
        <3>1. CASE phase[c] = "queued"
            <4>1. PICK i \in DOMAIN queue : queue[i] = c BY <3>1 DEF CallsInv, QueueNamesWaiters
            <4>2. {k \in DOMAIN queue : queue[k] = c} = {i} BY <4>1 DEF CallsInv, QueueNamesWaiters
            <4>3. Cardinality({i}) = 1 BY FS_Singleton
            <4> QED BY <3>1, <4>2, <4>3
        <3>2. CASE phase[c] # "queued"
            <4>1. {k \in DOMAIN queue : queue[k] = c} = {} BY <3>2 DEF CallsInv, QueueNamesWaiters
            <4> QED BY <3>2, <4>1, FS_EmptySet
        <3> QED BY <3>1, <3>2
    <2>3. IdleOutside BY DEF CallsInv
    <2> QED BY <2>1, <2>2, <2>3 DEF PermitsComeBack, IdleOutside
<1>2. QuotaIsKept
    <2> SUFFICES ASSUME Delay > 0 PROVE spent <= Permits
        BY DEF QuotaIsKept
    <2>1. Spenders \in SUBSET Holders BY DEF CallsInv, TimersRun, Spenders, Holders, Holds
    <2>2. Holders \in SUBSET Calls BY DEF Holders
    <2>3. IsFiniteSet(Holders) /\ Cardinality(Holders) \in Nat BY <2>2, FetchesAreFinite
    <2>4. Cardinality(Spenders) <= Cardinality(Holders) BY <2>1, <2>3, FS_Subset
    <2>5. spent = Cardinality(Spenders) /\ free + Cardinality(Holders) = Permits
        BY DEF CallsInv, SpendingHeld, PermitsAdd
    <2> QED BY <1>0, <2>3, <2>4, <2>5 DEF TypeOK
<1>3. RetriesAreBudgeted
    <2> SUFFICES ASSUME NEW c \in Calls
                 PROVE  /\ Count(c, "limited") <= Backoff + 1 /\ Count(c, "net") <= NetRetries + 1
                        /\ Len(sent[c]) <= Backoff + NetRetries + 1
                        /\ \A i \in 1 .. Len(sent[c]) - 1 : sent[c][i] \in {"limited", "net"}
                        /\ phase[c] = "inserting" =>
                              \/ sent[c][Len(sent[c])] \in {"ok", "refused"}
                              \/ Count(c, "limited") = Backoff + 1
                              \/ Count(c, "net") = NetRetries + 1
        BY DEF RetriesAreBudgeted
    <2>1. n429[c] \in 0 .. Backoff /\ nnet[c] \in 0 .. NetRetries /\ Len(sent[c]) \in Nat
        BY <1>0, AnswersTyped
    <2>2. Budget(c) BY DEF CallsInv, Budgets
    <2>3. CASE AllUsed(c) /\ phase[c] # "inserting" BY <2>1, <2>3 DEF AllUsed, Retried
    <2>4. CASE AllButLastUsed(c) /\ (phase[c] = "inserting" => GivenUp(c))
        BY <2>1, <2>4 DEF AllButLastUsed, Retried, GivenUp
    <2> QED BY <2>2, <2>3, <2>4 DEF Budget
<1> QED BY <1>0, <1>1, <1>2, <1>3 DEF RequestsAreGuarded, SemaphoreIsKept

\* Whatever mixture of answers, retries and runs that end or are cancelled: no permit is
\* lost or given twice, the queue names the waiters, the provider counts no more answers
\* in a unit of time than there are permits, and no request is repeated beyond its budget.
THEOREM CallsGuarded == CallsSpec => []RequestsAreGuarded
<1>1. Init => CallsInv
    <2> SUFFICES ASSUME Init PROVE CallsInv
        OBVIOUS
    <2> USE FetchesBelong DEF Init
    <2>1. TypeOK
        <3>1. <<>> \in Seq(Answers) /\ <<>> \in Seq(Calls) /\ 0 \in 0 .. Backoff /\ 0 \in 0 .. NetRetries
            OBVIOUS
        <3> QED BY <3>1 DEF TypeOK
    <2>2. PermitsAdd
        <3>1. Holders = {} BY DEF Holders, Holds
        <3> QED BY <3>1, FS_EmptySet DEF PermitsAdd
    <2>3. QueueNamesWaiters BY DEF QueueNamesWaiters
    <2>4. IdleOutside BY DEF IdleOutside
    <2>5. TimersRun BY DEF TimersRun
    <2>6. SpendingHeld
        <3>1. Delay > 0 => Spenders = {} BY DEF Spenders
        <3> QED BY <3>1, FS_EmptySet DEF SpendingHeld
    <2>7. ASSUME NEW c \in Calls PROVE Budget(c)
        <3>1. Count(c, "limited") = 0 /\ Count(c, "net") = 0
            <4>1. <<>> \in Seq(Answers) /\ {"limited", "net"} \subseteq Answers BY DEF Answers
            <4>2. CountIn(<<>>, "limited") = 0 /\ CountIn(<<>>, "net") = 0 BY <4>1, AnswersAreCounted
            <4>3. \A a : Count(c, a) = CountIn(sent[c], a) BY DEF Count, CountIn
            <4> QED BY <4>2, <4>3
        <3>2. Len(sent[c]) = 0 OBVIOUS
        <3> QED BY <3>1, <3>2 DEF Budget, AllUsed, Retried
    <2> QED BY <2>1, <2>2, <2>3, <2>4, <2>5, <2>6, <2>7 DEF CallsInv, Budgets
<1>2. CallsInv /\ [Next]_vars => CallsInv'
    <2> SUFFICES ASSUME CallsInv, [Next]_vars PROVE CallsInv'
        OBVIOUS
    <2>1. Shapes' /\ PermitsAdd' /\ free' \in Nat /\ spent' \in Nat BY StepShapes, StepPermits, StepSpending
    <2>2. free' \in 0 .. Permits
        <3>1. Holders' \in SUBSET Calls BY DEF Holders
        <3>2. Cardinality(Holders') \in Nat BY <3>1, FetchesAreFinite
        <3>3. free' + Cardinality(Holders') = Permits BY <2>1 DEF PermitsAdd
        <3>4. \A f \in Nat, h \in Nat : f + h = Permits => f \in 0 .. Permits BY FetchesBelong
        <3> QED BY <2>1, <3>2, <3>3, <3>4, Zenon
    <2>3. TypeOK' BY <2>1, <2>2 DEF TypeOK, Shapes
    <2> QED BY <2>1, <2>3, StepQueue, StepIdle, StepTimers, StepSpending, StepBudgets DEF CallsInv
<1> QED BY <1>1, <1>2, InvariantGuards, PTL DEF CallsSpec

====
