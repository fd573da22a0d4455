------------------------ MODULE MarketCloses_proofs ------------------------
(***************************************************************************)
(* Proofs that a close is stored once, that a new closing price is the one *)
(* read for a past session, and that the newest return compares closing    *)
(* prices, for any prices and any number of days and runs.                 *)
(***************************************************************************)
EXTENDS MarketCloses, FiniteSetTheorems, SequenceTheorems, TLAPS

\* A function on a finite set has a greatest value: what lies above a member shrinks as
\* the value grows, and proper inclusion is well-founded on the subsets of a finite set.
LEMMA GreatestOf ==
    ASSUME NEW S, IsFiniteSet(S), S # {}, NEW f \in [S -> Int]
    PROVE  \E a \in S : \A b \in S : f[b] <= f[a]
<1> DEFINE Above(a) == {b \in S : f[a] < f[b]}
           T == {Above(a) : a \in S}
<1>1. T \subseteq SUBSET S /\ \E x : x \in T
    <2>1. PICK a \in S : TRUE OBVIOUS
    <2> QED BY <2>1
<1> HIDE DEF T
<1>2. PICK x \in T : \A y \in T : ~ (<<y, x>> \in StrictSubsetOrdering(S))
    <2>1. IsWellFoundedOn(StrictSubsetOrdering(S), SUBSET S)
        BY FS_StrictSubsetOrderingWellFounded, FS_FiniteSubsetsOfFinite
    <2>2. T \subseteq SUBSET S /\ T # {} BY <1>1
    <2> QED BY <2>1, <2>2, WFMin
<1>3. PICK a \in S : x = Above(a) BY DEF T
<1>4. ASSUME NEW b \in S, f[a] < f[b] PROVE FALSE
    <2>1. Above(b) \in T BY DEF T
    <2>2. Above(b) \subseteq Above(a) /\ b \in Above(a) /\ b \notin Above(b) BY <1>4
    <2> QED BY <1>1, <1>2, <1>3, <2>1, <2>2 DEF StrictSubsetOrdering
<1> QED BY <1>4

\* What the market shows: past sessions are final, the current one once it is over.
MarketInv ==
    /\ \A d \in Days : d > day => final[d] = 0
    /\ \A d \in Days : d < day => final[d] \in Prices
    /\ slot = LastSlot => final[day] \in Prices /\ price = final[day]
    /\ slot < LastSlot => final[day] = 0 /\ (price = 0 \/ price \in quotes[day])

\* The bar in hand shows the close of its day or a price from before the close.
BarInv ==
    bar # NoBar =>
        /\ bar.day <= day
        /\ bar.final = "yes" => bar.price = final[bar.day]
        /\ bar.final = "no" => bar.price \in quotes[bar.day] /\ stored[bar.day] = "no"

\* A row shows a price from before the close, or it is the last row of its date.
RowsInv ==
    \A i \in DOMAIN rows :
        \/ rows[i].price \in quotes[rows[i].day]
        \/ /\ rows[i].price = final[rows[i].day] /\ stored[rows[i].day] = "yes"
           /\ \A j \in DOMAIN rows : rows[j].day = rows[i].day => j <= i

\* A close that was stored is in the table.
StoredInv ==
    \A d \in Days : stored[d] = "yes" =>
        /\ final[d] \in Prices
        /\ \E i \in DOMAIN rows : rows[i].day = d /\ rows[i].price = final[d]

\* The newest return: what it starts from is the latest earlier session with a close and
\* what is read of it now, unless no session before it has one; the run in hand is not of
\* an earlier date.
ReturnInv ==
    ret # NoReturn =>
        /\ ret.of \in Days /\ ret.from \in Days /\ ret.from < ret.of /\ Written(ret.from) # {}
        /\ \A d \in Days : ret.from < d /\ d < ret.of => Written(d) = {}
        /\ stored[ret.of] = "yes" => ret.price = final[ret.of]
        /\ Sessions(ret.from) # {} => ret.base = CloseOf(ret.from)
        /\ bar # NoBar => ret.from <= bar.day

IInv ==
    /\ TypeOK /\ MarketInv /\ BarInv /\ RowsInv /\ StoredInv
    /\ NoDuplicates /\ ReturnInv

RowType(d) == [day : 1 .. d, price : Prices]

---------------------------------------------------------------------------
\* The invariant holds initially: nothing was shown, stored or computed.
LEMMA InitInv == Init => IInv
<1> SUFFICES ASSUME Init PROVE IInv
    OBVIOUS
<1> USE ClosesAssumption
<1>1. TypeOK
    <2>2. rows \in Seq(RowType(day)) BY EmptySeq DEF Init
    <2> QED BY <2>2 DEF Init, TypeOK, Days, Bars, NoBar, NoReturn, RowType
<1>2. MarketInv BY DEF Init, MarketInv, Days
<1>3. rows = <<>> /\ DOMAIN rows = {} BY DEF Init
<1>4. RowsInv /\ NoDuplicates BY <1>3 DEF RowsInv, NoDuplicates
<1>5. BarInv /\ StoredInv /\ ReturnInv
    BY DEF Init, BarInv, StoredInv, ReturnInv
<1> QED BY <1>1, <1>2, <1>4, <1>5 DEF IInv

\* The rows keep their types as time goes by.
LEMMA RowsAge ==
    ASSUME NEW d \in Nat, NEW e \in Nat, d <= e, NEW s \in Seq(RowType(d))
    PROVE  s \in Seq(RowType(e))
<1>1. RowType(d) \subseteq RowType(e) BY DEF RowType
<1> QED BY <1>1, SeqMonotonic

\* What TypeOK says in terms of RowType.
LEMMA Types ==
    ASSUME TypeOK
    PROVE  /\ Days \subseteq Nat \ {0} /\ day \in Nat /\ slot \in Nat
           /\ rows \in Seq(RowType(day)) /\ Len(rows) \in Nat
           /\ DOMAIN rows = 1 .. Len(rows)
           /\ \A i \in DOMAIN rows : rows[i] \in RowType(day) /\ rows[i].day \in Days
<1> USE ClosesAssumption DEF TypeOK
<1>1. Days \subseteq Nat \ {0} /\ day \in Nat /\ slot \in Nat BY DEF Days
<1>3. rows \in Seq(RowType(day)) BY DEF RowType
<1>4. Len(rows) \in Nat /\ DOMAIN rows = 1 .. Len(rows) BY <1>3, LenProperties
<1>5. ASSUME NEW i \in DOMAIN rows
      PROVE  rows[i] \in RowType(day) /\ rows[i].day \in Days
    <2>1. rows[i] \in RowType(day) BY <1>3, <1>4, ElementOfSeq
    <2> QED BY <2>1, <1>1 DEF RowType, Days
<1> QED BY <1>1, <1>3, <1>4, <1>5

\* The newest return stays as it is where no close, bar or row changes.
LEMMA ReturnKept ==
    ASSUME ReturnInv, UNCHANGED <<final, rows, stored, ret>>, bar' # NoBar => bar' = bar
    PROVE  ReturnInv'
<1>1. UNCHANGED <<Days, NoBar>> /\ \A d : Written(d)' = Written(d) /\ Sessions(d)' = Sessions(d)
    BY DEF Days, NoBar, Written, Sessions
<1>2. \A d : CloseOf(d)' = CloseOf(d) BY <1>1 DEF CloseOf, LastWritten
<1> QED BY <1>1, <1>2 DEF ReturnInv

\* The market moves on: an open bar shows another price, or it becomes final.
LEMMA TradeStep == ASSUME IInv, Trade PROVE IInv'
<1> USE ClosesAssumption
<1>1. TypeOK /\ MarketInv /\ BarInv /\ RowsInv /\ StoredInv /\ NoDuplicates /\ ReturnInv
    BY DEF IInv
<1>2. /\ Days \subseteq Nat \ {0} /\ day \in Nat /\ slot \in Nat
      /\ rows \in Seq(RowType(day)) /\ DOMAIN rows = 1 .. Len(rows)
      /\ \A i \in DOMAIN rows : rows[i] \in RowType(day) /\ rows[i].day \in Days
    BY <1>1, Types
<1>3. /\ slot < LastSlot /\ slot' = slot + 1 /\ price' \in Prices
      /\ UNCHANGED <<day, bar, rows, stored, ret>>
    BY DEF Trade
<1>4. final[day] = 0 BY <1>1, <1>3 DEF MarketInv
<1>5. stored[day] = "no"
    BY <1>1, <1>4 DEF StoredInv, TypeOK
<1>6. /\ final \in [Days -> Prices \cup {0}] /\ quotes \in [Days -> SUBSET Prices]
      /\ day \in Days /\ day' = day
    BY <1>1, <1>3 DEF TypeOK
<1>7. /\ final' \in [Days -> Prices \cup {0}] /\ quotes' \in [Days -> SUBSET Prices]
      /\ \A d \in Days : d # day => final'[d] = final[d] /\ quotes'[d] = quotes[d]
      /\ quotes[day] \subseteq quotes'[day]
    <2>1. CASE slot + 1 < LastSlot
        BY <2>1, <1>3, <1>6 DEF Trade
    <2>2. CASE ~(slot + 1 < LastSlot)
        BY <2>2, <1>3, <1>6 DEF Trade
    <2> QED BY <2>1, <2>2
<1>9. TypeOK'
    <2>1. rows' \in Seq(RowType(day')) BY <1>2, <1>3
    <2>2. slot' \in 0 .. LastSlot BY <1>2, <1>3
    <2> QED BY <2>1, <2>2, <1>1, <1>3, <1>6, <1>7 DEF TypeOK, RowType
<1>10. MarketInv'
    <2>1. CASE slot + 1 < LastSlot
        BY <2>1, <1>1, <1>2, <1>3, <1>6 DEF Trade, MarketInv
    <2>2. CASE ~(slot + 1 < LastSlot)
        <3>1. slot + 1 = LastSlot BY <2>2, <1>2, <1>3
        <3>2. final' = [final EXCEPT ![day] = price'] BY <2>2 DEF Trade
        <3> QED BY <3>1, <3>2, <1>1, <1>2, <1>3, <1>6 DEF MarketInv
    <2> QED BY <2>1, <2>2
<1>11. BarInv'
    <2> SUFFICES ASSUME bar # NoBar PROVE BarInv'
        BY <1>3 DEF BarInv
    <2>1. bar \in Bars BY <1>1 DEF TypeOK
    <2>2. bar.final = "yes" => bar.day # day
        BY <2>1, <1>1, <1>4 DEF BarInv, Bars
    <2> QED BY <2>1, <2>2, <1>1, <1>3, <1>7 DEF BarInv, Bars
<1>12. RowsInv'
    <2> SUFFICES ASSUME NEW i \in DOMAIN rows
                 PROVE  \/ rows[i].price \in quotes'[rows[i].day]
                        \/ /\ rows[i].price = final'[rows[i].day]
                           /\ stored[rows[i].day] = "yes"
                           /\ \A j \in DOMAIN rows : rows[j].day = rows[i].day => j <= i
        BY <1>3 DEF RowsInv
    <2>1. rows[i].day \in Days BY <1>2
    <2>2. CASE rows[i].day = day BY <2>1, <2>2, <1>1, <1>5, <1>7 DEF RowsInv
    <2>3. CASE rows[i].day # day BY <2>1, <2>3, <1>1, <1>7 DEF RowsInv
    <2> QED BY <2>2, <2>3
<1>13. StoredInv'
    <2> SUFFICES ASSUME NEW d \in Days, stored[d] = "yes"
                 PROVE  /\ final'[d] \in Prices
                        /\ \E i \in DOMAIN rows : rows[i].day = d /\ rows[i].price = final'[d]
        BY <1>3 DEF StoredInv
    <2>1. d # day BY <1>5
    <2> QED BY <2>1, <1>1, <1>7 DEF StoredInv
<1>14. NoDuplicates' BY <1>1, <1>3 DEF NoDuplicates
<1>15. ReturnInv'
    <2> SUFFICES ASSUME ret # NoReturn PROVE ReturnInv'
        BY <1>3 DEF ReturnInv
    <2>1. ret.of \in Days /\ (stored[ret.of] = "yes" => ret.of # day) BY <1>1, <1>5 DEF ReturnInv
    <2>2. UNCHANGED <<Days, NoBar>> /\ \A d : Written(d)' = Written(d) /\ Sessions(d)' = Sessions(d)
        BY <1>3 DEF Days, NoBar, Written, Sessions
    <2>3. \A d : CloseOf(d)' = CloseOf(d) BY <1>3, <2>2 DEF CloseOf, LastWritten
    <2>4. UNCHANGED <<ret, bar, stored>> BY <1>3
    <2> QED BY <2>1, <2>2, <2>3, <2>4, <1>1, <1>7 DEF ReturnInv
<1> QED BY <1>9, <1>10, <1>11, <1>12, <1>13, <1>14, <1>15 DEF IInv

\* A new day begins, with no price yet.
LEMMA NextDayStep == ASSUME IInv, NextDay PROVE IInv'
<1> USE ClosesAssumption
<1>1. TypeOK /\ MarketInv /\ BarInv /\ RowsInv /\ StoredInv /\ NoDuplicates /\ ReturnInv
    BY DEF IInv
<1>2. /\ Days \subseteq Nat \ {0} /\ day \in Nat /\ slot \in Nat
      /\ rows \in Seq(RowType(day))
    BY <1>1, Types
<1>3. /\ slot = LastSlot /\ day < LastDay /\ day' = day + 1 /\ slot' = 0 /\ price' = 0
      /\ UNCHANGED <<quotes, final, bar, rows, stored, ret>>
    BY DEF NextDay
<1>5. day' \in Days BY <1>2, <1>3 DEF Days
<1>6. TypeOK'
    <2>1. rows' \in Seq(RowType(day')) BY <1>2, <1>3, RowsAge
    <2>2. ret' \in [of : 0 .. day', price : Prices, from : 0 .. day', base : Prices] \cup {NoReturn}
        BY <1>1, <1>2, <1>3 DEF TypeOK
    <2> QED BY <2>1, <2>2, <1>1, <1>3, <1>5 DEF TypeOK, RowType
<1>7. MarketInv'
    <2>1. \A d \in Days : d > day' => d > day BY <1>2, <1>3
    <2>2. \A d \in Days : d < day' => d < day \/ d = day BY <1>2, <1>3
    <2>3. day' > day /\ slot' # LastSlot BY <1>2, <1>3
    <2> QED BY <2>1, <2>2, <2>3, <1>1, <1>3, <1>5 DEF MarketInv
<1>8. BarInv'
    <2> SUFFICES ASSUME bar # NoBar PROVE BarInv'
        BY <1>3 DEF BarInv
    <2>1. bar.day \in Nat BY <1>1, <1>2 DEF TypeOK, Bars
    <2> QED BY <2>1, <1>1, <1>2, <1>3 DEF BarInv
<1>9. RowsInv' /\ StoredInv' /\ NoDuplicates'
    BY <1>1, <1>3 DEF RowsInv, StoredInv, NoDuplicates
<1>10. ReturnInv' BY <1>1, <1>3, ReturnKept
<1> QED BY <1>6, <1>7, <1>8, <1>9, <1>10 DEF IInv

\* A run downloads the bar of the day, or that of the day before.
LEMMA DownloadStep == ASSUME IInv, Download PROVE IInv'
<1> USE ClosesAssumption
<1>1. TypeOK /\ MarketInv /\ BarInv /\ RowsInv /\ StoredInv /\ NoDuplicates /\ ReturnInv
    BY DEF IInv
<1>2. Days \subseteq Nat \ {0} /\ day \in Nat /\ slot \in Nat /\ slot <= LastSlot
    BY <1>1, Types DEF TypeOK
<1>3. UNCHANGED <<day, slot, price, quotes, final, rows, stored, ret>>
    BY DEF Download
<1>4. bar' \in Bars /\ BarInv'
    <2>1. CASE /\ price # 0
               /\ bar' = [day |-> day, price |-> price,
                          final |-> IF slot = LastSlot THEN "yes" ELSE "no"]
        <3>1. price \in Prices /\ day \in Days BY <2>1, <1>1 DEF TypeOK
        <3>2. bar' \in Bars BY <2>1, <3>1 DEF Bars
        <3>3. CASE slot = LastSlot
            <4>1. bar'.final = "yes" /\ bar'.day = day /\ bar'.price = price BY <2>1, <3>3
            <4> QED BY <4>1, <3>2, <3>3, <1>1, <1>2, <1>3 DEF BarInv, MarketInv
        <3>4. CASE slot # LastSlot
            <4>1. bar'.final = "no" /\ bar'.day = day /\ bar'.price = price BY <2>1, <3>4
            <4>2. slot < LastSlot BY <3>4, <1>2
            <4>3. final[day] = 0 /\ price \in quotes[day] BY <4>2, <2>1, <1>1 DEF MarketInv
            <4>4. stored[day] = "no" BY <4>3, <3>1, <1>1 DEF StoredInv, TypeOK
            <4> QED BY <4>1, <4>3, <4>4, <3>2, <1>2, <1>3 DEF BarInv
        <3> QED BY <3>3, <3>4
    <2>2. CASE /\ day > 1
               /\ bar' = [day |-> day - 1, price |-> final[day - 1], final |-> "yes"]
        <3>1. day - 1 \in Days /\ day - 1 < day BY <2>2, <1>1, <1>2 DEF TypeOK, Days
        <3>2. final[day - 1] \in Prices BY <3>1, <1>1 DEF MarketInv
        <3>3. bar' \in Bars BY <2>2, <3>1, <3>2 DEF Bars
        <3>4. bar'.final = "yes" /\ bar'.day = day - 1 /\ bar'.price = final[day - 1]
            BY <2>2
        <3> QED BY <3>1, <3>3, <3>4, <1>2, <1>3 DEF BarInv
    <2> QED BY <2>1, <2>2 DEF Download
<1>5. TypeOK' BY <1>1, <1>3, <1>4 DEF TypeOK
<1>6. MarketInv' /\ RowsInv' /\ StoredInv' /\ NoDuplicates'
    BY <1>1, <1>3 DEF MarketInv, RowsInv, StoredInv, NoDuplicates
<1>7. ReturnInv'
    <2> SUFFICES ASSUME ret # NoReturn PROVE ReturnInv'
        BY <1>3 DEF ReturnInv
    <2>1. ret.of \in Nat /\ ret.from \in Nat /\ ret.from < ret.of /\ ret.of <= day
        BY <1>1, <1>2 DEF ReturnInv, TypeOK, NoReturn
    <2>2. bar'.day = day \/ bar'.day = day - 1 BY DEF Download
    <2>3. ret.from <= bar'.day BY <1>2, <2>1, <2>2
    <2>4. UNCHANGED <<Days, NoBar>> /\ \A d : Written(d)' = Written(d) /\ Sessions(d)' = Sessions(d)
        BY <1>3 DEF Days, NoBar, Written, Sessions
    <2>5. \A d : CloseOf(d)' = CloseOf(d) BY <1>3, <2>4 DEF CloseOf, LastWritten
    <2> QED BY <2>3, <2>4, <2>5, <1>1, <1>3 DEF ReturnInv
<1> QED BY <1>4, <1>5, <1>6, <1>7 DEF IInv

\* The last written of some rows is one of them.
LEMMA LastIsWritten ==
    ASSUME NEW I, I # {}, NEW n \in Nat, I \subseteq 1 .. n
    PROVE  LastWritten(I) \in I
<1> DEFINE same == [i \in I |-> i]
<1>1. IsFiniteSet(I) BY FS_Interval, FS_Subset, 1 \in Int, n \in Int
<1>2. same \in [I -> Int] /\ \A i \in I : same[i] = i OBVIOUS
<1> HIDE DEF same
<1>3. \E i \in I : \A j \in I : same[j] <= same[i] BY <1>1, <1>2, GreatestOf
<1> QED BY <1>2, <1>3 DEF LastWritten

\* A run stores its bar: the return of its date starts from an earlier session, and the
\* row is the last of its date unless its price was there.
LEMMA StoreStep == ASSUME IInv, Store PROVE IInv'
<1> USE ClosesAssumption
<1>1. TypeOK /\ MarketInv /\ BarInv /\ RowsInv /\ StoredInv /\ NoDuplicates
      /\ ReturnInv
    BY DEF IInv
<1>2. /\ Days \subseteq Nat \ {0} /\ day \in Nat /\ slot \in Nat
      /\ rows \in Seq(RowType(day)) /\ Len(rows) \in Nat
      /\ DOMAIN rows = 1 .. Len(rows)
      /\ \A i \in DOMAIN rows : rows[i] \in RowType(day) /\ rows[i].day \in Days
    BY <1>1, Types
<1>3. /\ bar # NoBar /\ bar \in Bars /\ bar' = NoBar
      /\ UNCHANGED <<day, slot, price, quotes, final>>
    BY <1>1 DEF Store, TypeOK
<1> DEFINE d == bar.day
           p == bar.price
           new == [day |-> d, price |-> p]
           n == Len(rows)
<1>4. /\ d \in Days /\ p \in Prices /\ bar.final \in {"yes", "no"} /\ d <= day
      /\ bar.final = "yes" => p = final[d]
      /\ bar.final = "no" => p \in quotes[d] /\ stored[d] = "no"
    BY <1>1, <1>3 DEF Bars, BarInv
<1>5. /\ stored \in [Days -> {"yes", "no"}] /\ stored' \in [Days -> {"yes", "no"}]
      /\ stored' = IF bar.final = "yes" THEN [stored EXCEPT ![d] = "yes"] ELSE stored
    BY <1>1, <1>4 DEF Store, TypeOK
<1>5a. d \in Nat /\ d >= 1 /\ d <= day /\ d \in 1 .. day
    <2>1. d \in Nat /\ d # 0 BY <1>2, <1>4
    <2>2. d <= day /\ day \in Nat BY <1>2, <1>4
    <2> HIDE DEF d
    <2> QED BY <2>1, <2>2
<1>6. new \in RowType(day)
    <2>1. p \in Prices BY <1>4
    <2> HIDE DEF d, p
    <2> QED BY <1>5a, <2>1 DEF RowType
<1>7. \/ rows' = rows /\ \E i \in DOMAIN rows : rows[i].day = d /\ rows[i].price = p
      \/ /\ rows' = Append(rows, new)
         /\ ~ \E i \in DOMAIN rows : rows[i].day = d /\ rows[i].price = p
    BY DEF Store, Insert, Written
<1>8. \/ Base(d) = {} /\ ret' = ret
      \/ \E top \in Days :
            /\ ret' = [of |-> d, price |-> p, from |-> top, base |-> CloseOf(top)]
            /\ top < d /\ Written(top) # {}
            /\ \A e \in Days : top < e /\ e < d => Written(e) = {}
    <2> DEFINE B == Base(d)
    <2>1. CASE B = {} BY <2>1 DEF Store
    <2>2. CASE B # {}
        <3>0. \A e \in B : e \in Nat /\ e < d BY <1>2 DEF Base, Sessions
        <3>1. B \subseteq 0 .. d /\ d \in Nat
            <4> HIDE DEF B, d
            <4> QED BY <3>0, <1>5a
        <3>2. \E e \in B : \A f \in B : f <= e
            <4>1. B \in SUBSET Nat /\ \A e \in B : e <= d BY <3>0, <3>1
            <4> HIDE DEF B, d
            <4>2. IsFiniteSet(B) BY <3>1, <4>1, FS_BoundedSetOfNaturals
            <4> DEFINE same == [e \in B |-> e]
            <4>3. same \in [B -> Int] /\ \A e \in B : same[e] = e BY <4>1
            <4> HIDE DEF same
            <4>4. \E e \in B : \A f \in B : same[f] <= same[e] BY <2>2, <4>2, <4>3, GreatestOf
            <4> QED BY <4>3, <4>4
        <3> DEFINE top == Latest(B)
        <3>3. top \in B /\ \A f \in B : f <= top BY <3>2 DEF Latest
        <3>4. top \in Days /\ top < d /\ Written(top) # {} BY <3>3 DEF Base, Sessions
        <3>5. ret' = [of |-> d, price |-> p, from |-> top, base |-> CloseOf(top)]
            BY <2>2 DEF Store
        <3> HIDE DEF top
        <3>6. ASSUME NEW e \in Days, top < e, e < d PROVE Written(e) = {}
            <4>1. e \in B \/ Written(e) = {} BY <3>6 DEF Base, Sessions
            <4>2. ~(e <= top) BY <3>4, <3>6, <1>2
            <4> HIDE DEF B
            <4> QED BY <4>1, <4>2, <3>3
        <3> HIDE DEF d, p
        <3> QED BY <3>4, <3>5, <3>6
    <2> QED BY <2>1, <2>2
<1> HIDE DEF d, p
<1>9. /\ rows' \in Seq(RowType(day)) /\ DOMAIN rows' = 1 .. Len(rows')
      /\ Len(rows') \in Nat
      /\ \A i \in DOMAIN rows : i \in DOMAIN rows' /\ rows'[i] = rows[i]
      /\ \A i \in DOMAIN rows' : i \in DOMAIN rows \/ (i = n + 1 /\ rows'[i] = new)
      /\ rows' # rows => n + 1 \in DOMAIN rows' /\ rows'[n + 1] = new
      /\ \E i \in DOMAIN rows' : rows'[i].day = d /\ rows'[i].price = p
    <2>1. CASE rows' = rows
        <3>1. rows # Append(rows, new)
            <4> DEFINE longer == Append(rows, new)
            <4>1. Len(longer) = Len(rows) + 1 BY <1>2, <1>6, AppendProperties
            <4> HIDE DEF longer
            <4>2. rows # longer BY <4>1, <1>2
            <4> QED BY <4>2 DEF longer
        <3>2. \E i \in DOMAIN rows : rows[i].day = d /\ rows[i].price = p
            BY <3>1, <2>1, <1>7
        <3>3. /\ rows' \in Seq(RowType(day)) /\ DOMAIN rows' = 1 .. Len(rows')
              /\ Len(rows') \in Nat /\ DOMAIN rows' = DOMAIN rows
            BY <2>1, <1>2
        <3>4. \A i \in DOMAIN rows : i \in DOMAIN rows' /\ rows'[i] = rows[i]
            BY <2>1
        <3>5. \E i \in DOMAIN rows' : rows'[i].day = d /\ rows'[i].price = p
            BY <3>2, <2>1
        <3> HIDE DEF new, n
        <3> QED BY <2>1, <3>3, <3>4, <3>5
    <2>2. CASE rows' = Append(rows, new)
        <3>1. /\ rows' \in Seq(RowType(day)) /\ Len(rows') = n + 1
              /\ \A i \in 1 .. n : rows'[i] = rows[i]
              /\ rows'[n + 1] = new
            BY <2>2, <1>2, <1>6, AppendProperties
        <3>2. DOMAIN rows' = 1 .. n + 1 BY <3>1, LenProperties
        <3> QED BY <3>1, <3>2, <1>2
    <2> QED BY <2>1, <2>2, <1>7
<1>10. TypeOK'
    <2>1. ret' \in [of : 0 .. day, price : Prices, from : 0 .. day, base : Prices] \cup {NoReturn}
        <3>1. CASE ret' = ret BY <3>1, <1>1 DEF TypeOK
        <3>2. CASE ret' # ret
            <4>1. PICK top \in Days :
                     /\ ret' = [of |-> d, price |-> p, from |-> top, base |-> CloseOf(top)]
                     /\ top < d /\ Written(top) # {}
                BY <3>2, <1>8
            <4>2. LastWritten(Written(top)) \in DOMAIN rows BY <4>1, <1>2, LastIsWritten DEF Written
            <4>3. CloseOf(top) \in Prices BY <4>2, <1>2 DEF CloseOf, RowType
            <4>4. top \in 0 .. day /\ d \in 0 .. day BY <4>1, <1>2, <1>5a
            <4> QED BY <4>1, <4>3, <4>4, <1>4
        <3> QED BY <3>1, <3>2
    <2> QED BY <2>1, <1>1, <1>3, <1>5, <1>9 DEF TypeOK, RowType
<1>11. MarketInv' /\ BarInv'
    BY <1>1, <1>3 DEF MarketInv, BarInv
<1>12. ASSUME NEW e \in Days, e # d
       PROVE  Written(e)' = Written(e) /\ (Written(e) # {} => CloseOf(e)' = CloseOf(e))
    <2>1. new.day = d OBVIOUS
    <2> HIDE DEF new, n
    <2>2. Written(e)' = Written(e) BY <2>1, <1>9, <1>12 DEF Written
    <2>3. Written(e) # {} => LastWritten(Written(e)) \in DOMAIN rows BY <1>2, LastIsWritten DEF Written
    <2> QED BY <2>2, <2>3, <1>9 DEF CloseOf, LastWritten
<1>13. \A e \in Days : stored[e] = "yes" => stored'[e] = "yes"
    BY <1>4, <1>5
<1>14. \A e \in Days : stored'[e] = "yes" => stored[e] = "yes" \/ (e = d /\ bar.final = "yes")
    BY <1>4, <1>5
<1>15. StoredInv'
    <2> SUFFICES ASSUME NEW e \in Days, stored'[e] = "yes"
                 PROVE  /\ final[e] \in Prices
                        /\ \E i \in DOMAIN rows' : rows'[i].day = e /\ rows'[i].price = final[e]
        BY <1>3 DEF StoredInv
    <2>1. CASE stored[e] = "yes"
        <3>1. PICK i \in DOMAIN rows : rows[i].day = e /\ rows[i].price = final[e]
            BY <2>1, <1>1 DEF StoredInv
        <3> QED BY <2>1, <3>1, <1>1, <1>9 DEF StoredInv
    <2>2. CASE e = d /\ bar.final = "yes"
        BY <2>2, <1>4, <1>9
    <2> QED BY <2>1, <2>2, <1>14
<1>16. NoDuplicates'
    <2> SUFFICES ASSUME NEW i \in DOMAIN rows', NEW j \in DOMAIN rows',
                        rows'[i].day = rows'[j].day, rows'[i].price = rows'[j].price
                 PROVE  i = j
        BY DEF NoDuplicates
    <2>1. CASE rows' = rows BY <2>1, <1>1 DEF NoDuplicates
    <2>2. CASE rows' # rows
        <3>1. \A k \in DOMAIN rows : ~(rows[k].day = d /\ rows[k].price = p)
            BY <2>2, <1>7
        <3>2. new.day = d /\ new.price = p OBVIOUS
        <3>3. i \in DOMAIN rows \/ (i = n + 1 /\ rows'[i] = new) BY <1>9
        <3>4. j \in DOMAIN rows \/ (j = n + 1 /\ rows'[j] = new) BY <1>9
        <3> HIDE DEF new
        <3> QED BY <3>1, <3>2, <3>3, <3>4, <1>1, <1>9 DEF NoDuplicates
    <2> QED BY <2>1, <2>2
<1>17. RowsInv'
    <2> SUFFICES ASSUME NEW i \in DOMAIN rows', rows'[i].price \notin quotes[rows'[i].day]
                 PROVE  /\ rows'[i].price = final[rows'[i].day]
                        /\ stored'[rows'[i].day] = "yes"
                        /\ \A j \in DOMAIN rows' : rows'[j].day = rows'[i].day => j <= i
        BY <1>3 DEF RowsInv
    <2>1. new.day = d /\ new.price = p OBVIOUS
    <2> HIDE DEF new
    <2>2. CASE i \in DOMAIN rows
        <3>1. /\ rows'[i] = rows[i] /\ rows[i].day \in Days
              /\ rows[i].price = final[rows[i].day] /\ stored[rows[i].day] = "yes"
              /\ \A j \in DOMAIN rows : rows[j].day = rows[i].day => j <= i
            BY <2>2, <1>1, <1>2, <1>9 DEF RowsInv
        <3>2. ASSUME NEW j \in DOMAIN rows', rows'[j].day = rows'[i].day PROVE j <= i
            <4>1. CASE j \in DOMAIN rows BY <4>1, <3>1, <3>2, <1>9
            <4>2. CASE j \notin DOMAIN rows
                <5>1. rows'[j] = new /\ rows' # rows BY <4>2, <1>9
                <5>2. rows[i].day = d BY <5>1, <3>1, <3>2, <2>1
                <5>3. p = final[d] BY <5>2, <3>1, <1>4
                <5> QED BY <5>1, <5>2, <5>3, <3>1, <2>2, <1>7
            <4> QED BY <4>1, <4>2
        <3> QED BY <3>1, <3>2, <1>13
    <2>3. CASE i \notin DOMAIN rows
        <3>1. i = n + 1 /\ rows'[i] = new BY <2>3, <1>9
        <3>2. bar.final = "yes" /\ p = final[d] BY <3>1, <2>1, <1>4
        <3>3. stored'[d] = "yes" BY <3>2, <1>4, <1>5
        <3>4. \A j \in DOMAIN rows' : j <= n + 1 BY <1>2, <1>9
        <3> QED BY <3>1, <3>2, <3>3, <3>4, <2>1
    <2> QED BY <2>2, <2>3
<1>18. ReturnInv'
    <2> SUFFICES ASSUME ret' # NoReturn PROVE ReturnInv'
        BY DEF ReturnInv
    <2>0. UNCHANGED <<Days, NoBar>> /\ bar' = NoBar BY <1>3 DEF Days, NoBar
    <2>1. CASE Base(d) = {} /\ ret' = ret
        <3>1. /\ ret # NoReturn /\ ret.of \in Days /\ ret.from \in Days /\ ret.from < ret.of
              /\ Written(ret.from) # {} /\ ret.from <= bar.day
              /\ \A e \in Days : ret.from < e /\ e < ret.of => Written(e) = {}
              /\ stored[ret.of] = "yes" => ret.price = final[ret.of]
            BY <2>1, <1>1, <1>3 DEF ReturnInv
        <3>2. ret.from = d
            <4>1. ~(ret.from < d) BY <2>1, <3>1 DEF Base, Sessions
            <4>2. ret.from <= d /\ ret.from \in Nat BY <3>1, <1>2 DEF d
            <4> QED BY <4>1, <4>2, <1>5a
        <3>3. Sessions(ret.from)' = {}
            <4>1. \A e \in Days : e < d => e # d BY <1>2, <1>5a
            <4>2. \A e \in Days : e < d => Written(e)' = {}
                BY <4>1, <2>1, <1>12 DEF Base, Sessions
            <4> QED BY <4>2, <3>2, <2>0, <2>1 DEF Sessions
        <3>4. Written(ret.from)' # {} BY <3>2, <2>1, <1>9 DEF Written
        <3>5. ASSUME NEW e \in Days, ret.from < e, e < ret.of PROVE Written(e)' = {}
            <4>1. e # d BY <3>2, <3>5, <1>2, <1>5a
            <4> QED BY <4>1, <3>1, <3>5, <1>12
        <3>6. stored'[ret.of] = "yes" => ret.price = final[ret.of]
            <4>1. ret.of # d BY <3>1, <3>2, <1>2, <1>5a
            <4> QED BY <4>1, <3>1, <1>14
        <3> QED BY <2>0, <2>1, <3>1, <3>3, <3>4, <3>5, <3>6, <1>3 DEF ReturnInv
    <2>2. ASSUME NEW top \in Days,
                 ret' = [of |-> d, price |-> p, from |-> top, base |-> CloseOf(top)],
                 top < d, Written(top) # {}, \A e \in Days : top < e /\ e < d => Written(e) = {}
          PROVE  ReturnInv'
        <3>1. ret'.of = d /\ ret'.price = p /\ ret'.from = top /\ ret'.base = CloseOf(top) BY <2>2
        <3>2. top # d BY <2>2, <1>2, <1>5a
        <3>3. Written(top)' # {} /\ CloseOf(top)' = CloseOf(top)
            BY <2>2, <3>2, <1>12
        <3>4. ASSUME NEW e \in Days, top < e, e < d PROVE Written(e)' = {}
            <4>1. e # d BY <3>4, <1>2, <1>5a
            <4> QED BY <4>1, <2>2, <3>4, <1>12
        <3>5. stored'[d] = "yes" => p = final[d] BY <1>4, <1>5
        <3> QED BY <2>0, <2>2, <3>1, <3>3, <3>4, <3>5, <1>3, <1>4 DEF ReturnInv
    <2> QED BY <2>1, <2>2, <1>8
<1> QED BY <1>10, <1>11, <1>15, <1>16, <1>17, <1>18 DEF IInv

\* The invariant is inductive.
LEMMA StepInv == IInv /\ [Next]_vars => IInv'
<1> SUFFICES ASSUME IInv, [Next]_vars PROVE IInv'
    OBVIOUS
<1>1. CASE Trade BY <1>1, TradeStep
<1>2. CASE NextDay BY <1>2, NextDayStep
<1>3. CASE Download BY <1>3, DownloadStep
<1>4. CASE Store BY <1>4, StoreStep
<1>5. CASE Abandon
    <2>1. ReturnInv' BY <1>5, ReturnKept DEF Abandon, IInv, NoBar
    <2> QED BY <1>5, <2>1 DEF Abandon, IInv, TypeOK, MarketInv, BarInv, RowsInv, StoredInv,
                              NoDuplicates
<1>6. CASE UNCHANGED vars
    <2>1. ReturnInv' BY <1>6, ReturnKept DEF vars, IInv
    <2> QED BY <1>6, <2>1 DEF vars, IInv, TypeOK, MarketInv, BarInv, RowsInv, StoredInv, NoDuplicates
<1> QED BY <1>1, <1>2, <1>3, <1>4, <1>5, <1>6 DEF Next

\* Everything stored and computed has its type, and its date has begun.
THEOREM TypeCorrect == Spec => []TypeOK
<1>1. IInv => TypeOK BY DEF IInv
<1> QED BY InitInv, StepInv, <1>1, PTL DEF Spec

\* A close is stored once, however often and by whichever job it is fetched.
THEOREM StoredOnce == Spec => []NoDuplicates
<1>1. IInv => NoDuplicates BY DEF IInv
<1> QED BY InitInv, StepInv, <1>1, PTL DEF Spec

\* The close of a session in the table is its closing price, if that is new.
LEMMA NewCloseIsRead == IInv => NewFinalCloseIsRead
<1> SUFFICES ASSUME IInv, NEW d \in Days, stored[d] = "yes", final[d] \notin quotes[d]
             PROVE  CloseOf(d) = final[d]
    BY DEF NewFinalCloseIsRead
<1>1. PICK i \in DOMAIN rows : rows[i].day = d /\ rows[i].price = final[d]
    BY DEF IInv, StoredInv
<1>2. \A j \in DOMAIN rows : rows[j].day = d => j <= i
    BY <1>1 DEF IInv, RowsInv
<1>3. i \in Written(d) /\ \A j \in Written(d) : j <= i
    BY <1>1, <1>2 DEF Written
<1>4. DOMAIN rows \subseteq Nat BY Types DEF IInv
<1>5. LastWritten(Written(d)) = i
    <2> DEFINE k == CHOOSE m \in Written(d) : \A j \in Written(d) : j <= m
    <2>1. k \in Written(d) /\ \A j \in Written(d) : j <= k BY <1>3
    <2>2. k \in Nat /\ i \in Nat BY <2>1, <1>3, <1>4 DEF Written
    <2>3. k <= i /\ i <= k BY <2>1, <1>3
    <2> HIDE DEF k
    <2>4. k = i BY <2>2, <2>3
    <2> QED BY <2>4 DEF LastWritten, k
<1> QED BY <1>1, <1>5 DEF CloseOf

\* A closing price that was stored, and that the open bar had not shown, is the one
\* that the history reads for its session from then on.
THEOREM NewClosesAreRead == Spec => []NewFinalCloseIsRead
BY InitInv, StepInv, NewCloseIsRead, PTL DEF Spec

\* The newest return compares closing prices, from the session before that has one,
\* however runs fail, come late or fetch the bar of the day before again.
THEOREM ReturnsSpan == Spec => []ReturnsSpanCloses
<1>1. IInv => ReturnsSpanCloses
    <2> SUFFICES ASSUME IInv, ret # NoReturn PROVE ReturnsSpanCloses
        BY DEF ReturnsSpanCloses
    <2>1. ReturnInv /\ MarketInv /\ NewFinalCloseIsRead BY NewCloseIsRead DEF IInv
    <2>2. ret.of \in Days /\ ret.from \in Days /\ ret.from < ret.of BY <2>1 DEF ReturnInv
    <2>3. ret.of <= day BY DEF IInv, TypeOK, NoReturn
    <2>4. final[ret.from] # 0
        <3>1. ret.from < day BY <2>2, <2>3, Types DEF IInv
        <3> QED BY <2>1, <2>2, <3>1, ClosesAssumption DEF MarketInv
    <2> QED BY <2>1, <2>2, <2>4 DEF ReturnInv, ReturnsSpanCloses, NewFinalCloseIsRead
<1> QED BY InitInv, StepInv, <1>1, PTL DEF Spec
=============================================================================
