---------------------------- MODULE MarketCloses ----------------------------
(***************************************************************************)
(* The closing prices of one ticker: market_job and market_eod_job of      *)
(* pipeline/scheduler.py download the current bar and store its close in   *)
(* raw_signals (pipeline/sources/market.py), insert_signals skips rows that*)
(* exist, and get_close_history and get_latest_close read one close per    *)
(* date (scripts/db/queries/raw_signals.py).  All rows of a date carry the *)
(* same timestamp, the date, so that the order of writing decides.         *)
(*                                                                         *)
(* A day has slots: 0 before the open, then the intraday runs, the last    *)
(* one after the close.  The ceilings of the two jobs keep their runs      *)
(* apart: the last run of market_job ends 20 minutes before the other job. *)
(***************************************************************************)
EXTENDS Integers, Sequences, FiniteSets

CONSTANTS
    Prices,    \* the prices that a bar may show
    LastDay,   \* bound: sessions are 1 .. LastDay
    LastSlot   \* the slot after the close

ASSUME ClosesAssumption ==
    /\ Prices # {} /\ Prices \subseteq Nat \ {0}
    /\ LastDay \in Nat \ {0} /\ LastSlot \in Nat \ {0, 1}

VARIABLES
    day, slot,   \* the current time
    price,       \* close of the current bar of the day, 0 before the open
    quotes,      \* quotes[d]: the prices that the bar of d has shown while open
    final,       \* final[d]: the closing price of d
    bar,         \* the downloaded bar that a run is about to store
    rows,        \* the stored closes, in the order of writing
    stored,      \* stored[d]: a run has stored the bar of d after its close
    ret          \* the newest return_1d row: of a date's price, from a session's close

vars == <<day, slot, price, quotes, final, bar, rows, stored, ret>>

Days == 1 .. LastDay
NoBar == [day |-> 0, price |-> 0, final |-> "no"]
NoReturn == [of |-> 0, price |-> 0, from |-> 0, base |-> 0]
Bars == [day : Days, price : Prices, final : {"yes", "no"}]

\* The types; the dates of what is stored and computed have begun.
TypeOK ==
    /\ day \in Days /\ slot \in 0 .. LastSlot /\ price \in Prices \cup {0}
    /\ quotes \in [Days -> SUBSET Prices] /\ final \in [Days -> Prices \cup {0}]
    /\ bar \in Bars \cup {NoBar}
    /\ rows \in Seq([day : 1 .. day, price : Prices])
    /\ stored \in [Days -> {"yes", "no"}]
    /\ ret \in [of : 0 .. day, price : Prices, from : 0 .. day, base : Prices] \cup {NoReturn}

Init ==
    /\ day = 1 /\ slot = 0 /\ price = 0
    /\ quotes = [d \in Days |-> {}] /\ final = [d \in Days |-> 0]
    /\ bar = NoBar /\ rows = <<>>
    /\ stored = [d \in Days |-> "no"] /\ ret = NoReturn

\* The indices of the rows with a close of date d.
Written(d) == {i \in DOMAIN rows : rows[i].day = d}

\* Fault: the first row written for a date wins.
FirstWritten(I) == CHOOSE i \in I : \A j \in I : i <= j

LastWritten(I) == CHOOSE i \in I : \A j \in I : j <= i

\* get_close_history: one close per date before a date, the latest written.
Sessions(before) == {d \in Days : d < before /\ Written(d) # {}}
CloseOf(d) == rows[LastWritten(Written(d))].price

\* The market moves on.
Trade ==
    /\ slot < LastSlot
    /\ slot' = slot + 1
    /\ IF slot + 1 < LastSlot
       THEN /\ price' \in Prices
            /\ quotes' = [quotes EXCEPT ![day] = @ \cup {price'}] /\ final' = final
       ELSE \* the bar is final: the closing auction
            /\ price' \in Prices
            /\ final' = [final EXCEPT ![day] = price'] /\ quotes' = quotes
    /\ UNCHANGED <<day, bar, rows, stored, ret>>

NextDay ==
    /\ slot = LastSlot /\ day < LastDay
    /\ day' = day + 1 /\ slot' = 0 /\ price' = 0
    /\ UNCHANGED <<quotes, final, bar, rows, stored, ret>>

\* _yf_batch_download: the last bar with a close, that of the previous session
\* before the open or when the upstream has none of today yet.
Download ==
    /\ bar = NoBar
    /\ \/ price # 0 /\ bar' = [day |-> day, price |-> price,
                               final |-> IF slot = LastSlot THEN "yes" ELSE "no"]
       \/ day > 1 /\ bar' = [day |-> day - 1, price |-> final[day - 1], final |-> "yes"]
    /\ UNCHANGED <<day, slot, price, quotes, final, rows, stored, ret>>

\* insert_signals: a row with the same key, price included, is skipped.
Insert(d, p) ==
    rows' = IF \E i \in Written(d) : rows[i].price = p THEN rows
            ELSE Append(rows, [day |-> d, price |-> p])

\* Fault: the history includes the bar's own date.
BaseInclusive(d) == Sessions(d + 1)

\* The sessions that a return of the bar's date may start from.
Base(d) == Sessions(d)

Latest(D) == CHOOSE d \in D : \A e \in D : e <= d

\* _run_market: the return since the last session with a close, if there is one, stored
\* with the current time, then the insert.
Store ==
    /\ bar # NoBar
    /\ ret' = IF Base(bar.day) = {} THEN ret
              ELSE [of |-> bar.day, price |-> bar.price, from |-> Latest(Base(bar.day)),
                    base |-> CloseOf(Latest(Base(bar.day)))]
    /\ Insert(bar.day, bar.price)
    /\ stored' = IF bar.final = "yes" THEN [stored EXCEPT ![bar.day] = "yes"] ELSE stored
    /\ bar' = NoBar
    /\ UNCHANGED <<day, slot, price, quotes, final>>

\* The run failed, was cut off by its ceiling or killed.
Abandon ==
    /\ bar # NoBar /\ bar' = NoBar
    /\ UNCHANGED <<day, slot, price, quotes, final, rows, stored, ret>>

Next == Trade \/ NextDay \/ Download \/ Store \/ Abandon

Spec == Init /\ [][Next]_vars

---------------------------------------------------------------------------
(* Properties.                                                             *)

\* A close is stored once however often it is fetched.
NoDuplicates ==
    \A i, j \in DOMAIN rows :
        rows[i].day = rows[j].day /\ rows[i].price = rows[j].price => i = j

\* The close read for a past session is its closing price, if that was stored and
\* is a price that the open bar had not shown.
NewFinalCloseIsRead ==
    \A d \in Days : stored[d] = "yes" /\ final[d] \notin quotes[d] => CloseOf(d) = final[d]

\* The newest return compares closing prices: it starts from a session that is over, and
\* passes over none with a close; once the final bar of its date was stored it is of the
\* closing price, and once that of the session it starts from was, and had not been shown
\* before, it is from the closing price.  (For the first session with a close nothing
\* computes the return again: its final bar may be stored after a return from it.)
ReturnsSpanCloses ==
    ret # NoReturn =>
        /\ final[ret.from] # 0
        /\ \A d \in Days : ret.from < d /\ d < ret.of => Written(d) = {}
        /\ stored[ret.of] = "yes" => ret.price = final[ret.of]
        /\ /\ stored[ret.from] = "yes" /\ final[ret.from] \notin quotes[ret.from]
           /\ Sessions(ret.from) # {}
           => ret.base = final[ret.from]

---------------------------------------------------------------------------
\* get_close_history: "The latest-WRITTEN row per date wins (created_at): for past
\* sessions that is the market_eod_job final close".
FinalCloseIsRead == \A d \in Days : stored[d] = "yes" => CloseOf(d) = final[d]
=============================================================================
