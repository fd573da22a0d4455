----------------------------- MODULE SignalSwap -----------------------------
(***************************************************************************)
(* reconstruct_signals.py --replace: the signals of a window are archived, *)
(* then swapped for rebuilt ones, a ticker per transaction, by runs for    *)
(* some of the tickers that may end at any point.  How signals are rebuilt *)
(* is in SignalRebuild.                                                    *)
(***************************************************************************)

CONSTANT Equities   \* tickers with signals of their own

VARIABLES signals,   \* the table
          saved,     \* the rows in the archive of the window
          meta,      \* whether its sidecar is there
          covers,    \* the tickers the archive was made for (history variable)
          swap       \* the tickers still to be replaced by the run in progress

swapVars == <<signals, saved, meta, covers, swap>>

REPLACE_MARKET_TYPES == {"rsi_14", "return_1d", "return_5d", "return_20d", "volume_ratio"}
REPLACE_MACRO_TYPES == {"sector_etf_return_20d"}

Etf == "XLK"
ASSUME EtfIsNoEquity == Etf \notin Equities

\* Of the types, two that are replaced, one that is not, and that of the ETF.
Types == {"return_1d", "rsi_14", "order_flow_imbalance", "sector_etf_return_20d"}
Originals ==
    [ticker : Equities, type : Types \ REPLACE_MACRO_TYPES, inside : BOOLEAN, made : {"live"}]
    \cup [ticker : {Etf}, type : REPLACE_MACRO_TYPES, inside : BOOLEAN, made : {"live"}]

SwapInit ==
    /\ signals = Originals
    /\ saved = {} /\ meta = FALSE /\ covers = {} /\ swap = {}

\* Fault: the archive leaves out the ETF.
FaultReplaced(tickers) ==
    {r \in signals : r.inside /\ r.ticker \in tickers /\ r.type \in REPLACE_MARKET_TYPES}

\* What a run for some tickers will delete.
Replaced(tickers) ==
    {r \in signals : /\ r.inside
                     /\ \/ r.ticker \in tickers /\ r.type \in REPLACE_MARKET_TYPES
                        \/ r.ticker = Etf /\ r.type \in REPLACE_MACRO_TYPES}

\* An archive of the same window stands, whatever the tickers it was made for.
archive_replaced(tickers) ==
    /\ saved' = IF meta THEN saved ELSE Replaced(tickers)
    /\ covers' = IF meta THEN covers ELSE tickers
    /\ meta' = TRUE

\* Of the tickers asked for, those the provider has no bars of are left alone; the ETF is
\* replaced in any case, by what there is of it.
StartReplace(tickers) ==
    /\ swap = {} /\ tickers # {}
    /\ archive_replaced(tickers)
    /\ \E have \in SUBSET tickers : swap' = have \cup {Etf}
    /\ UNCHANGED signals

\* The process ends before the sidecar of its archive is there.
ArchiveCutOff(tickers) ==
    /\ swap = {} /\ ~meta /\ tickers # {}
    /\ saved' = Replaced(tickers) /\ covers' = tickers
    /\ UNCHANGED <<signals, meta, swap>>

\* What replace_signals takes a row for, in a call for its ticker.
IsReplaced(r) ==
    r.inside /\ r.type \in (IF r.ticker = Etf THEN REPLACE_MACRO_TYPES ELSE REPLACE_MARKET_TYPES)

\* replace_signals: one transaction for one ticker, the ETF last.  The bars there are may
\* give rows of some of the types, or of none: what stood there is deleted all the same.
replace_signals(t) ==
    /\ t \in swap /\ (t = Etf => swap = {Etf})
    /\ \E new \in SUBSET {r \in [ticker : {t}, type : Types, inside : {TRUE}, made : {"rebuilt"}] :
                             IsReplaced(r)} :
          signals' = {r \in signals : ~(r.ticker = t /\ IsReplaced(r))} \cup new
    /\ swap' = swap \ {t}
    /\ UNCHANGED <<saved, meta, covers>>

\* It is killed; a transaction in flight is not committed.
StopReplace == swap # {} /\ swap' = {} /\ UNCHANGED <<signals, saved, meta, covers>>

SwapNext ==
    \/ \E T \in SUBSET Equities : StartReplace(T) \/ ArchiveCutOff(T)
    \/ \E t \in Equities \cup {Etf} : replace_signals(t)
    \/ StopReplace

-----------------------------------------------------------------------------

\* Whatever tickers the runs are for, wherever they end and whatever they rebuild: an
\* original that is gone is in the archive, if its ticker was asked for by the run that made
\* it; what lies outside the window, or is not derived from history, is never touched; and
\* the derived signals of a ticker in the window are its originals or rebuilt, never some
\* of each.
DeletedIsSaved ==
    /\ \A r \in Originals :
          \/ r \in signals \/ r \in saved
          \/ r.inside /\ r.type \in REPLACE_MARKET_TYPES /\ r.ticker \notin covers
    /\ \A r, s \in signals :
          r.ticker = s.ticker /\ IsReplaced(r) /\ IsReplaced(s) => r.made = s.made
=============================================================================
