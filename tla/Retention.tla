------------------------------ MODULE Retention ------------------------------
(***************************************************************************)
(* How long rows are kept: retention_job (pipeline/scheduler.py), run once *)
(* a day, with the deletions and rewrites it makes                         *)
(* (scripts/db/queries/raw_signals.py, raw_articles.py and                 *)
(* sentiment_history.py).                                                  *)
(*                                                                         *)
(* A behaviour follows one row from the day it is written, and a piece of  *)
(* sentiment_history through the batches of the last step, which go on     *)
(* while the scoring tick inserts.  Every step of a run may fail, and the  *)
(* run may be cut short between two of them.                               *)
(***************************************************************************)
EXTENDS Integers, Sequences, FiniteSets

CONSTANTS
    MaxAge,      \* bound on the age of the row that is followed, in days
    batch_size,  \* rows of one batch of compact_drivers_before
    MaxRows      \* bound on the rows of sentiment_history

ASSUME RetentionAssumption == {MaxAge, batch_size, MaxRows} \subseteq Nat /\ batch_size > 0

\* In days.
OHLCV_RETENTION_DAYS == 365
SIGNAL_RETENTION_DAYS == 90
DERIVED_RETENTION_DAYS == 45
QUOTE_RETENTION_DAYS == 14
ARTICLE_RETENTION_DAYS == 365
ARTICLE_TEXT_COMPACT_DAYS == 30
DRIVER_COMPACT_DAYS == 30

\* The lists of signal types, of which the deletions tell apart only in which one a
\* type is.
OHLCV_SIGNAL_TYPES == {"yf_close", "ohlcv_close"}
DERIVED_INTRADAY_SIGNAL_TYPES == {"rsi_14", "bid_ask_spread_bps"}
QUOTE_SIGNAL_TYPES == {"bid"}
RESEARCH_RETAIN_SIGNAL_TYPES == {"short_volume_ratio_otc", "insider_net_shares", "pcr_oi"}
OtherTypes == {"vix", "treasury_yield_10y"}
SignalTypes == OHLCV_SIGNAL_TYPES \cup DERIVED_INTRADAY_SIGNAL_TYPES \cup QUOTE_SIGNAL_TYPES
               \cup RESEARCH_RETAIN_SIGNAL_TYPES \cup OtherTypes

VARIABLES
    row,     \* the row that is followed: its type, its age, whether it is there, with its text
    step,    \* the next step of the run, or 0 when no run goes on
    sound,   \* no step of the run, or of the last one, has failed or was not reached
    hist,    \* sentiment_history by id: whether a row is past the cutoff, and its drivers
    batch    \* the batches of the last step: the cursor, and the rows at its start

kept == <<row, step, sound, hist, batch>>

Steps == 7
Formats == {"verbose", "compact", "empty"}
NoBatch == [last_id |-> 0, upto |-> 0]

RowsOK ==
    /\ row.type \in SignalTypes \cup {"article"} /\ row.age \in 0 .. MaxAge
    /\ row.stored \in BOOLEAN /\ row.text \in BOOLEAN
    /\ step \in 0 .. Steps /\ sound \in BOOLEAN
    /\ hist \in Seq([old : BOOLEAN, drivers : Formats]) /\ Len(hist) <= MaxRows
    /\ batch.last_id \in 0 .. MaxRows /\ batch.upto \in 0 .. MaxRows

-----------------------------------------------------------------------------
(* The deletions and the rewrites.                                         *)

\* A statement of purge_signals_before: it deletes the rows of these types.
purge_signals_before(days, types) == row.type \in types /\ row.age > days

\* Fault: the types of the research are not kept out of the catch-all.
FaultCatchAll == OHLCV_SIGNAL_TYPES \cup DERIVED_INTRADAY_SIGNAL_TYPES \cup QUOTE_SIGNAL_TYPES

\* What the catch-all leaves alone.
CatchAll == OHLCV_SIGNAL_TYPES \cup DERIVED_INTRADAY_SIGNAL_TYPES \cup QUOTE_SIGNAL_TYPES
            \cup RESEARCH_RETAIN_SIGNAL_TYPES

purge_articles_before(days) == row.type = "article" /\ row.age > days
strip_article_text_before(days) == row.type = "article" /\ row.age > days

\* The rows that are left for compact_drivers_before, from its cursor on.
CompactBatch(last_id) ==
    {i \in DOMAIN hist : i > last_id /\ hist[i].old /\ hist[i].drivers = "verbose"}

\* A batch: the first of them, by id.
Batch(last_id) ==
    {i \in CompactBatch(last_id) :
        Cardinality({j \in CompactBatch(last_id) : j < i}) < batch_size}

\* What step n deletes, and what it blanks.
Deletes(n) ==
    \/ n = 1 /\ purge_signals_before(OHLCV_RETENTION_DAYS, OHLCV_SIGNAL_TYPES)
    \/ n = 2 /\ purge_signals_before(DERIVED_RETENTION_DAYS, DERIVED_INTRADAY_SIGNAL_TYPES)
    \/ n = 3 /\ purge_signals_before(QUOTE_RETENTION_DAYS, QUOTE_SIGNAL_TYPES)
    \/ n = 4 /\ purge_signals_before(SIGNAL_RETENTION_DAYS, SignalTypes \ CatchAll)
    \/ n = 5 /\ purge_articles_before(ARTICLE_RETENTION_DAYS)
Blanks(n) == n = 6 /\ strip_article_text_before(ARTICLE_TEXT_COMPACT_DAYS)

-----------------------------------------------------------------------------
(* retention_job.                                                          *)

\* A day passes, and its run starts.
Day ==
    /\ step = 0 /\ row.age < MaxAge
    /\ row' = [row EXCEPT !.age = @ + 1]
    /\ step' = 1 /\ sound' = TRUE
    /\ UNCHANGED <<hist, batch>>

\* One of the first six steps.
Purge ==
    /\ step \in 1 .. 6
    /\ row' = [row EXCEPT !.stored = @ /\ ~Deletes(step), !.text = @ /\ ~Deletes(step) /\ ~Blanks(step)]
    /\ step' = step + 1
    /\ batch' = IF step = 6 THEN [last_id |-> 0, upto |-> Len(hist)] ELSE batch
    /\ UNCHANGED <<sound, hist>>

\* One batch of the last step, in a transaction of its own; a short one is the last.
Compact ==
    LET ids == Batch(batch.last_id)
    IN  /\ step = 7
        /\ hist' = [i \in DOMAIN hist |-> IF i \in ids THEN [hist[i] EXCEPT !.drivers = "compact"] ELSE hist[i]]
        /\ IF Cardinality(ids) < batch_size THEN step' = 0 /\ UNCHANGED batch
           ELSE /\ batch' = [batch EXCEPT !.last_id = CHOOSE i \in ids : \A j \in ids : j <= i]
                /\ UNCHANGED step
        /\ UNCHANGED <<row, sound>>

\* A step raises: it is logged, and the run goes on and is recorded as a success.
Fails ==
    /\ step \in 1 .. Steps
    /\ sound' = FALSE
    /\ step' = IF step = Steps THEN 0 ELSE step + 1
    /\ batch' = IF step = 6 THEN [last_id |-> 0, upto |-> Len(hist)] ELSE batch
    /\ UNCHANGED <<row, hist>>

\* The run is cancelled, or the process ends.
CutShort == step > 0 /\ step' = 0 /\ sound' = FALSE /\ UNCHANGED <<row, hist, batch>>

\* insert_row: the tick inserts a row of now, an offline replay one of the past.
InsertRow ==
    /\ Len(hist) < MaxRows
    /\ \E r \in [old : BOOLEAN, drivers : {"verbose", "empty"}] : hist' = Append(hist, r)
    /\ UNCHANGED <<row, step, sound, batch>>

RetentionInit ==
    /\ row \in [type : SignalTypes \cup {"article"}, age : {0}, stored : {TRUE}, text : {TRUE}]
    /\ step = 0 /\ sound = FALSE /\ hist = <<>> /\ batch = NoBatch

RetentionNext == Day \/ Purge \/ Compact \/ Fails \/ CutShort \/ InsertRow

RetentionSpec == RetentionInit /\ [][RetentionNext]_kept

-----------------------------------------------------------------------------
(* Properties.                                                             *)

\* The days that n trading sessions may take, holidays included.
SessionDays(n) == (n * 7) \div 5 + 10

\* Which rows readers still ask for, by the reader with the longest memory: 50 closes, a
\* z-score window of 500 intraday observations at 25 a session, half a window of 90 daily
\* ones, everything of the research, the articles of the surprise baseline.
Readers ==
    {[types |-> OHLCV_SIGNAL_TYPES, days |-> SessionDays(50)],
     [types |-> DERIVED_INTRADAY_SIGNAL_TYPES, days |-> SessionDays(500 \div 25)],
     [types |-> QUOTE_SIGNAL_TYPES, days |-> 0],
     [types |-> RESEARCH_RETAIN_SIGNAL_TYPES, days |-> MaxAge],
     [types |-> OtherTypes, days |-> SessionDays(90 \div 2)],
     [types |-> {"article"}, days |-> 15]}
Unread == \A r \in Readers : row.type \in r.types => row.age > r.days

\* Nothing is deleted that a reader still asks for, nor the text of an article that
\* clustering or FinBERT (48 hours) may read.
KeptLongEnough == /\ ~row.stored => Unread
                  /\ row.stored /\ ~row.text => row.age > 2

\* After a run without a failure nothing is left that is past its days.
Drained == sound /\ step = 0 /\ row.stored => \A n \in 1 .. 6 : ~Deletes(n) /\ (Blanks(n) => ~row.text)

\* When its batches have ended, every row past the cutoff that was there when they began
\* is compact, and none within it was touched.
Compacted ==
    /\ \A i \in DOMAIN hist : hist[i].drivers = "compact" => hist[i].old
    /\ sound /\ step = 0 => \A i \in 1 .. batch.upto : hist[i].old => hist[i].drivers # "verbose"

\* Whatever steps fail, however often the job runs or is cut short, and whatever is
\* inserted meanwhile, retention keeps what is still read and clears what is past its days.
RetentionIsExact == RowsOK /\ KeptLongEnough /\ Drained /\ Compacted
=============================================================================
