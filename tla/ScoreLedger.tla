---------------------------- MODULE ScoreLedger ----------------------------
(***************************************************************************)
(* What the scoring pipeline promises about one ticker's scores, whatever  *)
(* happens inside a tick: there is one current state per ticker, published *)
(* states only move forward in time, and the permanent ledger holds only   *)
(* states that were published first, each one added while it was still the *)
(* latest published state.  ScoringTick implements this specification with *)
(* the Redis key sentiment:{ticker} as the published state and the         *)
(* sentiment_history table as the ledger.                                  *)
(***************************************************************************)
EXTENDS Naturals

CONSTANT Tickers

VARIABLES
    published,  \* published[t]: the latest published state of t
    ledger      \* ledger[t]: the states of t recorded for good

vars == <<published, ledger>>

\* A ticker's first state carries a positive time: time 0 is "nothing yet".
Init ==
    /\ \A t \in Tickers : published[t].at = 0
    /\ \A t \in Tickers : ledger[t] = {}

\* A newer state of t replaces the published one; the ledger is untouched.
Publish(t) ==
    /\ published'[t].at > published[t].at
    /\ ledger'[t] = ledger[t]

\* The published state of t enters the ledger, which held only older ones.
Record(t) ==
    /\ published'[t] = published[t]
    /\ ledger'[t] = ledger[t] \cup {published[t]}
    /\ \A r \in ledger[t] : r.at < published[t].at

Idle(t) == published'[t] = published[t] /\ ledger'[t] = ledger[t]

\* Several tickers may move in one step (a cancelled tick leaves several
\* writes behind); each of them makes one of the moves above.
Next == \A t \in Tickers : Publish(t) \/ Record(t) \/ Idle(t)

Spec == Init /\ [][Next]_vars
=============================================================================
