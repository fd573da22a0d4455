---------------------------- MODULE RateLimiter ----------------------------
(***************************************************************************)
(* The fixed-window request counter of api/rate_limit.py, which the API-key*)
(* quota, the demo-key mint cap (api/routes/demo_key.py) and the per-IP    *)
(* limit of /health/pipeline share: a Lua script on one Redis key.         *)
(*                                                                         *)
(* Each bucket is one key, so one bucket is modelled.  Redis counts down   *)
(* its time to live; the model counts the age of what it admitted up, so   *)
(* neither needs a clock.                                                  *)
(***************************************************************************)
EXTENDS Naturals, FiniteSets

CONSTANTS
    Limit,    \* requests per window: _LIMITS[tier], DEMO_KEY_IP_CAP, ...
    Window    \* lifetime of the counter, in ticks

ASSUME LimiterAssumption == Limit \in Nat \ {0} /\ Window \in Nat \ {0}

VARIABLES
    redis,     \* Redis answers
    count,     \* the counter; 0 means that the key does not exist
    ttl,      \* ticks until the key expires; NoExpiry if it never does
    answer,    \* what the last request was told
    recent,    \* requests counted and let through in the last Window ticks
    origin     \* which deploy created the counter: this one or an "older" one

limiter == <<redis, count, ttl, answer, recent, origin>>

\* No expiry is set: no time to live is zero while the key exists.
NoExpiry == 0

\* A counted request: its age, the age of its window and its rank in it.
Request == {r \in [age : 0 .. Window - 1, start : 0 .. 2 * Window - 2, rank : 1 .. Limit + 1] :
               r.age <= r.start /\ r.start < r.age + Window}

\* Beyond the limit all counts are alike: the counter saturates at Limit + 1.
Counts == 0 .. Limit + 1

\* The types, and that a counter without an expiry is one that was inherited:
\* the script never leaves one behind.
LimiterTypeOK ==
    /\ redis \in BOOLEAN /\ origin \in {"this", "older"}
    /\ count \in Counts
    /\ ttl \in 0 .. Window
    /\ answer \in {"none", "ok", "refused", "unthrottled"}
    /\ recent \subseteq Request
    /\ ttl = NoExpiry => count = 0 \/ origin = "older"

\* A deploy from before the Lua script may have left any counter behind.
LimiterInit ==
    /\ redis = TRUE /\ answer = "none" /\ recent = {}
    /\ count \in Counts /\ ttl = NoExpiry
    /\ origin = IF count > 0 THEN "older" ELSE "this"

---------------------------------------------------------------------------
(* The script: INCR, then EXPIRE if the key has no expiry.                 *)

Incremented == IF count > Limit THEN count ELSE count + 1

\* Fault: every request pushes the expiry back.
ExpiryRenewed == Window

Expiry == IF ttl = NoExpiry THEN Window ELSE ttl

\* The age of the window that a request counted now falls in.
WindowAge == Window - Expiry

\* Fault: the request that reaches the limit is refused.
OverLimitStrict(c) == c >= Limit

\* Fault: one request more than the limit passes.
OverLimitLate(c) == c > Limit + 1

OverLimit(c) == c > Limit

Count ==
    /\ count' = Incremented
    /\ ttl' = Expiry

Counted ==
    recent \cup {[age |-> 0, start |-> WindowAge, rank |-> Incremented]}

---------------------------------------------------------------------------
(* check_rate_limit.                                                       *)

\* The count is within the limit: the request goes through.
Admit ==
    /\ redis /\ ~OverLimit(Incremented)
    /\ Count
    /\ recent' = Counted
    /\ answer' = "ok"
    /\ UNCHANGED <<redis, origin>>

\* The count is over the limit: 429.
Refuse ==
    /\ redis /\ OverLimit(Incremented)
    /\ Count
    /\ answer' = "refused"
    /\ UNCHANGED <<redis, recent, origin>>

\* Redis fails or its answer is lost, after the script ran or before: the
\* limiter fails open.
FailOpen ==
    /\ \/ UNCHANGED <<count, ttl, recent>>
       \/ /\ redis /\ Count
          /\ recent' = IF OverLimit(Incremented) THEN recent ELSE Counted
    /\ answer' = "unthrottled"
    /\ UNCHANGED <<redis, origin>>

---------------------------------------------------------------------------
(* Redis and time.                                                         *)

Aged == {[age |-> r.age + 1, start |-> r.start + 1, rank |-> r.rank] :
            r \in {q \in recent : q.age < Window - 1}}

\* A tick passes; a counter whose time is over is gone.
WindowTick ==
    /\ recent' = Aged
    /\ \/ /\ ttl > 1
          /\ ttl' = ttl - 1
          /\ UNCHANGED <<count, origin>>
       \/ /\ ttl = 1
          /\ ttl' = NoExpiry /\ count' = 0 /\ origin' = "this"
       \/ ttl = NoExpiry /\ UNCHANGED <<count, ttl, origin>>
    /\ UNCHANGED <<redis, answer>>

Outage == redis /\ redis' = FALSE /\ UNCHANGED <<count, ttl, answer, recent, origin>>

Recover == ~redis /\ redis' = TRUE /\ UNCHANGED <<count, ttl, answer, recent, origin>>

\* Redis comes back without its data: the quota is counted anew.
Flush ==
    /\ count' = 0 /\ ttl' = NoExpiry /\ origin' = "this" /\ recent' = {}
    /\ UNCHANGED <<redis, answer>>

LimiterNext == Admit \/ Refuse \/ FailOpen \/ WindowTick \/ Outage \/ Recover \/ Flush

\* Fairness: time passes and the client keeps asking, which is the hard case for
\* a counter that every refused request still increments.
Fairness == WF_limiter(WindowTick) /\ WF_limiter(Admit \/ Refuse \/ FailOpen)

LimiterSpec == LimiterInit /\ [][LimiterNext]_limiter
FairSpec == LimiterSpec /\ Fairness

---------------------------------------------------------------------------
(* Properties.                                                             *)

\* Of the requests counted in any Window consecutive ticks at most twice the
\* limit went through ("a client can burst up to 2x its per-minute limit across
\* a window boundary"), since Redis last lost its data.
TwiceTheLimit == Cardinality(recent) <= 2 * Limit

\* A request is refused only if Limit others were counted and let through less
\* than a window ago, unless the counter was inherited from an older deploy.
RefusalsAreEarned == [][Refuse => origin = "older" \/ Cardinality(recent) >= Limit]_limiter

\* A client that was refused and keeps asking is served again: neither its own
\* refused requests nor a counter left without an expiry lock it out for good.
ServedAgain == answer = "refused" ~> answer \in {"ok", "unthrottled"}
=============================================================================
