---------------------------- MODULE UpstreamCalls ----------------------------
(***************************************************************************)
(* The requests that the fetch jobs send to one provider                   *)
(* (pipeline/rate_limits.py), and the runs they belong to                  *)
(* (pipeline/scheduler.py): a run fetches all its tickers at once, every   *)
(* fetch sends its requests one after the other through guarded_get and    *)
(* then inserts what it got.  The provider's semaphore is shared by all    *)
(* jobs and serves its waiters in their order.                             *)
(*                                                                         *)
(* Time is discrete.  A semaphore is held for Delay units after a counted  *)
(* answer and for none after the brief pause.  The pause before a retry,   *)
(* outside the semaphore, has any length: its 2, 4 or 8 seconds matter to  *)
(* nothing below, the number of retries does.                              *)
(***************************************************************************)
EXTENDS Integers, Sequences, FiniteSets

CONSTANTS
    Jobs,
    Fetches,   \* Fetches[j]: the fetches of job j, in the order of its tickers
    Permits,   \* of the provider's semaphore
    Delay,     \* what the semaphore is held for after an answer
    Backoff,   \* the number of retries after 429, the length of _429_BACKOFF
    Requests   \* the requests of a fetch

Calls == UNION {{Fetches[j][i] : i \in DOMAIN Fetches[j]} : j \in Jobs}

\* A fetch is a task of its own: it belongs to one job, which has it once.
ASSUME UpstreamAssumption ==
    /\ IsFiniteSet(Calls) /\ Permits \in Nat \ {0}
    /\ {Delay, Backoff} \subseteq Nat /\ Requests \in Nat \ {0}
    /\ \A j \in Jobs : Fetches[j] \in Seq(Calls)
    /\ \A j, k \in Jobs : \A m \in DOMAIN Fetches[j], n \in DOMAIN Fetches[k] :
          Fetches[j][m] = Fetches[k][n] => j = k /\ m = n

NetRetries == 1  \* "1 retry, then skip"

VARIABLES
    running,    \* the jobs that run
    phase,      \* where each fetch is
    timer,      \* how long it still holds the semaphore
    request,    \* the number of its current request
    sent,       \* how that request was answered, every time it was sent
    n429, nnet, \* the retries of guarded_get
    queue,      \* the fetches that wait for the semaphore, the first first
    free,       \* permits that nobody holds
    spent       \* counted answers of the current unit of time, without cancelled requests

get == <<sent, n429, nnet>>
sem == <<queue, free>>
vars == <<running, phase, timer, request, get, sem, spent>>

Answers == {"ok", "refused", "limited", "net"}
CallsOf(j) == {Fetches[j][i] : i \in DOMAIN Fetches[j]}
Holds(c) == phase[c] \in {"calling", "holding"}
Held == Cardinality({c \in Calls : Holds(c)})
Ended(c) == phase[c] = "ended"
Count(c, a) == Cardinality({i \in DOMAIN sent[c] : sent[c][i] = a})

TypeOK ==
    /\ running \subseteq Jobs
    /\ phase \in [Calls -> {"idle", "queued", "calling", "holding", "pausing", "inserting", "ended"}]
    /\ timer \in [Calls -> 0 .. Delay] /\ request \in [Calls -> 1 .. Requests]
    /\ sent \in [Calls -> Seq(Answers)]
    /\ n429 \in [Calls -> 0 .. Backoff] /\ nnet \in [Calls -> 0 .. NetRetries]
    /\ queue \in Seq(Calls) /\ free \in 0 .. Permits /\ spent \in Nat

-----------------------------------------------------------------------------
(* guarded_get.                                                            *)

\* A new call of guarded_get by fetch c, whose retries start from none.
Fresh(c) == /\ sent' = [sent EXCEPT ![c] = <<>>]
            /\ n429' = [n429 EXCEPT ![c] = 0] /\ nnet' = [nnet EXCEPT ![c] = 0]

\* Fault: a waiter that came later is served first.
FaultAcquire(c) ==
    /\ free > 0 /\ queue # <<>> /\ c = queue[Len(queue)]
    /\ queue' = SubSeq(queue, 1, Len(queue) - 1) /\ free' = free - 1
    /\ phase' = [phase EXCEPT ![c] = "calling"]
    /\ UNCHANGED <<running, timer, request, get, spent>>

\* The first waiter gets a permit and sends its request.
Acquire(c) ==
    /\ free > 0 /\ queue # <<>> /\ c = Head(queue)
    /\ queue' = Tail(queue) /\ free' = free - 1
    /\ phase' = [phase EXCEPT ![c] = "calling"]
    /\ UNCHANGED <<running, timer, request, get, spent>>

\* The provider answers: with data, with 429 or with a refusal (403 and 404; an unexpected
\* error is one too); or there is a network error, be it the client's timeout.  An answer that the
\* provider counts is followed by the whole delay, any other by a brief pause.
Answer(c, a) ==
    /\ phase[c] = "calling"
    /\ phase' = [phase EXCEPT ![c] = "holding"]
    /\ timer' = [timer EXCEPT ![c] = IF a \in {"ok", "limited"} THEN Delay ELSE 0]
    /\ sent' = [sent EXCEPT ![c] = Append(@, a)]
    /\ spent' = spent + (IF a \in {"ok", "limited"} THEN 1 ELSE 0)
    /\ UNCHANGED <<running, request, n429, nnet, sem>>

\* guarded_get returns: the fetch goes on to its next request, or to the insertion.
Return(c) ==
    IF request[c] < Requests
    THEN /\ Fresh(c) /\ request' = [request EXCEPT ![c] = @ + 1]
         /\ phase' = [phase EXCEPT ![c] = "queued"]
         /\ queue' = Append(queue, c)
    ELSE /\ phase' = [phase EXCEPT ![c] = "inserting"]
         /\ UNCHANGED <<get, request, queue>>

\* It tries again after a pause.
Retry(c) == /\ phase' = [phase EXCEPT ![c] = "pausing"]
            /\ UNCHANGED <<sent, request, queue>>

\* What guarded_get makes of the last answer, once the permit is back.
After(c) ==
    LET last == sent[c][Len(sent[c])]
    IN  \/ /\ last = "limited" /\ n429[c] < Backoff
           /\ Retry(c) /\ n429' = [n429 EXCEPT ![c] = @ + 1] /\ UNCHANGED nnet
        \/ /\ last = "net" /\ nnet[c] < NetRetries
           /\ Retry(c) /\ nnet' = [nnet EXCEPT ![c] = @ + 1] /\ UNCHANGED n429
        \/ /\ \/ last = "limited" /\ n429[c] = Backoff
              \/ last = "net" /\ nnet[c] = NetRetries
              \/ last \in {"ok", "refused"}
           /\ Return(c)

\* The delay is over and the permit is given back.
Release(c) ==
    /\ phase[c] = "holding" /\ timer[c] = 0
    /\ free' = free + 1 /\ After(c)
    /\ UNCHANGED <<running, timer, spent>>

\* The pause before a retry is over.
Resume(c) ==
    /\ phase[c] = "pausing"
    /\ phase' = [phase EXCEPT ![c] = "queued"] /\ queue' = Append(queue, c)
    /\ UNCHANGED <<running, timer, request, get, free, spent>>

-----------------------------------------------------------------------------
(* The runs.                                                               *)

\* The local variables of the fetches in C are gone.
Clear(C) ==
    /\ timer' = [c \in Calls |-> IF c \in C THEN 0 ELSE timer[c]]
    /\ request' = [c \in Calls |-> IF c \in C THEN 1 ELSE request[c]]
    /\ sent' = [c \in Calls |-> IF c \in C THEN <<>> ELSE sent[c]]
    /\ n429' = [c \in Calls |-> IF c \in C THEN 0 ELSE n429[c]]
    /\ nnet' = [c \in Calls |-> IF c \in C THEN 0 ELSE nnet[c]]

\* The phases when job j's fetches are all in phase p.
AllIn(j, p) == [c \in Calls |-> IF c \in CallsOf(j) THEN p ELSE phase[c]]

\* The queue without the fetches in C, the others in their order: what stays is at the
\* place that says how many that stay are not after it.
Without(C) ==
    LET stay == {i \in DOMAIN queue : queue[i] \notin C}
        place == [i \in stay |-> Cardinality({k \in stay : k <= i})]
    IN  [n \in 1 .. Cardinality(stay) |-> queue[CHOOSE i \in stay : place[i] = n]]

\* A run starts, and all its tickers are fetched at once.
Start(j) ==
    /\ j \notin running
    /\ running' = running \cup {j} /\ phase' = AllIn(j, "queued")
    /\ queue' = queue \o Fetches[j]
    /\ UNCHANGED <<timer, request, get, free, spent>>

\* One insertion at the end of a fetch; one that raises ends it as well.
Insert(c) ==
    /\ phase[c] = "inserting"
    /\ phase' = [phase EXCEPT ![c] = "ended"] /\ Clear({c})
    /\ UNCHANGED <<running, sem, spent>>

\* All fetches have ended, and the run with them.
Finish(j) ==
    /\ j \in running /\ \A c \in CallsOf(j) : Ended(c)
    /\ running' = running \ {j} /\ phase' = AllIn(j, "idle") /\ Clear(CallsOf(j))
    /\ UNCHANGED <<sem, spent>>

\* Fault: a cancelled request keeps its permit.
FaultTimeout(j) ==
    /\ j \in running /\ running' = running \ {j}
    /\ phase' = AllIn(j, "idle") /\ Clear(CallsOf(j))
    /\ queue' = Without(CallsOf(j))
    /\ UNCHANGED <<free, spent>>

\* JOB_TIMEOUTS_S: the run is cancelled, wherever its fetches are.  Permits come back
\* without the delay, and waiters leave the queue.
Timeout(j) ==
    /\ j \in running /\ running' = running \ {j}
    /\ phase' = AllIn(j, "idle") /\ Clear(CallsOf(j))
    /\ queue' = Without(CallsOf(j))
    /\ free' = free + Cardinality({c \in CallsOf(j) : Holds(c)})
    /\ spent' = spent - Cardinality({c \in CallsOf(j) : timer[c] = Delay /\ Delay > 0})

Tick ==
    /\ \E c \in Calls : timer[c] > 0
    /\ timer' = [c \in Calls |-> IF timer[c] > 0 THEN timer[c] - 1 ELSE 0]
    /\ spent' = 0
    /\ UNCHANGED <<running, phase, request, get, sem>>

-----------------------------------------------------------------------------
Init ==
    /\ running = {}
    /\ phase = [c \in Calls |-> "idle"] /\ timer = [c \in Calls |-> 0]
    /\ request = [c \in Calls |-> 1] /\ sent = [c \in Calls |-> <<>>]
    /\ n429 = [c \in Calls |-> 0] /\ nnet = [c \in Calls |-> 0]
    /\ queue = <<>> /\ free = Permits /\ spent = 0

Step(c) == Acquire(c) \/ Release(c) \/ Resume(c) \/ Insert(c) \/ \E a \in Answers : Answer(c, a)

Next == \/ Tick
        \/ \E c \in Calls : Step(c)
        \/ \E j \in Jobs : Start(j) \/ Finish(j) \/ Timeout(j)

CallsSpec == Init /\ [][Next]_vars

\* The event loop goes on with what can go on, the client's timeout answers if the
\* provider does not, and the clock advances.
Fairness ==
    /\ WF_vars(Tick)
    /\ \A c \in Calls : WF_vars(Step(c))
    /\ \A j \in Jobs : WF_vars(Finish(j))

-----------------------------------------------------------------------------
(* Properties.                                                             *)

\* The semaphore is whole: its permits are free or held by a fetch
\* of a run, and exactly the fetches that wait are queued, each of them once.
PermitsComeBack ==
    /\ free + Held = Permits
    /\ \A c \in Calls : Cardinality({i \in DOMAIN queue : queue[i] = c}) = IF phase[c] = "queued" THEN 1 ELSE 0
    /\ \A j \in Jobs \ running : \A c \in CallsOf(j) : phase[c] = "idle"

\* Of the answers that the provider counts in one unit of time there are no more than
\* permits; only a run that is cancelled gives its permits back early.
QuotaIsKept == Delay > 0 => spent <= Permits

\* Whatever mixture of retries and jobs asks, and whatever is cancelled where, no permit
\* is lost or given twice and the provider is not asked faster than the delay allows.
SemaphoreIsKept == TypeOK /\ PermitsComeBack /\ QuotaIsKept

\* The retries of the two kinds do not use each other up: guarded_get gives up on a
\* request only after an unexpected error, after 1 + Backoff answers 429 or after
\* 1 + NetRetries network errors, and it never sends it more often than that allows.
RetriesAreBudgeted ==
    \A c \in Calls :
        /\ Count(c, "limited") <= Backoff + 1 /\ Count(c, "net") <= NetRetries + 1
        /\ Len(sent[c]) <= Backoff + NetRetries + 1
        /\ \A i \in 1 .. Len(sent[c]) - 1 : sent[c][i] \in {"limited", "net"}
        /\ phase[c] = "inserting" =>
              \/ sent[c][Len(sent[c])] \in {"ok", "refused"}
              \/ Count(c, "limited") = Backoff + 1
              \/ Count(c, "net") = NetRetries + 1

\* What guarded_get promises of its requests, those it repeats included.
RequestsAreGuarded == SemaphoreIsKept /\ RetriesAreBudgeted

\* No job starves another: every run ends, even without its timeout, and however often
\* another job that waits for the same semaphore is started again.
EveryRunEnds == \A j \in Jobs : j \in running ~> j \notin running
=============================================================================
