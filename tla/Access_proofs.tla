--------------------------- MODULE Access_proofs ---------------------------
(***************************************************************************)
(* Proofs about what stands before the API, for every limit, window,       *)
(* lifetime and number of concurrent requests.                             *)
(*                                                                         *)
(* RateLimiter: the fixed window lets through at most twice its limit in   *)
(* any Window consecutive ticks, and refuses nobody who has not used up    *)
(* the limit.  The invariant gives every counted request a rank in its     *)
(* window, of which there are two at a time.                               *)
(*                                                                         *)
(* ApiKeys: revocation takes effect, and demo keys that are in use stay    *)
(* valid.  The invariants bound, by the last time at which the key was     *)
(* valid, what a lookup in flight has read and how long a cached tier can  *)
(* be served; and, by the last accepted request, when the row expires.     *)
(***************************************************************************)
EXTENDS RateLimiter, ApiKeys, FiniteSetTheorems, TLAPS

---------------------------------------------------------------------------
(* The counter.                                                            *)

\* The counter stays within its types, and only an inherited one lacks an expiry.
THEOREM CounterTypeCorrect == LimiterSpec => []LimiterTypeOK
<1> USE LimiterAssumption DEF Counts, NoExpiry, Request
<1>1. LimiterInit => LimiterTypeOK
  <2> SUFFICES ASSUME LimiterInit PROVE LimiterTypeOK
    OBVIOUS
  <2>1. count \in Counts /\ (count = 0 \/ origin = "older")
    BY DEF LimiterInit
  <2> QED BY <2>1 DEF LimiterInit, LimiterTypeOK
<1>2. LimiterTypeOK /\ [LimiterNext]_limiter => LimiterTypeOK'
  <2> SUFFICES ASSUME LimiterTypeOK, [LimiterNext]_limiter PROVE LimiterTypeOK'
    OBVIOUS
  <2> USE DEF LimiterTypeOK
  <2>0. Incremented \in 1 .. Limit + 1 /\ Expiry \in 1 .. Window /\ WindowAge \in 0 .. Window - 1
    BY DEF Incremented, Expiry, WindowAge
  <2>1. Counted \subseteq Request
    <3>1. 0 \in 0 .. Window - 1 /\ WindowAge \in 0 .. 2 * Window - 2
      BY <2>0
    <3> QED BY <2>0, <3>1 DEF Counted
  <2>2. Aged \subseteq Request
    <3> SUFFICES ASSUME NEW r \in Aged PROVE r \in Request
      OBVIOUS
    <3>1. PICK q \in recent : /\ q.age < Window - 1
                              /\ r = [age |-> q.age + 1, start |-> q.start + 1, rank |-> q.rank]
      BY DEF Aged
    <3>2. q \in Request
      OBVIOUS
    <3> QED BY <3>1, <3>2
  <2>3. CASE Admit
    BY <2>0, <2>1, <2>3 DEF Admit, Count
  <2>4. CASE Refuse
    BY <2>0, <2>4 DEF Refuse, Count
  <2>5. CASE FailOpen
    BY <2>0, <2>1, <2>5 DEF FailOpen, Count
  <2>6. CASE WindowTick
    <3>1. CASE ttl > 1 /\ ttl' = ttl - 1 /\ UNCHANGED <<count, origin>>
      BY <2>2, <2>6, <3>1 DEF WindowTick
    <3>2. CASE ttl = 1 /\ ttl' = NoExpiry /\ count' = 0 /\ origin' = "this"
      BY <2>2, <2>6, <3>2 DEF WindowTick
    <3>3. CASE ttl = NoExpiry /\ UNCHANGED <<count, ttl, origin>>
      BY <2>2, <2>6, <3>3 DEF WindowTick
    <3> QED BY <2>6, <3>1, <3>2, <3>3 DEF WindowTick
  <2>7. CASE Outage \/ Recover \/ UNCHANGED limiter
    BY <2>7 DEF Outage, Recover, limiter
  <2>8. CASE Flush
    BY <2>8 DEF Flush
  <2> QED BY <2>3, <2>4, <2>5, <2>6, <2>7, <2>8 DEF LimiterNext
<1> QED BY <1>1, <1>2, PTL DEF LimiterSpec

---------------------------------------------------------------------------
(***************************************************************************)
(* The windows of what was let through lie at least Window apart, and in   *)
(* one window the ranks differ.                                            *)
(***************************************************************************)

\* The window that a request counted now would fall in is younger by Window than
\* any other, or is the one being counted.
WindowInv ==
    /\ \A r \in recent : r.rank <= Limit /\ r.age <= r.start /\ r.start < r.age + Window
    /\ \A r \in recent :
          \/ ttl # NoExpiry /\ r.start = Window - ttl /\ r.rank <= count
          \/ r.start >= WindowAge + Window
    /\ \A r, s \in recent :
          \/ r.start + Window <= s.start \/ s.start + Window <= r.start
          \/ r.start = s.start /\ (r.rank = s.rank => r = s)

\* A request that is let through gets a rank of its own in its window.
LEMMA CountStep ==
    ASSUME LimiterTypeOK, WindowInv, Count, ~OverLimit(Incremented), recent' = Counted
    PROVE  WindowInv'
<1> USE LimiterAssumption DEF LimiterTypeOK, Counts, NoExpiry
<1> DEFINE q == [age |-> 0, start |-> WindowAge, rank |-> Incremented]
<1>1. /\ count \in Nat /\ count <= Limit /\ count' = count + 1 /\ count + 1 <= Limit
      /\ Incremented = count + 1
  BY DEF Count, Incremented, OverLimit
<1>2. /\ Expiry \in 1 .. Window /\ ttl' = Expiry /\ ttl' # NoExpiry
      /\ WindowAge = Window - Expiry /\ WindowAge' = WindowAge
  BY DEF Count, Expiry, WindowAge
<1>3. \A r \in recent : r \in Request
  OBVIOUS
<1>4. recent' = recent \cup {q}
  BY DEF Counted
<1>5. \A r \in recent :
         \/ r.start = WindowAge /\ r.rank <= count
         \/ r.start >= WindowAge + Window
  BY <1>2 DEF WindowInv, Expiry
<1>6. \A r \in recent' : r.rank <= Limit /\ r.age <= r.start /\ r.start < r.age + Window
  BY <1>1, <1>2, <1>4 DEF WindowInv
<1>7. \A r \in recent' :
          \/ ttl' # NoExpiry /\ r.start = Window - ttl' /\ r.rank <= count'
          \/ r.start >= WindowAge' + Window
  BY <1>1, <1>2, <1>3, <1>4, <1>5 DEF Request
<1>8. \A r, s \in recent' :
          \/ r.start + Window <= s.start \/ s.start + Window <= r.start
          \/ r.start = s.start /\ (r.rank = s.rank => r = s)
  <2> SUFFICES ASSUME NEW r \in recent', NEW s \in recent'
               PROVE  \/ r.start + Window <= s.start \/ s.start + Window <= r.start
                      \/ r.start = s.start /\ (r.rank = s.rank => r = s)
    OBVIOUS
  <2>1. CASE r \in recent /\ s \in recent
    BY <2>1 DEF WindowInv
  <2>2. CASE r \in recent /\ s = q
    BY <1>1, <1>2, <1>3, <1>5, <2>2 DEF Request
  <2>3. CASE r = q /\ s \in recent
    BY <1>1, <1>2, <1>3, <1>5, <2>3 DEF Request
  <2>4. CASE r = q /\ s = q
    BY <2>4
  <2> QED BY <1>4, <2>1, <2>2, <2>3, <2>4
<1> QED BY <1>6, <1>7, <1>8 DEF WindowInv

\* A request that is not let through leaves the windows as they are.
LEMMA RefuseStep ==
    ASSUME LimiterTypeOK, WindowInv, Count, recent' = recent
    PROVE  WindowInv'
<1> USE LimiterAssumption DEF LimiterTypeOK, Counts, NoExpiry
<1>1. /\ Expiry \in 1 .. Window /\ ttl' = Expiry /\ ttl' # NoExpiry
      /\ WindowAge = Window - Expiry /\ WindowAge' = WindowAge
      /\ count \in Nat /\ count' \in Nat /\ count' >= count
  BY DEF Count, Expiry, WindowAge, Incremented
<1> QED BY <1>1 DEF WindowInv, Request, Expiry

\* A tick ages windows and requests alike; a window that expires is Window old.
LEMMA TickStep == ASSUME LimiterTypeOK, WindowInv, WindowTick PROVE WindowInv'
<1> USE LimiterAssumption DEF LimiterTypeOK, Counts, NoExpiry
<1>1. \A r \in recent' : \E q \in recent :
          r = [age |-> q.age + 1, start |-> q.start + 1, rank |-> q.rank]
  BY DEF WindowTick, Aged, Request
<1>2. \/ ttl' = ttl - 1 /\ ttl > 1 /\ count' = count /\ WindowAge' = WindowAge + 1
      \/ ttl = 1 /\ ttl' = NoExpiry /\ WindowAge' = 0
      \/ ttl = NoExpiry /\ ttl' = ttl /\ WindowAge' = 0 /\ WindowAge = 0
  BY DEF WindowTick, WindowAge, Expiry
<1>3. \A r \in recent' : r.rank <= Limit /\ r.age <= r.start /\ r.start < r.age + Window
  BY <1>1 DEF WindowInv, Request
<1>4. \A r \in recent' :
          \/ ttl' # NoExpiry /\ r.start = Window - ttl' /\ r.rank <= count'
          \/ r.start >= WindowAge' + Window
  <2> SUFFICES ASSUME NEW r \in recent'
               PROVE  \/ ttl' # NoExpiry /\ r.start = Window - ttl' /\ r.rank <= count'
                      \/ r.start >= WindowAge' + Window
    OBVIOUS
  <2>1. PICK q \in recent : r = [age |-> q.age + 1, start |-> q.start + 1, rank |-> q.rank]
    BY <1>1
  <2>2. \/ ttl # NoExpiry /\ q.start = Window - ttl /\ q.rank <= count
        \/ q.start >= WindowAge + Window
    BY DEF WindowInv
  <2>3. WindowAge \in Nat
    BY DEF WindowAge, Expiry
  <2> QED BY <1>2, <2>1, <2>2, <2>3 DEF Request
<1>5. \A r, s \in recent' :
          \/ r.start + Window <= s.start \/ s.start + Window <= r.start
          \/ r.start = s.start /\ (r.rank = s.rank => r = s)
  <2> SUFFICES ASSUME NEW r \in recent', NEW s \in recent'
               PROVE  \/ r.start + Window <= s.start \/ s.start + Window <= r.start
                      \/ r.start = s.start /\ (r.rank = s.rank => r = s)
    OBVIOUS
  <2>1. PICK q \in recent : r = [age |-> q.age + 1, start |-> q.start + 1, rank |-> q.rank]
    BY <1>1
  <2>2. PICK p \in recent : s = [age |-> p.age + 1, start |-> p.start + 1, rank |-> p.rank]
    BY <1>1
  <2>3. \/ q.start + Window <= p.start \/ p.start + Window <= q.start
        \/ q.start = p.start /\ (q.rank = p.rank => q = p)
    BY DEF WindowInv
  <2> QED BY <2>1, <2>2, <2>3 DEF Request
<1> QED BY <1>3, <1>4, <1>5 DEF WindowInv

\* Requests of different windows are a Window apart, and those of one differ in rank.
LEMMA WindowsApart == LimiterSpec => [](LimiterTypeOK /\ WindowInv)
<1> USE LimiterAssumption
<1>1. LimiterInit => WindowInv
  BY DEF LimiterInit, WindowInv
<1>2. LimiterTypeOK /\ WindowInv /\ [LimiterNext]_limiter => WindowInv'
  <2> SUFFICES ASSUME LimiterTypeOK, WindowInv, [LimiterNext]_limiter PROVE WindowInv'
    OBVIOUS
  <2>1. CASE Admit
    BY <2>1, CountStep DEF Admit
  <2>2. CASE Refuse
    BY <2>2, RefuseStep DEF Refuse
  <2>3. CASE FailOpen
    <3>1. CASE UNCHANGED <<count, ttl, recent>>
      BY <3>1 DEF WindowInv, WindowAge, Expiry
    <3>2. CASE Count /\ OverLimit(Incremented) /\ recent' = recent
      BY <3>2, RefuseStep
    <3>3. CASE Count /\ ~OverLimit(Incremented) /\ recent' = Counted
      BY <3>3, CountStep
    <3> QED BY <2>3, <3>1, <3>2, <3>3 DEF FailOpen
  <2>4. CASE WindowTick
    BY <2>4, TickStep
  <2>5. CASE Flush
    BY <2>5 DEF Flush, WindowInv
  <2>6. CASE Outage \/ Recover \/ UNCHANGED limiter
    BY <2>6 DEF Outage, Recover, limiter, WindowInv, WindowAge, Expiry
  <2> QED BY <2>1, <2>2, <2>3, <2>4, <2>5, <2>6 DEF LimiterNext
<1> QED BY <1>1, <1>2, CounterTypeCorrect, PTL DEF LimiterSpec

---------------------------------------------------------------------------
\* The requests let through are finitely many, at most twice the limit: two
\* windows at most reach into Window ticks, and each lets Limit requests through.
LEMMA CountedOnce ==
    ASSUME LimiterTypeOK, WindowInv
    PROVE  IsFiniteSet(recent) /\ Cardinality(recent) <= 2 * Limit
<1> USE LimiterAssumption
<1> DEFINE T == 1 .. 2 * Limit
           f == [r \in recent |-> IF r.start < Window THEN r.rank ELSE Limit + r.rank]
<1>1. f \in [recent -> T]
  BY DEF LimiterTypeOK, Request, WindowInv
<1>2. ASSUME NEW r \in recent, NEW s \in recent, f[r] = f[s] PROVE r = s
  <2>1. /\ r.start \in 0 .. 2 * Window - 2 /\ s.start \in 0 .. 2 * Window - 2
        /\ r.rank \in 1 .. Limit /\ s.rank \in 1 .. Limit
    BY DEF LimiterTypeOK, Request, WindowInv
  <2>2. r.rank = s.rank /\ (r.start < Window <=> s.start < Window)
    BY <1>2, <2>1
  <2>3. ~(r.start + Window <= s.start) /\ ~(s.start + Window <= r.start)
    BY <2>1, <2>2
  <2> QED BY <2>2, <2>3 DEF WindowInv
<1>3. IsFiniteSet(T) /\ Cardinality(T) = 2 * Limit
  BY FS_Interval
<1>4. f \in Injection(recent, T)
  BY <1>1, <1>2 DEF Injection, IsInjective
<1> HIDE DEF f, T
<1>5. IsFiniteSet(recent) /\ Cardinality(recent) <= Cardinality(T)
  BY <1>3, <1>4, FS_Injection
<1> QED BY <1>3, <1>5

\* At most twice the limit goes through in any Window consecutive ticks, for
\* every limit and window.
THEOREM BurstBounded == LimiterSpec => []TwiceTheLimit
<1>1. LimiterTypeOK /\ WindowInv => TwiceTheLimit
  BY CountedOnce DEF TwiceTheLimit
<1> QED BY <1>1, WindowsApart, PTL

---------------------------------------------------------------------------
(***************************************************************************)
(* A counter that this deploy created counts requests that were let        *)
(* through: every rank up to the count, or the limit, is taken in the      *)
(* window being counted, so the counter cannot refuse before they are.     *)
(***************************************************************************)
Taken(k) == \E r \in recent : r.rank = k /\ r.start = Window - ttl
RanksTaken == origin = "this" => \A k \in 1 .. Limit : k <= count => Taken(k)

\* Counting one more takes the next rank, unless all ranks are taken.
LEMMA RankCounted ==
    ASSUME LimiterTypeOK, RanksTaken, Count, UNCHANGED origin,
           recent' = IF OverLimit(Incremented) THEN recent ELSE Counted
    PROVE  RanksTaken'
<1> USE LimiterAssumption DEF LimiterTypeOK, Counts, NoExpiry
<1> SUFFICES ASSUME origin = "this", NEW k \in 1 .. Limit, k <= count' PROVE Taken(k)'
  BY DEF RanksTaken
<1>1. ttl' = Expiry /\ (count > 0 => ttl' = ttl) /\ recent \subseteq recent'
  BY DEF Count, Expiry, Counted
<1>2. CASE k <= count
  BY <1>1, <1>2 DEF RanksTaken, Taken
<1>3. CASE k > count
  <2>1. /\ k <= Incremented /\ k \in Nat /\ count \in Nat
        /\ k <= Limit /\ Limit \in Nat
    BY DEF Count
  <2>2. Incremented = count + 1
    BY <1>3, <2>1 DEF Incremented
  <2>3. Incremented = k /\ ~OverLimit(Incremented)
    BY <1>3, <2>1, <2>2 DEF OverLimit
  <2>4. [age |-> 0, start |-> WindowAge, rank |-> k] \in recent'
    BY <2>3 DEF Counted
  <2>5. WindowAge = Window - ttl'
    BY <1>1 DEF WindowAge
  <2> QED BY <2>4, <2>5 DEF Taken
<1> QED BY <1>2, <1>3

\* The requests of the window being counted do not leave it before its end.
LEMMA RankAged == ASSUME LimiterTypeOK, WindowInv, RanksTaken, WindowTick PROVE RanksTaken'
<1> USE LimiterAssumption DEF LimiterTypeOK, Counts, NoExpiry
<1>1. CASE ttl > 1 /\ ttl' = ttl - 1 /\ UNCHANGED <<count, origin>>
  <2> SUFFICES ASSUME origin = "this", NEW k \in 1 .. Limit, k <= count PROVE Taken(k)'
    BY <1>1 DEF RanksTaken
  <2>1. PICK q \in recent : q.rank = k /\ q.start = Window - ttl
    BY DEF RanksTaken, Taken
  <2>2. q \in Request /\ q.age < Window - 1
    BY <1>1, <2>1 DEF WindowInv, Request
  <2>3. [age |-> q.age + 1, start |-> q.start + 1, rank |-> q.rank] \in recent'
    BY <2>2 DEF WindowTick, Aged
  <2>4. q.start + 1 = Window - ttl'
    BY <1>1, <2>1
  <2> QED BY <2>1, <2>3, <2>4 DEF Taken
<1>2. CASE ttl = 1 /\ count' = 0
  BY <1>2 DEF RanksTaken
<1>3. CASE ttl = NoExpiry /\ UNCHANGED <<count, origin>>
  BY <1>3 DEF RanksTaken
<1> QED BY <1>1, <1>2, <1>3 DEF WindowTick

\* The ranks of a window are taken from the first, none left out.
LEMMA RanksAlwaysTaken == LimiterSpec => [](LimiterTypeOK /\ WindowInv /\ RanksTaken)
<1>1. LimiterInit => RanksTaken
  BY LimiterAssumption DEF LimiterInit, RanksTaken, Counts
<1>2. LimiterTypeOK /\ WindowInv /\ RanksTaken /\ [LimiterNext]_limiter => RanksTaken'
  <2> SUFFICES ASSUME LimiterTypeOK, WindowInv, RanksTaken, [LimiterNext]_limiter PROVE RanksTaken'
    OBVIOUS
  <2>1. CASE Admit
    BY <2>1, RankCounted DEF Admit
  <2>2. CASE Refuse
    BY <2>2, RankCounted DEF Refuse
  <2>3. CASE FailOpen
    <3>1. CASE UNCHANGED <<count, ttl, recent>>
      BY <2>3, <3>1 DEF FailOpen, RanksTaken, Taken
    <3>2. CASE Count /\ recent' = IF OverLimit(Incremented) THEN recent ELSE Counted
      BY <2>3, <3>2, RankCounted DEF FailOpen
    <3> QED BY <2>3, <3>1, <3>2 DEF FailOpen
  <2>4. CASE WindowTick
    BY <2>4, RankAged
  <2>5. CASE Flush
    BY <2>5, LimiterAssumption DEF Flush, RanksTaken
  <2>6. CASE Outage \/ Recover \/ UNCHANGED limiter
    BY <2>6 DEF Outage, Recover, limiter, RanksTaken, Taken
  <2> QED BY <2>1, <2>2, <2>3, <2>4, <2>5, <2>6 DEF LimiterNext
<1> QED BY <1>1, <1>2, WindowsApart, PTL DEF LimiterSpec

\* A counter is never ahead of what it counted: for every limit and window a
\* request is refused only when Limit others went through within the last
\* Window ticks, however the outages and lost answers fell.
THEOREM RefusalsEarned == LimiterSpec => RefusalsAreEarned
<1>1. ASSUME LimiterTypeOK, WindowInv, RanksTaken, Refuse, origin # "older"
      PROVE  Cardinality(recent) >= Limit
  <2> USE LimiterAssumption DEF LimiterTypeOK, Counts
  <2>1. count \in Nat /\ count >= Limit /\ origin = "this"
    BY <1>1 DEF Refuse, Incremented, OverLimit
  <2>2. \A k \in 1 .. Limit : \E r \in recent : r.rank = k
    BY <1>1, <2>1 DEF RanksTaken, Taken
  <2> DEFINE f == [k \in 1 .. Limit |-> CHOOSE r \in recent : r.rank = k]
  <2>3. \A k \in 1 .. Limit : f[k] \in recent /\ f[k].rank = k
    BY <2>2
  <2>4. f \in Injection(1 .. Limit, recent)
    <3>1. f \in [1 .. Limit -> recent]
      BY <2>3
    <3> QED BY <2>3, <3>1 DEF Injection, IsInjective
  <2>5. IsFiniteSet(recent) /\ Cardinality(recent) \in Nat
    BY <1>1, CountedOnce, FS_CardinalityType
  <2>6. Cardinality(1 .. Limit) = Limit
    BY FS_Interval
  <2> HIDE DEF f
  <2>7. Cardinality(1 .. Limit) <= Cardinality(recent)
    BY <2>4, <2>5, FS_Injection
  <2> QED BY <2>5, <2>6, <2>7
<1>2. LimiterTypeOK /\ WindowInv /\ RanksTaken /\ [LimiterNext]_limiter
          => [Refuse => origin = "older" \/ Cardinality(recent) >= Limit]_limiter
  BY <1>1
<1> QED BY <1>2, RanksAlwaysTaken, PTL DEF LimiterSpec, RefusalsAreEarned

---------------------------------------------------------------------------
(* The keys.                                                               *)

\* A valid row is valid now, and validity is never noted ahead of time.
ValidityNoted ==
    /\ lastValid <= now
    /\ Valid => lastValid = now

\* A lookup in flight is young; one that read a valid row did so before the key
\* ceased to be valid.
LookupYoung(r) ==
    /\ pc[r] # "idle" => now <= since[r] + LookupLimit
    /\ pc[r] # "fill" => got[r] = "none"
    /\ got[r] = "valid" => since[r] <= lastValid

\* A cached tier goes away one cache lifetime after the lookup that found it.
CacheBounded == cached = "valid" => cacheEnd <= lastValid + CacheTTL + LookupLimit

IInv ==
    /\ TypeOK /\ ValidityNoted /\ CacheBounded /\ RevocationTakesEffect
    /\ \A r \in Requests : LookupYoung(r)

---------------------------------------------------------------------------
\* The initial state satisfies the type invariant.
LEMMA InitTyped == Init => TypeOK
BY KeyAssumption DEF Init, TypeOK, Phases

\* Every step preserves the type invariant.
LEMMA StepTyped == TypeOK /\ [Next]_vars => TypeOK'
<1> SUFFICES ASSUME TypeOK, [Next]_vars PROVE TypeOK'
    OBVIOUS
<1> USE KeyAssumption DEF TypeOK, Phases, vars, key, cache, lookups, seen, Goto
<1>1. CASE CreateKey BY <1>1 DEF CreateKey, Slid
<1>2. CASE ExtendKey BY <1>2 DEF ExtendKey, Slid
<1>3. CASE RevokeKey BY <1>3 DEF RevokeKey
<1>4. CASE CleanUp BY <1>4 DEF CleanUp
<1>5. ASSUME NEW r \in Requests, CacheHit(r) PROVE TypeOK'
    BY <1>5 DEF CacheHit, Accept
<1>6. ASSUME NEW r \in Requests, CacheMiss(r) PROVE TypeOK'
    BY <1>6 DEF CacheMiss
<1>7. ASSUME NEW r \in Requests, ReadRow(r) PROVE TypeOK'
    BY <1>7 DEF ReadRow, Slid
<1>8. ASSUME NEW r \in Requests, Fill(r) PROVE TypeOK'
    BY <1>8 DEF Fill, Accept
<1>9. ASSUME NEW r \in Requests, ReadOnly(r) PROVE TypeOK'
    BY <1>9 DEF ReadOnly, AcceptDegraded
<1>10. ASSUME NEW r \in Requests, LookupFails(r) PROVE TypeOK'
    BY <1>10 DEF LookupFails
<1>11. CASE RedisFlips BY <1>11 DEF RedisFlips
<1>12. CASE Tick BY <1>12 DEF Tick
<1>13. CASE UNCHANGED vars BY <1>13
<1> QED BY <1>1, <1>2, <1>3, <1>4, <1>5, <1>6, <1>7, <1>8, <1>9, <1>10, <1>11,
           <1>12, <1>13 DEF Next

\* Type correctness: phases, what was read and what is cached stay within their
\* types, and a standard key never gets an expiry.
THEOREM KeyTypeCorrect == Spec => []TypeOK
<1>1. Init => TypeOK BY InitTyped
<1>2. TypeOK /\ [Next]_vars => TypeOK' BY StepTyped
<1> QED BY <1>1, <1>2, PTL DEF Spec

\* The invariant holds initially: there is no key and nothing is cached.
LEMMA InitInv == Init => IInv
<1> SUFFICES ASSUME Init PROVE IInv
    OBVIOUS
<1>1. TypeOK BY InitTyped
<1>2. ValidityNoted BY DEF Init, ValidityNoted, Valid, ValidAt
<1>3. RevocationTakesEffect BY KeyAssumption DEF Init, RevocationTakesEffect
<1>4. CacheBounded /\ \A r \in Requests : LookupYoung(r)
    BY DEF Init, CacheBounded, LookupYoung
<1> QED BY <1>1, <1>2, <1>3, <1>4 DEF IInv

\* Every step preserves the invariant.
LEMMA StepInv == IInv /\ [Next]_vars => IInv'
<1> SUFFICES ASSUME IInv, [Next]_vars PROVE IInv'
    OBVIOUS
<1>0. TypeOK' BY StepTyped DEF IInv
<1> USE <1>0, KeyAssumption
    DEF IInv, TypeOK, ValidityNoted, LookupYoung, CacheBounded,
        RevocationTakesEffect, Valid, ValidAt, vars, key, cache, lookups, seen, Goto
<1>1. CASE CreateKey BY <1>1 DEF CreateKey, Slid
<1>2. CASE ExtendKey BY <1>2 DEF ExtendKey, Slid
<1>3. CASE RevokeKey BY <1>3 DEF RevokeKey
<1>4. CASE CleanUp BY <1>4 DEF CleanUp
<1>5. ASSUME NEW r \in Requests, CacheHit(r) PROVE IInv'
    <2>1. accepted' < lastValid' + CacheTTL + LookupLimit /\ lastValid' = lastValid
        <3>1. CASE InCache = "valid"
            <4>1. now < cacheEnd /\ cached = "valid" BY <3>1 DEF InCache
            <4>2. cacheEnd <= lastValid + CacheTTL + LookupLimit BY <4>1
            <4> QED BY <1>5, <3>1, <4>1, <4>2 DEF CacheHit, Accept
        <3>2. CASE InCache # "valid" BY <1>5, <3>2 DEF CacheHit
        <3> QED BY <3>1, <3>2
    <2>2. UNCHANGED <<now, row, kind, expires, cached, cacheEnd, pc, got, since>>
        BY <1>5 DEF CacheHit
    <2> QED BY <2>1, <2>2
<1>6. ASSUME NEW r \in Requests, CacheMiss(r) PROVE IInv'
    BY <1>6 DEF CacheMiss
<1>7. ASSUME NEW r \in Requests, ReadRow(r) PROVE IInv'
    BY <1>7 DEF ReadRow, Slid
<1>8. ASSUME NEW r \in Requests, Fill(r) PROVE IInv'
    <2>1. pc[r] = "fill" /\ now <= since[r] + LookupLimit BY <1>8 DEF Fill
    <2>2. UNCHANGED <<now, row, kind, expires, since, lastValid>>
        BY <1>8 DEF Fill, Accept
    <2>3. got[r] = "valid" => now <= lastValid + LookupLimit BY <2>1
    <2>4. RevocationTakesEffect' BY <1>8, <2>2, <2>3 DEF Fill, Accept
    <2>5. CacheBounded' BY <1>8, <2>2, <2>3 DEF Fill
    <2>6. \A q \in Requests : LookupYoung(q)' BY <1>8, <2>2 DEF Fill
    <2>7. ValidityNoted' BY <2>2
    <2> QED BY <2>4, <2>5, <2>6, <2>7
<1>9. ASSUME NEW r \in Requests, ReadOnly(r) PROVE IInv'
    <2>1. UNCHANGED <<now, row, kind, expires, cached, cacheEnd, got, since, lastValid>>
        BY <1>9 DEF ReadOnly, AcceptDegraded
    <2>2. pc[r] = "readonly" /\ pc' = [pc EXCEPT ![r] = "idle"] BY <1>9 DEF ReadOnly
    <2>3. accepted' < lastValid + CacheTTL + LookupLimit
        <3>1. CASE Valid
            <4>1. accepted' = now /\ lastValid = now
                BY <1>9, <3>1 DEF ReadOnly, AcceptDegraded
            <4> QED BY <4>1
        <3>2. CASE ~Valid BY <1>9, <3>2 DEF ReadOnly
        <3> QED BY <3>1, <3>2
    <2>4. ASSUME NEW q \in Requests PROVE LookupYoung(q)'
        <3>1. LookupYoung(q) /\ LookupYoung(r) OBVIOUS
        <3>2. CASE q = r BY <2>1, <2>2, <3>1, <3>2
        <3>3. CASE q # r BY <2>1, <2>2, <3>1, <3>3
        <3> QED BY <3>2, <3>3
    <2> QED BY <2>1, <2>3, <2>4
<1>10. ASSUME NEW r \in Requests, LookupFails(r) PROVE IInv'
    BY <1>10 DEF LookupFails
<1>11. CASE RedisFlips BY <1>11 DEF RedisFlips
<1>12. CASE Tick BY <1>12 DEF Tick
<1>13. CASE UNCHANGED vars BY <1>13
<1> QED BY <1>1, <1>2, <1>3, <1>4, <1>5, <1>6, <1>7, <1>8, <1>9, <1>10, <1>11,
           <1>12, <1>13 DEF Next

\* No request goes through once the key has been invalid for one cache lifetime
\* and one lookup, for any number of concurrent requests and any lifetimes.
THEOREM RevocationBounded == Spec => []RevocationTakesEffect
<1>1. Init => IInv BY InitInv
<1>2. IInv /\ [Next]_vars => IInv' BY StepInv
<1>3. IInv => RevocationTakesEffect BY DEF IInv
<1> QED BY <1>1, <1>2, <1>3, PTL DEF Spec
---------------------------------------------------------------------------
(***************************************************************************)
(* Demo keys live on.  Every promise (a row read as valid, a cached tier,  *)
(* an accepted request) is covered by the expiry as long as the row is     *)
(* there, and by the clock once it is not: a row is pruned only after its  *)
(* expiry, and expiries only move forward.                                 *)
(***************************************************************************)

\* The row lives to time t, or t is past; give or take d.
Covered(t, d) ==
    \/ row \in {"active", "revoked"} /\ t <= expires + d
    \/ t <= now + d

PromisesCovered ==
    /\ expires <= now + KeyTTL
    /\ \A r \in Requests : got[r] = "valid" => Covered(since[r] + KeyTTL, 0)
    /\ cached = "valid" => Covered(cacheEnd + KeyTTL, CacheTTL + LookupLimit)
    /\ promised > 0 => Covered(promised + KeyTTL + 1, CacheTTL + LookupLimit)

DemoInv == kind = "demo" => PromisesCovered

\* What a step may do to the row of a demo key, and to the clock.
RowMoves ==
    /\ now' \in {now, now + 1} /\ kind' = kind
    /\ expires' \in {expires, now + KeyTTL}
    /\ \/ row' = row
       \/ row' \in {"active", "revoked"}
       \/ row' = "deleted" /\ expires < now /\ expires' = expires

\* No step does more than that to a demo key.
LEMMA StepMoves ==
    ASSUME TypeOK, [Next]_vars, kind = "demo"
    PROVE  RowMoves
<1> USE DEF TypeOK, RowMoves, vars, key, Slid
<1>1. CASE CreateKey BY <1>1 DEF CreateKey
<1>2. CASE ExtendKey BY <1>2 DEF ExtendKey
<1>3. CASE RevokeKey BY <1>3 DEF RevokeKey
<1>4. CASE CleanUp BY <1>4 DEF CleanUp
<1>5. ASSUME NEW r \in Requests, CacheHit(r) PROVE RowMoves BY <1>5 DEF CacheHit
<1>6. ASSUME NEW r \in Requests, CacheMiss(r) PROVE RowMoves BY <1>6 DEF CacheMiss
<1>7. ASSUME NEW r \in Requests, ReadRow(r) PROVE RowMoves BY <1>7 DEF ReadRow
<1>8. ASSUME NEW r \in Requests, Fill(r) PROVE RowMoves BY <1>8 DEF Fill
<1>9. ASSUME NEW r \in Requests, ReadOnly(r) PROVE RowMoves BY <1>9 DEF ReadOnly
<1>10. ASSUME NEW r \in Requests, LookupFails(r) PROVE RowMoves BY <1>10 DEF LookupFails
<1>11. CASE RedisFlips BY <1>11 DEF RedisFlips
<1>12. CASE Tick BY <1>12 DEF Tick
<1>13. CASE UNCHANGED vars BY <1>13
<1> QED BY <1>1, <1>2, <1>3, <1>4, <1>5, <1>6, <1>7, <1>8, <1>9, <1>10, <1>11,
           <1>12, <1>13 DEF Next

\* Orders of times, give or take a lifetime.
LEMMA LaterCovers ==
    ASSUME NEW t \in Nat, NEW d \in Nat, NEW m \in Nat, NEW n \in Nat, m <= n
    PROVE  t <= m + d => t <= n + d
OBVIOUS

\* A bound on a later time covers an earlier one.
LEMMA EarlierCovered ==
    ASSUME NEW t \in Nat, NEW u \in Nat, NEW c \in Nat, NEW d \in Nat, NEW n \in Nat,
           t + c <= u + d
    PROVE  u <= n + c => t <= n + d
OBVIOUS

\* The clock and the expiry of a demo key only move forward.
LEMMA TimesGrow ==
    ASSUME TypeOK, PromisesCovered, RowMoves, kind = "demo"
    PROVE  \E n, e \in Nat : /\ n = now' /\ e = expires'
                             /\ now <= n /\ expires <= e /\ e <= n + KeyTTL
<1>1. now \in Nat /\ expires \in Nat /\ expires <= now + KeyTTL /\ KeyTTL \in Nat
  BY KeyAssumption DEF TypeOK, PromisesCovered
<1>2. PICK n \in Nat : n = now' /\ now <= n
  BY <1>1 DEF RowMoves
<1>3. PICK e \in Nat : e = expires' /\ (e = expires \/ e = now + KeyTTL)
  BY <1>1 DEF RowMoves
<1>4. e <= now + KeyTTL /\ expires <= e
  BY <1>1, <1>3
<1>5. e <= n + KeyTTL
  BY <1>1, <1>2, <1>4, LaterCovers
<1> QED BY <1>2, <1>3, <1>4, <1>5

\* A time that is covered stays covered.
LEMMA CoveredKept ==
    ASSUME TypeOK, PromisesCovered, RowMoves, kind = "demo",
           NEW t \in Nat, NEW d \in Nat, Covered(t, d)
    PROVE  Covered(t, d)'
<1>1. PICK n \in Nat, e \in Nat : n = now' /\ e = expires' /\ now <= n /\ expires <= e
  BY TimesGrow
<1>2. now \in Nat /\ expires \in Nat
  BY DEF TypeOK
<1>3. (row' \in {"active", "revoked"} /\ t <= e + d) \/ t <= n + d
  <2>1. (t <= expires + d => t <= e + d) /\ (t <= now + d => t <= n + d)
    BY <1>1, <1>2, LaterCovers
  <2>2. expires < now => expires <= n
    BY <1>1, <1>2
  <2>3. expires <= n /\ t <= expires + d => t <= n + d
    BY <1>2, LaterCovers
  <2> QED BY <2>1, <2>2, <2>3 DEF RowMoves, Covered
<1> QED BY <1>1, <1>3 DEF Covered

\* A time that is covered covers all earlier ones.
LEMMA CoversEarlier ==
    ASSUME NEW n \in Nat, NEW e \in Nat, n = now', e = expires',
           NEW t \in Nat, NEW u \in Nat, NEW c \in Nat, NEW d \in Nat,
           t + c <= u + d, Covered(u, c)'
    PROVE  Covered(t, d)'
<1>1. (row' \in {"active", "revoked"} /\ u <= e + c) \/ u <= n + c
  BY DEF Covered
<1>2. (row' \in {"active", "revoked"} /\ t <= e + d) \/ t <= n + d
  BY <1>1, EarlierCovered
<1> QED BY <1>2 DEF Covered

\* At first nothing has been promised.
LEMMA DemoInit == Init => DemoInv
BY KeyAssumption DEF Init, DemoInv, PromisesCovered

\* What a step leaves alone of a promise, it leaves covered.
LEMMA PromisesKept ==
    ASSUME TypeOK, TypeOK', PromisesCovered, RowMoves, kind = "demo"
    PROVE  /\ (expires <= now + KeyTTL)'
           /\ \A r \in Requests : got[r] = "valid" /\ since'[r] = since[r] =>
                  Covered(since[r] + KeyTTL, 0)'
           /\ cached = "valid" /\ cacheEnd' = cacheEnd =>
                  Covered(cacheEnd + KeyTTL, CacheTTL + LookupLimit)'
           /\ promised > 0 /\ promised' = promised =>
                  Covered(promised + KeyTTL + 1, CacheTTL + LookupLimit)'
<1> USE KeyAssumption
<1>0. CacheTTL + LookupLimit \in Nat /\ now \in Nat /\ expires \in Nat
  BY DEF TypeOK
<1>1. (expires <= now + KeyTTL)'
  BY TimesGrow
<1>2. ASSUME NEW r \in Requests, got[r] = "valid", since'[r] = since[r]
      PROVE  Covered(since[r] + KeyTTL, 0)'
  <2>1. PICK t \in Nat : t = since[r] + KeyTTL
    BY DEF TypeOK
  <2>2. Covered(t, 0)
    BY <1>2, <2>1 DEF PromisesCovered
  <2>3. Covered(t, 0)'
    BY <2>2, CoveredKept
  <2>4. t = since'[r] + KeyTTL
    BY <1>2, <2>1
  <2> QED BY <2>3, <2>4 DEF Covered
<1>3. ASSUME cached = "valid", cacheEnd' = cacheEnd
      PROVE  Covered(cacheEnd + KeyTTL, CacheTTL + LookupLimit)'
  <2>1. PICK t \in Nat : t = cacheEnd + KeyTTL
    BY DEF TypeOK
  <2>2. Covered(t, CacheTTL + LookupLimit)
    BY <1>3, <2>1 DEF PromisesCovered
  <2>3. Covered(t, CacheTTL + LookupLimit)'
    BY <1>0, <2>2, CoveredKept
  <2> QED BY <1>3, <2>1, <2>3 DEF Covered
<1>4. ASSUME promised > 0, promised' = promised
      PROVE  Covered(promised + KeyTTL + 1, CacheTTL + LookupLimit)'
  <2>1. PICK t \in Nat : t = promised + KeyTTL + 1
    BY DEF TypeOK
  <2>2. Covered(t, CacheTTL + LookupLimit)
    BY <1>4, <2>1 DEF PromisesCovered
  <2>3. Covered(t, CacheTTL + LookupLimit)'
    BY <1>0, <2>2, CoveredKept
  <2> QED BY <1>4, <2>1, <2>3 DEF Covered
<1> QED BY <1>1, <1>2, <1>3, <1>4

\* Every step keeps the promises covered: a lookup renews the expiry when it reads
\* the row, and neither its answer nor the cached tier outlives that by more than
\* a lookup and a cache lifetime.
LEMMA DemoStep == IInv /\ DemoInv /\ [Next]_vars => DemoInv'
<1> SUFFICES ASSUME IInv, DemoInv, [Next]_vars, kind = "demo" PROVE PromisesCovered'
  <2>1. ASSUME IInv, [Next]_vars, kind' = "demo" PROVE kind = "demo"
    BY <2>1 DEF Next, vars, key, CreateKey, ExtendKey, RevokeKey, CleanUp, CacheHit, CacheMiss,
       ReadRow, Fill, ReadOnly, LookupFails, RedisFlips, Tick
  <2> QED BY <2>1 DEF DemoInv
<1> USE KeyAssumption
<1>1. TypeOK /\ TypeOK' /\ PromisesCovered /\ RowMoves /\ \A r \in Requests : LookupYoung(r)
  BY StepTyped, StepMoves DEF IInv, DemoInv
<1>2. /\ (expires <= now + KeyTTL)'
      /\ \A r \in Requests : got[r] = "valid" /\ since'[r] = since[r] =>
             Covered(since[r] + KeyTTL, 0)'
      /\ cached = "valid" /\ cacheEnd' = cacheEnd =>
             Covered(cacheEnd + KeyTTL, CacheTTL + LookupLimit)'
      /\ promised > 0 /\ promised' = promised =>
             Covered(promised + KeyTTL + 1, CacheTTL + LookupLimit)'
  BY <1>1, PromisesKept
<1>n. PICK n \in Nat, e \in Nat : n = now' /\ e = expires' /\ now <= n
  BY <1>1, TimesGrow
<1>3. ASSUME UNCHANGED <<cache, lookups, promised>> PROVE PromisesCovered'
  BY <1>2, <1>3 DEF PromisesCovered, cache, lookups
<1>4. CASE CreateKey \/ ExtendKey \/ RevokeKey \/ CleanUp \/ Tick \/ UNCHANGED vars
  BY <1>3, <1>4 DEF CreateKey, ExtendKey, RevokeKey, CleanUp, Tick, vars, seen, cache, lookups
<1>5. ASSUME NEW r \in Requests, CacheHit(r) PROVE PromisesCovered'
  <2>1. CASE InCache = "valid"
    <3>1. now < cacheEnd /\ cached = "valid" /\ promised' = now /\ cacheEnd' = cacheEnd
      BY <1>5, <2>1 DEF CacheHit, InCache, Accept, cache
    <3>2. PICK t \in Nat, u \in Nat, d \in Nat :
               /\ t = now + KeyTTL + 1 /\ u = cacheEnd + KeyTTL /\ d = CacheTTL + LookupLimit
               /\ t + d <= u + d
      BY <1>1, <3>1 DEF TypeOK
    <3>3. Covered(cacheEnd + KeyTTL, CacheTTL + LookupLimit)'
      BY <1>2, <3>1
    <3>4. Covered(u, d)'
      BY <3>1, <3>2, <3>3 DEF Covered
    <3>5. Covered(t, d)'
      BY <1>n, <3>2, <3>4, CoversEarlier
    <3>6. Covered(promised + KeyTTL + 1, CacheTTL + LookupLimit)'
      BY <3>1, <3>2, <3>5 DEF Covered
    <3> QED BY <1>2, <1>5, <3>3, <3>6 DEF CacheHit, PromisesCovered, lookups
  <2>2. CASE InCache # "valid"
    BY <1>3, <1>5, <2>2 DEF CacheHit, seen
  <2> QED BY <2>1, <2>2
<1>6. ASSUME NEW r \in Requests, CacheMiss(r) PROVE PromisesCovered'
  <2>1. got' = got /\ pc[r] = "idle" /\ since' = [since EXCEPT ![r] = now]
    BY <1>6 DEF CacheMiss
  <2>2. \A q \in Requests : got'[q] = "valid" => got[q] = "valid" /\ since'[q] = since[q]
    BY <1>1, <2>1 DEF LookupYoung, TypeOK
  <2> QED BY <1>2, <1>6, <2>2 DEF CacheMiss, PromisesCovered, cache, seen
<1>7. ASSUME NEW r \in Requests, ReadRow(r) PROVE PromisesCovered'
  <2>1. \A q \in Requests \ {r} : got'[q] = got[q] /\ since'[q] = since[q]
    BY <1>1, <1>7 DEF ReadRow, TypeOK
  <2>2. ASSUME got'[r] = "valid" PROVE Covered(since[r] + KeyTTL, 0)'
    <3>1. Valid /\ expires' = now + KeyTTL /\ since'[r] = now /\ row' = "active"
      BY <1>1, <1>7, <2>2 DEF ReadRow, TypeOK, Slid, Valid, ValidAt, key
    <3> QED BY <1>1, <3>1 DEF Covered, TypeOK
  <2> QED BY <1>2, <1>7, <2>1, <2>2 DEF ReadRow, PromisesCovered, cache, seen
<1>8. ASSUME NEW r \in Requests, Fill(r) PROVE PromisesCovered'
  <2>1. /\ now <= since[r] + LookupLimit /\ since' = since
        /\ got' = [got EXCEPT ![r] = "none"]
    BY <1>1, <1>8 DEF Fill, LookupYoung
  <2>2. PICK u \in Nat, d \in Nat, t1 \in Nat, t2 \in Nat :
             /\ u = since[r] + KeyTTL /\ d = CacheTTL + LookupLimit
             /\ t1 = now + CacheTTL + KeyTTL /\ t2 = now + KeyTTL + 1
             /\ t1 <= u + d /\ t2 <= u + d
    BY <1>1, <2>1 DEF TypeOK
  <2>3. got[r] = "valid" => Covered(u, 0)'
    BY <1>2, <2>1, <2>2 DEF Covered
  <2>4. got[r] = "valid" => Covered(t1, d)' /\ Covered(t2, d)'
    BY <1>n, <2>2, <2>3, CoversEarlier
  <2>5. \A q \in Requests : got'[q] = "valid" => got[q] = "valid"
    BY <1>1, <2>1 DEF TypeOK
  <2>6. cached' = "valid" => Covered(cacheEnd + KeyTTL, CacheTTL + LookupLimit)'
    <3>1. CASE UNCHANGED cache
      BY <1>2, <3>1 DEF cache
    <3>2. CASE cached' = got[r] /\ cacheEnd' = now + CacheTTL
      BY <2>2, <2>4, <3>2 DEF Covered
    <3> QED BY <1>8, <3>1, <3>2 DEF Fill
  <2>7. promised' > 0 => Covered(promised + KeyTTL + 1, CacheTTL + LookupLimit)'
    <3>1. CASE got[r] = "valid"
      BY <1>8, <2>2, <2>4, <3>1 DEF Fill, Accept, Covered
    <3>2. CASE got[r] # "valid"
      BY <1>2, <1>8, <3>2 DEF Fill, seen
    <3> QED BY <3>1, <3>2
  <2> QED BY <1>2, <2>1, <2>5, <2>6, <2>7 DEF PromisesCovered
<1>9. ASSUME NEW r \in Requests, ReadOnly(r) PROVE PromisesCovered'
  BY <1>2, <1>9 DEF ReadOnly, AcceptDegraded, PromisesCovered, cache, seen
<1>10. ASSUME NEW r \in Requests, LookupFails(r) PROVE PromisesCovered'
  <2>1. \A q \in Requests : got'[q] = "valid" => got[q] = "valid"
    BY <1>1, <1>10 DEF LookupFails, TypeOK
  <2> QED BY <1>2, <1>10, <2>1 DEF LookupFails, PromisesCovered, cache, seen
<1>11. CASE RedisFlips
  BY <1>2, <1>11 DEF RedisFlips, PromisesCovered, cache, lookups, seen
<1> QED BY <1>4, <1>5, <1>6, <1>7, <1>8, <1>9, <1>10, <1>11 DEF Next

\* A demo key in steady use is never refused for want of expiry or pruned: for any
\* lifetimes and any number of racing requests, what was accepted through Redis
\* holds for the demo time less one cache lifetime and one lookup.
THEOREM DemoKeysLive == Spec => []ActiveKeysLive
<1>1. Init => IInv /\ DemoInv
  BY InitInv, DemoInit
<1>2. IInv /\ DemoInv /\ [Next]_vars => (IInv /\ DemoInv)'
  BY StepInv, DemoStep
<1>3. IInv /\ DemoInv => ActiveKeysLive
  <2> SUFFICES ASSUME IInv, DemoInv, kind = "demo", promised > 0, row # "revoked"
               PROVE  \/ row = "active" /\ promised + KeyTTL < expires + CacheTTL + LookupLimit
                      \/ promised + KeyTTL < now + CacheTTL + LookupLimit
    BY DEF ActiveKeysLive
  <2> QED BY KeyAssumption DEF IInv, TypeOK, DemoInv, PromisesCovered, Covered
<1> QED BY <1>1, <1>2, <1>3, PTL DEF Spec
=============================================================================
