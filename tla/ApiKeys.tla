------------------------------ MODULE ApiKeys ------------------------------
(***************************************************************************)
(* One API key: its row in api_keys, the tier cached for it in Redis       *)
(* (auth:tier:{hash}) and the requests that authenticate with it           *)
(* (api/auth.py, scripts/db/queries/api_keys.py), with the endpoint that   *)
(* mints and extends demo keys (api/routes/demo_key.py), the hourly        *)
(* clean-up and the tool that creates and revokes keys.  Keys do not       *)
(* interact, so one is enough.                                             *)
(*                                                                         *)
(* A lookup reads the cache, then the row, then fills the cache: three     *)
(* calls, between which other requests, a revocation, the clean-up, an     *)
(* outage of Redis and the clock may step in.                              *)
(***************************************************************************)
EXTENDS Naturals

CONSTANTS
    Requests,     \* requests that may be in flight at the same time
    KeyTTL,       \* DEMO_KEY_TTL_DAYS, in clock units
    CacheTTL,     \* _TIER_CACHE_TTL, in clock units
    LookupLimit,  \* the longest a lookup takes from its read to its end
    MaxTime       \* bound: the clock stops here

ASSUME KeyAssumption ==
    /\ KeyTTL \in Nat \ {0} /\ CacheTTL \in Nat \ {0}
    /\ LookupLimit \in Nat /\ MaxTime \in Nat

VARIABLES
    now,        \* the clock, which PostgreSQL and Redis share
    up,         \* Redis answers: "yes" or "no"
    kind,       \* key_type: "demo" or "standard"
    row,        \* "unborn", "active", "revoked" (is_active is false) or "deleted"
    expires,    \* expires_at of a demo key
    cached,     \* what the cache holds: "valid", the "miss" marker or "none"
    cacheEnd,   \* when the cache entry expires
    pc,         \* pc[r]: where the lookup of r is
    got,        \* got[r]: what r read from the row
    since,      \* since[r]: when r read the row, or the cache before that
    lastValid,  \* the last time at which the row was valid
    accepted,   \* the time of the latest request that was let through
    promised    \* the same, leaving out lookups made without Redis

vars == <<now, up, kind, row, expires, cached, cacheEnd, pc, got, since,
          lastValid, accepted, promised>>

key == <<kind, row, expires>>
cache == <<cached, cacheEnd>>
lookups == <<pc, got, since>>
seen == <<lastValid, accepted, promised>>

Phases == {"idle", "db", "readonly", "fill"}

TypeOK ==
    /\ now \in Nat /\ cacheEnd \in Nat
    /\ expires \in IF kind = "demo" THEN Nat ELSE {0}
    /\ up \in {"yes", "no"} /\ kind \in {"demo", "standard"}
    /\ row \in {"unborn", "active", "revoked", "deleted"}
    /\ cached \in {"none", "valid", "miss"}
    /\ pc \in [Requests -> Phases]
    /\ got \in [Requests -> {"none", "valid", "miss"}]
    /\ since \in [Requests -> Nat]
    /\ lastValid \in Nat /\ accepted \in Nat /\ promised \in Nat

Init ==
    /\ now = 1 /\ up = "yes" /\ kind \in {"demo", "standard"} /\ row = "unborn"
    /\ expires = 0 /\ cached = "none" /\ cacheEnd = 0
    /\ pc = [r \in Requests |-> "idle"]
    /\ got = [r \in Requests |-> "none"]
    /\ since = [r \in Requests |-> 0]
    /\ lastValid = 0 /\ accepted = 0 /\ promised = 0

---------------------------------------------------------------------------
(* The row.                                                                *)

\* is_active AND (expires_at IS NULL OR expires_at > now()).
ValidAt(t) == row = "active" /\ (kind = "standard" \/ expires > t)
Valid == ValidAt(now)

\* expires_at after a lookup or an extension: it slides for demo keys.
Slid == IF kind = "demo" THEN now + KeyTTL ELSE expires

\* insert_demo_key, or the create command for a standard key.
CreateKey ==
    /\ row = "unborn"
    /\ row' = "active" /\ expires' = Slid /\ lastValid' = now
    /\ UNCHANGED <<now, up, kind, cache, lookups, accepted, promised>>

\* extend_demo_key: the owner of a valid demo key comes back to the mint page.
ExtendKey ==
    /\ kind = "demo" /\ Valid
    /\ expires' = Slid
    /\ UNCHANGED <<now, up, kind, row, cache, lookups, seen>>

\* The revoke command; it does not touch the cache.
RevokeKey ==
    /\ row = "active" /\ row' = "revoked"
    /\ UNCHANGED <<now, up, kind, expires, cache, lookups, seen>>

\* Fault: the hourly job prunes keys that expire within a cache lifetime.
CleanUpEarly ==
    /\ kind = "demo" /\ row \in {"active", "revoked"} /\ expires < now + CacheTTL
    /\ row' = "deleted"
    /\ UNCHANGED <<now, up, kind, expires, cache, lookups, seen>>

\* delete_expired_demo_keys.
CleanUp ==
    /\ kind = "demo" /\ row \in {"active", "revoked"} /\ expires < now
    /\ row' = "deleted"
    /\ UNCHANGED <<now, up, kind, expires, cache, lookups, seen>>

---------------------------------------------------------------------------
(* Requests.                                                               *)

InCache == IF now < cacheEnd THEN cached ELSE "none"

\* The request goes through; a lookup made through Redis is a promise that the
\* key lives on.
Accept == accepted' = now /\ promised' = now /\ UNCHANGED lastValid
AcceptDegraded == accepted' = now /\ UNCHANGED <<lastValid, promised>>

Goto(r, phase) == pc' = [pc EXCEPT ![r] = phase]

\* Fault: a hit renews the entry's time to live.
CacheHitRenewing(r) ==
    /\ pc[r] = "idle" /\ row # "unborn" /\ up = "yes" /\ InCache # "none"
    /\ IF InCache = "valid" THEN Accept ELSE UNCHANGED seen
    /\ cacheEnd' = now + CacheTTL
    /\ UNCHANGED <<now, up, key, cached, lookups>>

\* The tier, or the miss marker, is in the cache: answered without the row.
CacheHit(r) ==
    /\ pc[r] = "idle" /\ row # "unborn" /\ up = "yes" /\ InCache # "none"
    /\ IF InCache = "valid" THEN Accept ELSE UNCHANGED seen
    /\ UNCHANGED <<now, up, key, cache, lookups>>

\* Nothing is cached: on to the row.  Redis is down: read-only.
CacheMiss(r) ==
    /\ pc[r] = "idle" /\ row # "unborn"
    /\ \/ up = "yes" /\ InCache = "none" /\ Goto(r, "db")
       \/ up = "no" /\ Goto(r, "readonly")
    /\ since' = [since EXCEPT ![r] = now]
    /\ UNCHANGED <<now, up, key, cache, got, seen>>

\* get_key_tier: one UPDATE checks the row and slides its expiry.
ReadRow(r) ==
    /\ pc[r] = "db"
    /\ got' = [got EXCEPT ![r] = IF Valid THEN "valid" ELSE "miss"]
    /\ expires' = IF Valid THEN Slid ELSE expires
    /\ since' = [since EXCEPT ![r] = now]
    /\ Goto(r, "fill")
    /\ UNCHANGED <<now, up, kind, row, cache, seen>>

\* The tier or the miss marker is cached, unless Redis fails; then the answer.
Fill(r) ==
    /\ pc[r] = "fill"
    /\ \/ up = "yes" /\ cached' = got[r] /\ cacheEnd' = now + CacheTTL
       \/ UNCHANGED cache
    /\ IF got[r] = "valid" THEN Accept ELSE UNCHANGED seen
    /\ Goto(r, "idle") /\ got' = [got EXCEPT ![r] = "none"]
    /\ UNCHANGED <<now, up, key, since>>

\* get_key_tier_readonly: the same check, nothing written.
ReadOnly(r) ==
    /\ pc[r] = "readonly"
    /\ IF Valid THEN AcceptDegraded ELSE UNCHANGED seen
    /\ Goto(r, "idle")
    /\ UNCHANGED <<now, up, key, cache, got, since>>

\* The query failed, or the client went away: the request ends with an error.
LookupFails(r) ==
    /\ pc[r] # "idle"
    /\ Goto(r, "idle") /\ got' = [got EXCEPT ![r] = "none"]
    /\ UNCHANGED <<now, up, key, cache, since, seen>>

---------------------------------------------------------------------------
\* Redis becomes unreachable or comes back; its entries may be gone by then.
RedisFlips ==
    /\ up' = IF up = "yes" THEN "no" ELSE "yes"
    /\ \/ UNCHANGED cache
       \/ cached' = "none" /\ cacheEnd' = 0
    /\ UNCHANGED <<now, key, lookups, seen>>

\* Time passes; no lookup takes longer than LookupLimit.
Tick ==
    /\ now < MaxTime
    /\ \A r \in Requests : pc[r] = "idle" \/ now < since[r] + LookupLimit
    /\ now' = now + 1
    /\ lastValid' = IF ValidAt(now + 1) THEN now + 1 ELSE lastValid
    /\ UNCHANGED <<up, key, cache, lookups, accepted, promised>>

Next ==
    \/ CreateKey \/ ExtendKey \/ RevokeKey \/ CleanUp
    \/ \E r \in Requests :
          \/ CacheHit(r) \/ CacheMiss(r) \/ ReadRow(r) \/ Fill(r)
          \/ ReadOnly(r) \/ LookupFails(r)
    \/ RedisFlips \/ Tick

Spec == Init /\ [][Next]_vars

---------------------------------------------------------------------------
(* Properties.                                                             *)

\* A request goes through only if the key was valid at most one cache lifetime
\* and one lookup before: revocation and expiry take effect, whatever races with
\* the filling of the cache.
RevocationTakesEffect == accepted < lastValid + CacheTTL + LookupLimit

\* A demo key that was accepted through Redis lives on for the whole demo time
\* less one cache lifetime and one lookup, unless it is revoked: a client whose
\* requests are never further apart is never refused, although cache hits do not
\* slide the expiry and expired keys are pruned under its feet.
ActiveKeysLive ==
    kind = "demo" /\ promised > 0 /\ row # "revoked" =>
        \/ row = "active" /\ promised + KeyTTL < expires + CacheTTL + LookupLimit
        \/ promised + KeyTTL < now + CacheTTL + LookupLimit

=============================================================================
