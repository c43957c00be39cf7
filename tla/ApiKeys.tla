------------------------------- MODULE ApiKeys -------------------------------
(***************************************************************************)
(* The API keys of the receivers: APIKeyMiddleware with ValidateKey and    *)
(* the counter of failures (internal/auth/auth.go), while administrators   *)
(* issue, rotate, suspend, revoke and restore keys                         *)
(* (internal/admin/admin.go). Each request and each administrator is a     *)
(* thread; a call to Redis or Postgres is a step.                          *)
(*                                                                         *)
(* All requests come from one address, so there is one counter. A key is   *)
(* its hash. The checks after ValidateKey are left out: scopes never       *)
(* change, and MachineBinding has the other.                               *)
(***************************************************************************)
EXTENDS Integers, FiniteSets

CONSTANTS
    Requests,          \* requests in progress at once
    Keys,              \* keys that are or will be issued
    Missing,           \* no X-API-Key header
    Never,             \* no rotate_at
    RateLimitMaxFail,  \* failures until an address is blocked
    MaxTime,           \* bound: the clock
    MaxChanges,        \* bound: changes by administrators
    MaxEvents          \* bound: failed calls and calls sent twice

ASSUME ApiKeysAssumption ==
    /\ IsFiniteSet(Requests)
    /\ Missing \notin Keys
    /\ Never \notin Int
    /\ RateLimitMaxFail \in Nat \ {0}
    /\ MaxTime \in Nat /\ MaxChanges \in Nat /\ MaxEvents \in Nat

VARIABLES
    row,       \* api_keys: status and rotate_at of each key
    now,       \* the clock
    cached,    \* apikey:<hash>: what its bytes are
    stale,     \* keys an administrator has changed and not yet taken from
               \* the cache
    failures,  \* ratelimit:authfail:<ip>
    req,       \* what each request has found out
    changes,   \* changes so far
    events     \* events so far

vars == <<row, now, cached, stale, failures, req, changes, events>>

Statuses == {"active", "suspended", "revoked"}
NoRow == [status |-> "none", rotateAt |-> Never]
NewRow == [status |-> "active", rotateAt |-> Never]
InFlight == {"rate", "cache", "read", "decide", "store", "fail"}
Answers == {"blocked", "error", "refused", "accepted"}

Passed(key, time) == key.rotateAt # Never /\ time > key.rotateAt
Usable(key, time) == key.status = "active" /\ ~Passed(key, time)

Init ==
    /\ row = [k \in Keys |-> NoRow]
    /\ now = 0
    /\ cached = [k \in Keys |-> "none"]
    /\ stale = {}
    /\ failures = 0
    /\ req = [r \in Requests |-> [pc |-> "idle", key |-> Missing, found |-> NoRow,
                                  mayAccept |-> FALSE, mayRefuse |-> FALSE]]
    /\ changes = 0
    /\ events = 0

Event == events < MaxEvents /\ events' = events + 1
Works == UNCHANGED events

(* What a request in progress could truthfully be told if the rows and the *)
(* clock become these: that its key is good, or that something is wrong    *)
(* with it. A key that waits for its rotation may be told either.          *)
Observe(r, rows, time) ==
    LET k == r.key IN
    IF r.pc \in InFlight /\ k # Missing
    THEN [r EXCEPT !.mayAccept = @ \/ Usable(rows[k], time),
                   !.mayRefuse = @ \/ rows[k] # NewRow]
    ELSE r
Observed(rows, time) == [r \in Requests |-> Observe(req[r], rows, time)]

-----------------------------------------------------------------------------
(* Administrators and time.                                                *)

Change == changes < MaxChanges /\ changes' = changes + 1

IssueKey(k) ==
    /\ Change
    /\ row[k] = NoRow
    /\ row' = [row EXCEPT ![k] = NewRow]
    /\ req' = Observed(row', now)
    /\ UNCHANGED <<now, cached, stale, failures, events>>

(* Any status may follow any other. The cache is cleared in a later step.  *)
SetKeyStatus(k, status) ==
    /\ Change
    /\ row[k] # NoRow
    /\ row' = [row EXCEPT ![k].status = status]
    /\ stale' = stale \cup {k}
    /\ req' = Observed(row', now)
    /\ UNCHANGED <<now, cached, failures, events>>

(* The error of DeleteAPIKeyCache is ignored.                              *)
DeleteAPIKeyCache(k) ==
    /\ k \in stale
    /\ stale' = stale \ {k}
    /\ \/ Works /\ cached' = [cached EXCEPT ![k] = "none"]
       \/ Event /\ UNCHANGED cached
    /\ UNCHANGED <<row, now, failures, req, changes>>

(* Mutant: the old key is retired although no successor was inserted.      *)
RotateKeyLinkOnly(k, new, after) ==
    /\ Change
    /\ row[k] # NoRow
    /\ row[new] = NoRow
    /\ row' = [row EXCEPT ![k].rotateAt = now + after]
    /\ req' = Observed(row', now)
    /\ UNCHANGED <<now, cached, stale, failures, events>>
(* Mutant: the grace period is counted in the wrong unit.                  *)
RotateKeyMinutes(k, new, after) ==
    /\ Change
    /\ row[k] # NoRow
    /\ row[new] = NoRow
    /\ row' = [row EXCEPT ![new] = NewRow, ![k].rotateAt = now + 60 * after]
    /\ req' = Observed(row', now)
    /\ UNCHANGED <<now, cached, stale, failures, events>>
(* One transaction inserts the successor and retires the old key at        *)
(* rotate_at, whatever the old key's status and its own rotate_at are. The *)
(* cache is left alone.                                                    *)
RotateKey(k, new, after) ==
    /\ Change
    /\ row[k] # NoRow
    /\ row[new] = NoRow
    /\ row' = [row EXCEPT ![new] = NewRow, ![k].rotateAt = now + after]
    /\ req' = Observed(row', now)
    /\ UNCHANGED <<now, cached, stale, failures, events>>

Tick ==
    /\ now < MaxTime
    /\ now' = now + 1
    /\ req' = Observed(row, now')
    /\ UNCHANGED <<row, cached, stale, failures, changes, events>>

(* KeyCacheTTL passes or Redis evicts the entry.                           *)
EvictKey(k) ==
    /\ cached[k] # "none"
    /\ cached' = [cached EXCEPT ![k] = "none"]
    /\ UNCHANGED <<row, now, stale, failures, req, changes, events>>

(* RateLimitWindow passes since the last failure, or eviction.             *)
EvictFailures ==
    /\ failures > 0
    /\ failures' = 0
    /\ UNCHANGED <<row, now, cached, stale, req, changes, events>>

-----------------------------------------------------------------------------
(* A request.                                                              *)

Goto(r, pc) == req' = [req EXCEPT ![r].pc = pc]

(* The previous request of this thread has been answered.                  *)
Arrive(r, k) ==
    /\ req[r].pc \in Answers \cup {"idle"}
    /\ LET new == [pc |-> "rate", key |-> k, found |-> NoRow,
                   mayAccept |-> FALSE, mayRefuse |-> k = Missing]
       IN req' = [req EXCEPT ![r] = Observe(new, row, now)]
    /\ UNCHANGED <<row, now, cached, stale, failures, changes, events>>

(* Mutant: one failure too many.                                           *)
BlockedLate(n) == n > RateLimitMaxFail
Blocked(n) == n >= RateLimitMaxFail

(* A counter that cannot be read is 0.                                     *)
GetAuthFailures(r) ==
    /\ req[r].pc = "rate"
    /\ \E n \in {failures, 0} :
          /\ IF n = failures THEN Works ELSE Event
          /\ Goto(r, IF Blocked(n) THEN "blocked"
                     ELSE IF req[r].key = Missing THEN "fail" ELSE "cache")
    /\ UNCHANGED <<row, now, cached, stale, failures, changes>>

(* Mutant: the cache keeps the JSON as it is.                              *)
MarshalBytesAsIs == "key"
(* SetAPIKeyCache marshals bytes that already are JSON: a string.          *)
MarshalBytes == "string"

(* What the cache holds was active when it was written. A string is not a  *)
(* CachedKey, and neither is an entry that cannot be read.                 *)
GetAPIKeyCache(r) ==
    /\ req[r].pc = "cache"
    /\ \/ Works /\ Goto(r, IF cached[req[r].key] = "key" THEN "accepted" ELSE "read")
       \/ Event /\ Goto(r, "read")
    /\ UNCHANGED <<row, now, cached, stale, failures, changes>>

(* Mutant: a failed query is taken for a key that does not exist.          *)
GetAPIKeyByHashOrNot(r) ==
    /\ req[r].pc = "read"
    /\ \/ Works /\ req' = [req EXCEPT ![r].pc = "decide", ![r].found = row[req[r].key]]
       \/ Event /\ Goto(r, "decide")
    /\ UNCHANGED <<row, now, cached, stale, failures, changes>>
GetAPIKeyByHash(r) ==
    /\ req[r].pc = "read"
    /\ \/ Works /\ req' = [req EXCEPT ![r].pc = "decide", ![r].found = row[req[r].key]]
       \/ Event /\ Goto(r, "error")
    /\ UNCHANGED <<row, now, cached, stale, failures, changes>>

(* The row was read earlier, the clock is read now.                        *)
Decide(r) ==
    /\ req[r].pc = "decide"
    /\ Goto(r, IF Usable(req[r].found, now) THEN "store" ELSE "fail")
    /\ UNCHANGED <<row, now, cached, stale, failures, changes, events>>

SetAPIKeyCache(r) ==
    /\ req[r].pc = "store"
    /\ \/ Works /\ cached' = [cached EXCEPT ![req[r].key] = MarshalBytes]
       \/ Event /\ UNCHANGED cached
    /\ Goto(r, "accepted")
    /\ UNCHANGED <<row, now, stale, failures, changes>>

(* INCR and EXPIRE go out in one write; it may fail, or be sent again.     *)
RecordFailure(r) ==
    /\ req[r].pc = "fail"
    /\ \/ Works /\ failures' = failures + 1
       \/ Event /\ failures' \in {failures, failures + 2}
    /\ Goto(r, "refused")
    /\ UNCHANGED <<row, now, cached, stale, changes>>

-----------------------------------------------------------------------------
Step(r) ==
    \/ GetAuthFailures(r)
    \/ GetAPIKeyCache(r)
    \/ GetAPIKeyByHash(r)
    \/ Decide(r)
    \/ SetAPIKeyCache(r)
    \/ RecordFailure(r)

Next ==
    \/ \E k \in Keys :
          \/ IssueKey(k)
          \/ \E status \in Statuses : SetKeyStatus(k, status)
          \/ \E new \in Keys, after \in {0, 1} : RotateKey(k, new, after)
          \/ DeleteAPIKeyCache(k)
          \/ EvictKey(k)
    \/ Tick
    \/ EvictFailures
    \/ \E r \in Requests : Step(r) \/ \E k \in Keys \cup {Missing} : Arrive(r, k)

Spec == Init /\ [][Next]_vars

-----------------------------------------------------------------------------
(* Properties.                                                             *)

(* Every variable stays in its type; a key retires at most the grace       *)
(* period after the clock.                                                 *)
Rows == [status : Statuses \cup {"none"}, rotateAt : 0 .. MaxTime + 1 \cup {Never}]
TypeOK ==
    /\ row \in [Keys -> Rows]
    /\ now \in 0 .. MaxTime
    /\ cached \in [Keys -> {"none", "string", "key"}]
    /\ stale \subseteq Keys
    /\ failures \in Nat
    /\ req \in [Requests -> [pc : InFlight \cup Answers \cup {"idle"}, key : Keys \cup {Missing},
                             found : Rows, mayAccept : BOOLEAN, mayRefuse : BOOLEAN]]
    /\ changes \in 0 .. MaxChanges
    /\ events \in 0 .. MaxEvents

(* Whoever is let in had a usable key at some moment of the request:       *)
(* suspending, revoking and rotating take effect on the next request. Only *)
(* because no entry of the cache can be decoded: an entry outlives         *)
(* rotate_at, and is written back after the deletion by a request that has *)
(* read the row before. APIKeyMiddleware, ValidateKey, SetKeyStatus,       *)
(* RotateKey.                                                              *)
AcceptedWasUsable == \A r \in Requests : req[r].pc = "accepted" => req[r].mayAccept

(* Nobody is refused with an active key that was not being rotated, at no  *)
(* moment of the request anything else, whatever call failed.              *)
RefusedForReason == \A r \in Requests : req[r].pc \in {"fail", "refused"} => req[r].mayRefuse

(* The check of the counter and its increment are apart: requests that     *)
(* passed the check together may all be counted, but no more than they.    *)
(* APIKeyMiddleware, recordFailure.                                        *)
OvershootBounded == failures <= RateLimitMaxFail - 1 + Cardinality(Requests) + events

(* Rotations alone never leave without a usable key: as long as no key is  *)
(* suspended or revoked, some issued key is usable, whatever the grace     *)
(* period. RotateAPIKey.                                                   *)
UsableKeyRemains ==
    (\E k \in Keys : row[k] # NoRow) /\ (\A k \in Keys : row[k].status \in {"none", "active"})
        => \E k \in Keys : Usable(row[k], now)
=============================================================================
