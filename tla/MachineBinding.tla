--------------------------- MODULE MachineBinding ---------------------------
(***************************************************************************)
(* Which MT4 accounts may use one API key: CheckMachineBinding of          *)
(* internal/auth/auth.go, which every poll of a receiver EA runs, over the *)
(* key_machines table (internal/store/store.go) and a cache of verdicts    *)
(* (internal/cache/cache.go), together with the admin operations on the    *)
(* table. Each query is a step of its own; last_seen_at is left out.       *)
(***************************************************************************)
EXTENDS Integers, FiniteSets

CONSTANTS
    Checks,      \* requests that are checked
    Accounts,    \* account numbers
    NoAccount,   \* no X-Account-ID header
    Limits,      \* values of max_machines an admin sets
    Unlimited,   \* max_machines NULL
    MaxAdmin,    \* bound: admin operations
    MaxFaults    \* bound: failed Redis and SQL calls

ASSUME BindingAssumption ==
    /\ MaxAdmin \in Nat
    /\ MaxFaults \in Nat
    /\ Limits \ {Unlimited} \subseteq Nat \ {0}
    /\ NoAccount \notin Accounts

VARIABLES
    stage,     \* the query a check makes next
    account,   \* the account it is about
    seen,      \* max_machines as it read it
    verdict,   \* its outcome
    limit,     \* api_keys.max_machines
    machines,  \* accounts in key_machines
    cache,     \* machine:<key>:<account>
    ever,      \* accounts that have had a row
    excess,    \* a reason why more machines than the limit may have rows
    admin,     \* admin operations so far
    faults     \* faults spent

check == <<stage, account, seen, verdict>>
vars == <<check, limit, machines, cache, ever, excess, admin, faults>>

Init ==
    /\ stage = [r \in Checks |-> "absent"]
    /\ account = [r \in Checks |-> NoAccount]
    /\ seen = [r \in Checks |-> Unlimited]
    /\ verdict = [r \in Checks |-> "none"]
    /\ limit \in Limits
    /\ machines = {}
    /\ cache = [a \in Accounts |-> "missing"]
    /\ ever = {}
    /\ excess = FALSE
    /\ admin = 0
    /\ faults = 0

Fault == faults < MaxFaults /\ faults' = faults + 1
Works == UNCHANGED faults

Goto(r, s) == stage' = [stage EXCEPT ![r] = s] /\ UNCHANGED verdict
Decide(r, v) ==
    /\ stage' = [stage EXCEPT ![r] = "over"]
    /\ verdict' = [verdict EXCEPT ![r] = v]

(* Mutant: the limit is off by one.                                        *)
FullPastLimit(n, l) == l # Unlimited /\ n > l
(* count >= *maxMachines, for a limit that is not NULL.                    *)
Full(n, l) == l # Unlimited /\ n >= l

Fits(l) == l = Unlimited \/ Cardinality(machines) <= l

(* Past the COUNT, which the INSERT does not repeat.                       *)
Counted(r) == stage[r] = "insert"

-----------------------------------------------------------------------------
Begin(r, a) ==
    /\ stage[r] = "absent"
    /\ account' = [account EXCEPT ![r] = a]
    /\ Goto(r, IF a = NoAccount THEN "any" ELSE "cached")
    /\ UNCHANGED <<seen, limit, machines, cache, ever, excess, admin, faults>>

(* Without an account number: CountMachines, open when the query fails.    *)
NoHeader(r) ==
    /\ stage[r] = "any"
    /\ \/ Works /\ Decide(r, IF machines = {} THEN "allowed" ELSE "denied")
       \/ Fault /\ Decide(r, "open")
    /\ UNCHANGED <<account, seen, limit, machines, cache, ever, excess, admin>>

(* Mutant: found is not looked at, so a miss is taken for a verdict.       *)
ReadCacheAlways(r) ==
    /\ stage[r] = "cached"
    /\ \/ Works /\ Decide(r, cache[account[r]])
       \/ Fault /\ Goto(r, "registered")
    /\ UNCHANGED <<account, seen, limit, machines, cache, ever, excess, admin>>
(* GetMachineAllowed, whose error counts as a miss.                        *)
ReadCache(r) ==
    /\ stage[r] = "cached"
    /\ LET v == cache[account[r]] IN
       \/ v # "missing" /\ Works /\ Decide(r, v)
       \/ v = "missing" /\ Works /\ Goto(r, "registered")
       \/ Fault /\ Goto(r, "registered")
    /\ UNCHANGED <<account, seen, limit, machines, cache, ever, excess, admin>>

IsRegistered(r) ==
    /\ stage[r] = "registered"
    /\ \/ /\ Works
          /\ Goto(r, IF account[r] \in machines THEN "remember" ELSE "limit")
       \/ Fault /\ Decide(r, "open")
    /\ UNCHANGED <<account, seen, limit, machines, cache, ever, excess, admin>>

(* GetMaxMachines: an error counts as no limit.                            *)
GetLimit(r) ==
    /\ stage[r] = "limit"
    /\ \/ Works /\ seen' = [seen EXCEPT ![r] = limit] /\ UNCHANGED excess
       \/ Fault /\ seen' = [seen EXCEPT ![r] = Unlimited] /\ excess' = TRUE
    /\ Goto(r, "exists")
    /\ UNCHANGED <<account, limit, machines, cache, ever, admin>>

-----------------------------------------------------------------------------
(* RegisterMachine: three statements and no transaction.                   *)

Exists(r) ==
    /\ stage[r] = "exists"
    /\ \/ /\ Works
          /\ Goto(r, IF account[r] \in machines THEN "remember"
                     ELSE IF seen[r] = Unlimited THEN "insert" ELSE "count")
       \/ Fault /\ Decide(r, "open")
    /\ UNCHANGED <<account, seen, limit, machines, cache, ever, excess, admin>>

(* The error of the COUNT query is not looked at: count stays 0.           *)
Count(r) ==
    /\ stage[r] = "count"
    /\ \/ /\ Works
          /\ Goto(r, IF Full(Cardinality(machines), seen[r]) THEN "refuse" ELSE "insert")
          /\ excess' = (excess \/ \E q \in Checks : Counted(q))
       \/ Fault /\ Goto(r, "insert") /\ excess' = TRUE
    /\ UNCHANGED <<account, seen, limit, machines, cache, ever, admin>>

(* A unique violation counts as registered; any other error lets the       *)
(* request through, whether or not the row went in.                        *)
InsertMachine(r) ==
    /\ stage[r] = "insert"
    /\ \/ /\ Works
          /\ machines' = machines \cup {account[r]}
          /\ ever' = ever \cup {account[r]}
          /\ Goto(r, "remember")
       \/ /\ Fault
          /\ \/ UNCHANGED <<machines, ever>>
             \/ machines' = machines \cup {account[r]} /\ ever' = ever \cup {account[r]}
          /\ Decide(r, "open")
    /\ UNCHANGED <<account, seen, limit, cache, excess, admin>>

(* Mutant: every verdict is cached as "allowed".                           *)
CacheVerdictAllowed(r) ==
    /\ stage[r] \in {"remember", "refuse"}
    /\ Works
    /\ cache' = [cache EXCEPT ![account[r]] = "allowed"]
    /\ Decide(r, IF stage[r] = "remember" THEN "allowed" ELSE "denied")
    /\ UNCHANGED <<account, seen, limit, machines, ever, excess, admin>>
(* SetMachineAllowed, whose error is ignored.                              *)
CacheVerdict(r) ==
    /\ stage[r] \in {"remember", "refuse"}
    /\ LET v == IF stage[r] = "remember" THEN "allowed" ELSE "denied" IN
       /\ \/ Works /\ cache' = [cache EXCEPT ![account[r]] = v]
          \/ Fault /\ UNCHANGED cache
          \/ Fault /\ cache' = [cache EXCEPT ![account[r]] = v]
       /\ Decide(r, v)
    /\ UNCHANGED <<account, seen, limit, machines, ever, excess, admin>>

-----------------------------------------------------------------------------
(* MachineCacheTTL passes, or redis_cache (allkeys-lru) evicts the entry.  *)
Forget(a) ==
    /\ cache[a] # "missing"
    /\ cache' = [cache EXCEPT ![a] = "missing"]
    /\ UNCHANGED <<check, limit, machines, ever, excess, admin, faults>>

AdminStep == admin < MaxAdmin /\ admin' = admin + 1

(* RemoveMachine; the verdict cached for the account stays.                *)
RemoveMachine(a) ==
    /\ AdminStep
    /\ a \in machines
    /\ machines' = machines \ {a}
    /\ UNCHANGED <<check, limit, cache, ever, excess, faults>>

(* SetKeyMaxMachines; it deletes the API key's cache entry, which holds no *)
(* limit, and no machine verdict.                                          *)
SetKeyMaxMachines(l) ==
    /\ AdminStep
    /\ l # limit
    /\ limit' = l
    /\ excess' = (excess \/ ~Fits(l)
                         \/ \E r \in Checks : stage[r] \in {"exists", "count", "insert"})
    /\ UNCHANGED <<check, machines, cache, ever, faults>>

Step(r) ==
    \/ NoHeader(r)
    \/ ReadCache(r)
    \/ IsRegistered(r)
    \/ GetLimit(r)
    \/ Exists(r)
    \/ Count(r)
    \/ InsertMachine(r)
    \/ CacheVerdict(r)

Next ==
    \/ \E r \in Checks : Step(r) \/ \E a \in Accounts \cup {NoAccount} : Begin(r, a)
    \/ \E a \in Accounts : Forget(a) \/ RemoveMachine(a)
    \/ \E l \in Limits : SetKeyMaxMachines(l)

Spec == Init /\ [][Next]_vars

-----------------------------------------------------------------------------
(* Properties.                                                             *)

(* Every variable stays in its type.                                       *)
TypeOK ==
    /\ stage \in [Checks -> {"absent", "any", "cached", "registered", "limit", "exists",
                             "count", "insert", "remember", "refuse", "over"}]
    /\ account \in [Checks -> Accounts \cup {NoAccount}]
    /\ seen \in [Checks -> Limits \cup {Unlimited}]
    /\ verdict \in [Checks -> {"none", "allowed", "denied", "open"}]
    /\ limit \in Limits
    /\ machines \subseteq Accounts
    /\ cache \in [Accounts -> {"missing", "allowed", "denied"}]
    /\ ever \subseteq Accounts
    /\ excess \in BOOLEAN
    /\ admin \in 0 .. MaxAdmin
    /\ faults \in 0 .. MaxFaults

(* RegisterMachine keeps the limit, except for what its missing            *)
(* transaction and its ignored errors explain: two checks between COUNT    *)
(* and INSERT at once, a COUNT or a limit that could not be read, or a     *)
(* limit lowered below what is used or changed during a registration.      *)
ExcessExplained == Fits(limit) \/ excess

(* A check of an account that has a verdict without a failed query was     *)
(* allowed only if the account has had a row, and the cache never allows   *)
(* an account that was never registered, whichever check filled it.        *)
AllowedWasRegistered ==
    /\ \A a \in Accounts : cache[a] = "allowed" => a \in ever
    /\ \A r \in Checks :
          verdict[r] = "allowed" /\ account[r] # NoAccount => account[r] \in ever
=============================================================================
