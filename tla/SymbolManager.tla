---------------------------- MODULE SymbolManager ----------------------------
(***************************************************************************)
(* Which symbols a worker consumes: Manager of internal/symbols/manager.go *)
(* in every worker process, the watched_symbols table                      *)
(* (internal/store/store.go), the list cached in Redis                     *)
(* (internal/cache/cache.go) and the admin handlers that change the table  *)
(* (internal/admin/admin.go). What the consumer goroutines do is module    *)
(* SignalQueue; here one is a member of running[w].                        *)
(***************************************************************************)
EXTENDS Integers, FiniteSets

CONSTANTS
    Workers,    \* worker processes
    Admins,     \* concurrent admin requests
    Symbols,
    Defaults,   \* defaultSymbols
    Missing,    \* no watched:symbols key in Redis
    MaxAdmin,   \* bound: changes of the table
    MaxFaults   \* bound: failed Redis and SQL calls, worker crashes

ASSUME ManagerAssumption ==
    /\ Defaults \subseteq Symbols
    /\ \A S \in SUBSET Symbols : Missing # S
    /\ MaxAdmin \in Nat
    /\ MaxFaults \in Nat

VARIABLES
    table,     \* watched_symbols: a symbol's row, if any
    list,      \* watched:symbols
    stage,     \* where the manager of a worker stands
    loaded,    \* what load has found so far
    running,   \* Manager.running: symbols with a live consumer goroutine
    request,   \* where an admin request stands
    untouched, \* symbols active from the start and never changed since
    changes,   \* changes of the table so far
    faults     \* faults spent

manager == <<stage, loaded, running>>
vars == <<table, list, manager, request, untouched, changes, faults>>

Active == {s \in Symbols : table[s] = "active"}
(* ListActiveSymbols.                                                      *)
ActiveOrDefaults == IF Active = {} THEN Defaults ELSE Active

Init ==
    /\ table \in [Symbols -> {"absent", "active", "inactive"}]
    /\ list = Missing
    /\ stage = [w \in Workers |-> "down"]
    /\ loaded = [w \in Workers |-> {}]
    /\ running = [w \in Workers |-> {}]
    /\ request = [a \in Admins |-> "none"]
    /\ untouched = Active
    /\ changes = 0
    /\ faults = 0

Fault == faults < MaxFaults /\ faults' = faults + 1
Works == UNCHANGED faults
Goto(w, s) == stage' = [stage EXCEPT ![w] = s]

-----------------------------------------------------------------------------
(* The manager of worker w.                                                *)

(* The process starts, or the ticker fires: load begins.                   *)
Tick(w) ==
    /\ stage[w] \in {"down", "idle"}
    /\ Goto(w, "get")
    /\ UNCHANGED <<table, list, loaded, running, request, untouched, changes, faults>>

(* GetSymbolList, whose error counts as a miss.                            *)
GetSymbolList(w) ==
    /\ stage[w] = "get"
    /\ \/ /\ list # Missing
          /\ Works
          /\ loaded' = [loaded EXCEPT ![w] = list]
          /\ Goto(w, "apply")
       \/ /\ (list = Missing /\ Works) \/ Fault
          /\ Goto(w, "query")
          /\ UNCHANGED loaded
    /\ UNCHANGED <<table, list, running, request, untouched, changes>>

(* Mutant: sync goes on after load has failed.                             *)
ListActiveIgnoreError(w) ==
    /\ stage[w] = "query"
    /\ \/ Works /\ loaded' = [loaded EXCEPT ![w] = ActiveOrDefaults] /\ Goto(w, "write")
       \/ Fault /\ UNCHANGED loaded /\ Goto(w, "apply")
    /\ UNCHANGED <<table, list, running, request, untouched, changes>>
(* When the query fails, sync returns, and Start has nothing to start.     *)
ListActive(w) ==
    /\ stage[w] = "query"
    /\ \/ Works /\ loaded' = [loaded EXCEPT ![w] = ActiveOrDefaults] /\ Goto(w, "write")
       \/ Fault /\ UNCHANGED loaded /\ Goto(w, "idle")
    /\ UNCHANGED <<table, list, running, request, untouched, changes>>

(* SetSymbolList, whose error is logged only.                              *)
SetSymbolList(w) ==
    /\ stage[w] = "write"
    /\ \/ Works /\ list' = loaded[w]
       \/ Fault /\ list' \in {list, loaded[w]}
    /\ Goto(w, "apply")
    /\ UNCHANGED <<table, loaded, running, request, untouched, changes>>

(* Mutant: sync adds symbols and removes none.                             *)
SyncAddsOnly(w) ==
    /\ stage[w] = "apply"
    /\ running' = [running EXCEPT ![w] = @ \cup loaded[w]]
    /\ loaded' = [loaded EXCEPT ![w] = {}]
    /\ Goto(w, "idle")
    /\ UNCHANGED <<table, list, request, untouched, changes, faults>>
(* Start a goroutine for every symbol that has none, cancel those that are *)
(* not on the list.                                                        *)
Sync(w) ==
    /\ stage[w] = "apply"
    /\ running' = [running EXCEPT ![w] = loaded[w]]
    /\ loaded' = [loaded EXCEPT ![w] = {}]
    /\ Goto(w, "idle")
    /\ UNCHANGED <<table, list, request, untouched, changes, faults>>

Crash(w) ==
    /\ stage[w] # "down"
    /\ Fault
    /\ Goto(w, "down")
    /\ loaded' = [loaded EXCEPT ![w] = {}]
    /\ running' = [running EXCEPT ![w] = {}]
    /\ UNCHANGED <<table, list, request, untouched, changes>>

(* cacheTTL passes since the list was written.                             *)
Expire ==
    /\ list # Missing
    /\ list' = Missing
    /\ UNCHANGED <<table, manager, request, untouched, changes, faults>>

-----------------------------------------------------------------------------
(* The admin handlers: one statement on the table, then the invalidation.  *)
(* A call that fails after the statement took effect skips the             *)
(* invalidation.                                                           *)
Change(a, s, row) ==
    /\ request[a] = "none"
    /\ changes < MaxAdmin
    /\ changes' = changes + 1
    /\ table' = [table EXCEPT ![s] = row]
    /\ untouched' = untouched \ {s}
    /\ \/ Works /\ request' = [request EXCEPT ![a] = "invalidate"]
       \/ Fault /\ UNCHANGED request
    /\ UNCHANGED <<list, manager>>

AddSymbol(a, s) == Change(a, s, "active")
SetSymbolActive(a, s, active) ==
    table[s] # "absent" /\ Change(a, s, IF active THEN "active" ELSE "inactive")
DeleteSymbol(a, s) == table[s] # "absent" /\ Change(a, s, "absent")

(* InvalidateSymbolList, whose error is ignored.                           *)
Invalidate(a) ==
    /\ request[a] = "invalidate"
    /\ request' = [request EXCEPT ![a] = "none"]
    /\ \/ Works /\ list' = Missing
       \/ Fault /\ UNCHANGED list
    /\ UNCHANGED <<table, manager, untouched, changes>>

-----------------------------------------------------------------------------
ManagerStep(w) ==
    \/ Tick(w)
    \/ GetSymbolList(w)
    \/ ListActive(w)
    \/ SetSymbolList(w)
    \/ Sync(w)

Next ==
    \/ \E w \in Workers : ManagerStep(w) \/ Crash(w)
    \/ Expire
    \/ \E a \in Admins, s \in Symbols :
          \/ AddSymbol(a, s)
          \/ SetSymbolActive(a, s, TRUE) \/ SetSymbolActive(a, s, FALSE)
          \/ DeleteSymbol(a, s)
    \/ \E a \in Admins : Invalidate(a)

Spec == Init /\ [][Next]_vars

(* The ticker keeps firing, a worker is restarted, and a Redis key with a  *)
(* TTL expires. No fairness for the admin handlers: one that dies before   *)
(* it invalidates must not matter in the long run.                         *)
FairSpec ==
    /\ Spec
    /\ \A w \in Workers : WF_vars(ManagerStep(w))
    /\ WF_vars(Expire)

-----------------------------------------------------------------------------
(* Properties.                                                             *)

(* Every variable stays in its type.                                       *)
TypeOK ==
    /\ table \in [Symbols -> {"absent", "active", "inactive"}]
    /\ list \in {Missing} \cup SUBSET Symbols
    /\ stage \in [Workers -> {"down", "idle", "get", "query", "write", "apply"}]
    /\ loaded \in [Workers -> SUBSET Symbols]
    /\ running \in [Workers -> SUBSET Symbols]
    /\ request \in [Admins -> {"none", "invalidate"}]
    /\ untouched \subseteq Symbols
    /\ changes \in 0 .. MaxAdmin
    /\ faults \in 0 .. MaxFaults

(* The consumer of a symbol that was active when the workers started and   *)
(* that no admin has touched is never cancelled: not by a failed query, an *)
(* unreadable, stale or expired list, the fallback to the defaults, or     *)
(* what becomes of other symbols. Only the death of the process ends it.   *)
UntouchedKeepsRunning ==
    [][\A w \in Workers :
          stage'[w] # "down" => running[w] \cap untouched' \subseteq running'[w]]_vars

(* Whatever races and failures there were, once they are over every worker *)
(* ends up with the goroutines the table asks for, and stays there: a      *)
(* stale list that a slow load wrote after the invalidation does not live  *)
(* on by being read and written again.                                     *)
Converges == <>[](\A w \in Workers : running[w] = ActiveOrDefaults)
=============================================================================
