--------------------------- MODULE ApiKeysProofs ---------------------------
(***************************************************************************)
(* Verdicts on API keys are truthful, for any number of requests, keys,    *)
(* changes and failures.                                                   *)
(***************************************************************************)
EXTENDS ApiKeys, FiniteSetTheorems, TLAPS

RequestRecord ==
    [pc : InFlight \cup Answers \cup {"idle"}, key : Keys \cup {Missing},
     found : Rows, mayAccept : BOOLEAN, mayRefuse : BOOLEAN]

(* What a request has observed covers the row and the clock as they are,   *)
(* the row it has read, and the verdict it is on its way to.               *)
Truthful(q, rows, time) ==
    /\ q.pc \in {"cache", "read", "decide", "store"} => q.key \in Keys
    /\ q.pc \in InFlight /\ q.key # Missing =>
          /\ Usable(rows[q.key], time) => q.mayAccept
          /\ rows[q.key] # NewRow => q.mayRefuse
    /\ q.pc = "decide" =>
          /\ Usable(q.found, time) => q.mayAccept
          /\ q.found # NewRow => q.mayRefuse
    /\ q.pc # "idle" /\ q.key = Missing => q.mayRefuse
    /\ q.pc \in {"store", "accepted"} => q.mayAccept
    /\ q.pc \in {"fail", "refused"} => q.mayRefuse

NeverDecodes == \A k \in Keys : cached[k] # "key"
AllTruthful == \A r \in Requests : Truthful(req[r], row, now)
Inv == TypeOK /\ NeverDecodes /\ AllTruthful

-----------------------------------------------------------------------------
(* Facts about Usable and Observe.                                         *)

(* A row that is usable was usable earlier: rotate_at does not come back.  *)
LEMMA UsableEarlier ==
    ASSUME NEW key \in Rows, NEW t \in Nat, NEW u \in Nat, t <= u, Usable(key, u)
    PROVE  Usable(key, t)
<1>1. key.rotateAt = Never \/ key.rotateAt \in Int
  BY ApiKeysAssumption DEF Rows
<1>2. CASE key.rotateAt = Never
  BY <1>2 DEF Usable, Passed
<1>3. CASE key.rotateAt # Never /\ key.rotateAt \in Int
  <2>1. ~(u > key.rotateAt)
    BY <1>3 DEF Usable, Passed
  <2>2. ~(t > key.rotateAt)
    BY <2>1, <1>3
  <2> QED BY <2>2 DEF Usable, Passed
<1> QED BY <1>1, <1>2, <1>3

(* A new row is always usable.                                             *)
LEMMA NewRowUsable == ASSUME NEW t PROVE Usable(NewRow, t)
BY DEF Usable, Passed, NewRow

(* Observing leaves a request what it is, apart from what it observes, and *)
(* keeps it truthful about later rows.                                     *)
LEMMA ObserveTruthful ==
    ASSUME NEW q \in RequestRecord,
           NEW rows \in [Keys -> Rows], NEW later \in [Keys -> Rows],
           NEW t \in Nat, NEW u \in Nat, t <= u,
           Truthful(q, rows, t)
    PROVE  /\ Observe(q, later, u) \in RequestRecord
           /\ Truthful(Observe(q, later, u), later, u)
<1> DEFINE o == Observe(q, later, u)
<1>1. CASE q.pc \in InFlight /\ q.key # Missing
  <2>1. q.key \in Keys
    BY <1>1 DEF RequestRecord
  <2>2. Usable(later[q.key], u) \in BOOLEAN /\ (later[q.key] # NewRow) \in BOOLEAN
    BY DEF Usable
  <2> DEFINE a == q.mayAccept \/ Usable(later[q.key], u)
             d == q.mayRefuse \/ later[q.key] # NewRow
  <2>3. o = [q EXCEPT !.mayAccept = a, !.mayRefuse = d]
    BY <1>1 DEF Observe
  <2>4. a \in BOOLEAN /\ d \in BOOLEAN
    BY <2>2
  <2> HIDE DEF a, d
  <2>5. /\ o \in RequestRecord
        /\ o.pc = q.pc /\ o.key = q.key /\ o.found = q.found
        /\ o.mayAccept = a /\ o.mayRefuse = d
    BY <2>3, <2>4 DEF RequestRecord
  <2>6. q.pc = "decide" => (Usable(q.found, u) => Usable(q.found, t))
    <3>1. q.found \in Rows
      BY DEF RequestRecord
    <3> QED BY <3>1, UsableEarlier
  <2>7. /\ q.mayAccept => a
        /\ q.mayRefuse => d
        /\ Usable(later[q.key], u) => a
        /\ later[q.key] # NewRow => d
    BY DEF a, d
  <2> HIDE DEF o
  <2>8. Truthful(o, later, u)
    BY <2>5, <2>6, <2>7 DEF Truthful
  <2> QED BY <2>5, <2>8 DEF o
<1>2. CASE ~(q.pc \in InFlight /\ q.key # Missing)
  <2>1. o = q
    BY <1>2 DEF Observe
  <2>2. q.pc # "decide"
    BY <1>2, ApiKeysAssumption DEF Truthful, InFlight
  <2> QED BY <2>1, <2>2, <1>2 DEF Truthful
<1> QED BY <1>1, <1>2

(* Changes of the rows and of the clock keep every request truthful.       *)
LEMMA ObservedTruthful ==
    ASSUME Inv, row' \in [Keys -> Rows], now' \in Nat, now <= now',
           req' = Observed(row', now')
    PROVE  /\ req' \in [Requests -> RequestRecord]
           /\ AllTruthful'
<1>1. \A r \in Requests : req'[r] = Observe(req[r], row', now')
  BY DEF Observed
<1>2. \A r \in Requests : req[r] \in RequestRecord /\ Truthful(req[r], row, now)
  BY DEF Inv, TypeOK, AllTruthful, RequestRecord
<1>3. row \in [Keys -> Rows] /\ now \in Nat
  BY DEF Inv, TypeOK
<1>4. \A r \in Requests : /\ Observe(req[r], row', now') \in RequestRecord
                         /\ Truthful(Observe(req[r], row', now'), row', now')
  BY <1>2, <1>3, ObserveTruthful
<1>5. req' \in [Requests -> RequestRecord]
  BY <1>1, <1>4 DEF Observed
<1>6. AllTruthful'
  BY <1>1, <1>4 DEF AllTruthful
<1> QED BY <1>5, <1>6

(* A step that changes one request and neither rows nor clock keeps every  *)
(* request truthful if that one stays so.                                  *)
LEMMA OneRequestTruthful ==
    ASSUME Inv, NEW r \in Requests, NEW q \in RequestRecord,
           Truthful(q, row, now), UNCHANGED <<row, now>>, req' = [req EXCEPT ![r] = q]
    PROVE  /\ req' \in [Requests -> RequestRecord]
           /\ AllTruthful'
<1>1. req \in [Requests -> RequestRecord]
  BY DEF Inv, TypeOK, RequestRecord
<1>2. req' \in [Requests -> RequestRecord]
  BY <1>1
<1>3. \A p \in Requests : Truthful(req'[p], row, now)
  BY <1>1 DEF Inv, AllTruthful
<1>4. AllTruthful'
  BY <1>3 DEF AllTruthful
<1> QED BY <1>2, <1>4

-----------------------------------------------------------------------------
(* The invariant is inductive.                                             *)

(* A step may use up an event.                                             *)
LEMMA EventsBounded ==
    ASSUME events \in 0 .. MaxEvents, Works \/ Event
    PROVE  events' \in 0 .. MaxEvents
BY ApiKeysAssumption DEF Works, Event

(* The initial states.                                                     *)
LEMMA InitInv == Init => Inv
<1> SUFFICES ASSUME Init PROVE Inv
  OBVIOUS
<1>1. NoRow \in Rows
  BY DEF NoRow, Rows
<1>2. \A r \in Requests : /\ req[r] \in RequestRecord
                         /\ req[r].pc = "idle"
  BY <1>1 DEF Init, RequestRecord
<1>3. TypeOK
  <2>1. req \in [Requests -> RequestRecord]
    BY <1>1 DEF Init, RequestRecord
  <2>2. row \in [Keys -> Rows] /\ cached \in [Keys -> {"none", "string", "key"}]
    BY <1>1 DEF Init
  <2>3. now \in 0 .. MaxTime /\ changes \in 0 .. MaxChanges /\ events \in 0 .. MaxEvents
    BY ApiKeysAssumption DEF Init
  <2>4. stale \subseteq Keys /\ failures \in Nat
    BY DEF Init
  <2> QED BY <2>1, <2>2, <2>3, <2>4 DEF TypeOK, RequestRecord
<1>4. NeverDecodes
  BY DEF Init, NeverDecodes
<1>5. AllTruthful
  BY <1>2 DEF AllTruthful, Truthful, InFlight
<1> QED BY <1>3, <1>4, <1>5 DEF Inv

(* Whatever an administrator does to the table.                            *)
LEMMA RowsInv ==
    ASSUME Inv, Change, row' \in [Keys -> Rows], req' = Observed(row', now),
           stale' \subseteq Keys, UNCHANGED <<now, cached, failures, events>>
    PROVE  Inv'
<1>1. now \in Nat /\ now' = now
  BY ApiKeysAssumption DEF Inv, TypeOK
<1>2. req' \in [Requests -> RequestRecord] /\ AllTruthful'
  BY <1>1, ObservedTruthful
<1>3. changes' \in 0 .. MaxChanges
  BY ApiKeysAssumption DEF Inv, TypeOK, Change
<1>4. TypeOK'
  BY <1>2, <1>3 DEF Inv, TypeOK, RequestRecord
<1>5. NeverDecodes'
  BY DEF Inv, NeverDecodes
<1> QED BY <1>2, <1>4, <1>5 DEF Inv

(* The administrators' actions on the table.                               *)
LEMMA AdminInv ==
    ASSUME Inv, NEW k \in Keys,
           \/ IssueKey(k)
           \/ \E status \in Statuses : SetKeyStatus(k, status)
           \/ \E new \in Keys, after \in {0, 1} : RotateKey(k, new, after)
    PROVE  Inv'
<1>1. /\ row \in [Keys -> Rows] /\ stale \subseteq Keys /\ now \in 0 .. MaxTime
      /\ MaxTime \in Nat
  BY ApiKeysAssumption DEF Inv, TypeOK
<1>2. NewRow \in Rows
  BY DEF NewRow, Rows, Statuses
<1>3. CASE IssueKey(k)
  <2>1. row' \in [Keys -> Rows]
    BY <1>1, <1>2, <1>3 DEF IssueKey
  <2> QED BY <1>1, <1>3, <2>1, RowsInv DEF IssueKey
<1>4. ASSUME NEW status \in Statuses, SetKeyStatus(k, status) PROVE Inv'
  <2>1. [row[k] EXCEPT !.status = status] \in Rows
    BY <1>1 DEF Rows
  <2>2. row' \in [Keys -> Rows]
    BY <1>1, <1>4, <2>1 DEF SetKeyStatus
  <2>3. stale' \subseteq Keys
    BY <1>1, <1>4 DEF SetKeyStatus
  <2> QED BY <1>4, <2>2, <2>3, RowsInv DEF SetKeyStatus
<1>5. ASSUME NEW new \in Keys, NEW after \in {0, 1}, RotateKey(k, new, after) PROVE Inv'
  <2>1. now + after \in 0 .. MaxTime + 1
    BY <1>1
  <2>2. \A q \in Rows : [q EXCEPT !.rotateAt = now + after] \in Rows
    BY <2>1 DEF Rows
  <2>3. row' \in [Keys -> Rows]
    <3> DEFINE inserted == [row EXCEPT ![new] = NewRow]
    <3>1. inserted \in [Keys -> Rows]
      BY <1>1, <1>2
    <3>2. row' = [inserted EXCEPT ![k] = [inserted[k] EXCEPT !.rotateAt = now + after]]
      BY <1>1, <1>5 DEF RotateKey
    <3> HIDE DEF inserted
    <3> QED BY <3>1, <3>2, <2>2
  <2>4. stale' \subseteq Keys
    BY <1>1, <1>5 DEF RotateKey
  <2> QED BY <1>5, <2>3, <2>4, RowsInv DEF RotateKey
<1> QED BY <1>3, <1>4, <1>5

(* Time, deletion and eviction.                                            *)
LEMMA EnvironmentInv ==
    ASSUME Inv,
           \/ Tick
           \/ EvictFailures
           \/ \E k \in Keys : DeleteAPIKeyCache(k) \/ EvictKey(k)
    PROVE  Inv'
<1> USE DEF Inv
<1>1. CASE Tick
  <2>1. now' \in 0 .. MaxTime /\ now' \in Nat /\ now <= now'
    BY <1>1, ApiKeysAssumption DEF TypeOK, Tick
  <2>2. row' = row /\ row \in [Keys -> Rows] /\ req' = Observed(row', now')
    BY <1>1 DEF TypeOK, Tick
  <2>3. req' \in [Requests -> RequestRecord] /\ AllTruthful'
    BY <2>1, <2>2, ObservedTruthful
  <2>4. TypeOK'
    BY <1>1, <2>1, <2>2, <2>3 DEF TypeOK, Tick, RequestRecord
  <2>5. NeverDecodes'
    BY <1>1 DEF NeverDecodes, Tick
  <2> QED BY <2>3, <2>4, <2>5
<1>2. CASE EvictFailures
  BY <1>2 DEF EvictFailures, TypeOK, NeverDecodes, AllTruthful
<1>3. ASSUME NEW k \in Keys, DeleteAPIKeyCache(k) PROVE Inv'
  <2>1. /\ cached' \in [Keys -> {"none", "string", "key"}]
        /\ NeverDecodes' /\ (Works \/ Event)
    BY <1>3 DEF DeleteAPIKeyCache, TypeOK, NeverDecodes
  <2>2. events' \in 0 .. MaxEvents
    BY <2>1, EventsBounded DEF TypeOK
  <2>3. TypeOK' /\ AllTruthful'
    BY <1>3, <2>1, <2>2 DEF DeleteAPIKeyCache, TypeOK, AllTruthful
  <2> QED BY <2>1, <2>3
<1>4. ASSUME NEW k \in Keys, EvictKey(k) PROVE Inv'
  BY <1>4 DEF EvictKey, TypeOK, NeverDecodes, AllTruthful
<1> QED BY <1>1, <1>2, <1>3, <1>4

(* A step of a request that leaves rows and clock alone and the cache      *)
(* undecodable.                                                            *)
LEMMA RequestInv ==
    ASSUME Inv, NEW r \in Requests, NEW q \in RequestRecord, Truthful(q, row, now),
           req' = [req EXCEPT ![r] = q], Works \/ Event,
           cached' \in [Keys -> {"none", "string", "key"}], NeverDecodes', failures' \in Nat,
           UNCHANGED <<row, now, stale, changes>>
    PROVE  Inv'
<1>1. req' \in [Requests -> RequestRecord] /\ AllTruthful'
  BY OneRequestTruthful
<1>2. events' \in 0 .. MaxEvents
  BY EventsBounded DEF Inv, TypeOK
<1>3. TypeOK'
  BY <1>1, <1>2 DEF Inv, TypeOK, RequestRecord
<1> QED BY <1>1, <1>3 DEF Inv

(* A request that goes on to another call.                                 *)
LEMMA GotoInv ==
    ASSUME Inv, NEW r \in Requests, NEW p \in InFlight \cup Answers,
           Goto(r, p), Works \/ Event,
           Truthful([req[r] EXCEPT !.pc = p], row, now),
           cached' \in [Keys -> {"none", "string", "key"}], NeverDecodes', failures' \in Nat,
           UNCHANGED <<row, now, stale, changes>>
    PROVE  Inv'
<1>1. req \in [Requests -> RequestRecord]
  BY DEF Inv, TypeOK, RequestRecord
<1>2. req[r] \in RequestRecord
  BY <1>1
<1>3. [req[r] EXCEPT !.pc = p] \in RequestRecord
  BY <1>2 DEF RequestRecord
<1>4. req' = [req EXCEPT ![r] = [req[r] EXCEPT !.pc = p]]
  BY <1>1 DEF Goto
<1> DEFINE q == [req[r] EXCEPT !.pc = p]
<1>5. q \in RequestRecord /\ Truthful(q, row, now) /\ req' = [req EXCEPT ![r] = q]
  BY <1>3, <1>4
<1> HIDE DEF q
<1> QED BY <1>5, RequestInv

(* The steps of a request.                                                 *)
LEMMA StepInv == ASSUME Inv, NEW r \in Requests, Step(r) PROVE Inv'
<1> DEFINE At(p) == [req[r] EXCEPT !.pc = p]
<1>1. /\ req \in [Requests -> RequestRecord] /\ req[r] \in RequestRecord
      /\ Truthful(req[r], row, now)
  BY DEF Inv, TypeOK, AllTruthful, RequestRecord
<1>2. /\ cached \in [Keys -> {"none", "string", "key"}] /\ NeverDecodes
      /\ failures \in Nat /\ row \in [Keys -> Rows]
  BY DEF Inv, TypeOK
<1>3. \A p : /\ At(p).pc = p /\ At(p).key = req[r].key /\ At(p).found = req[r].found
             /\ At(p).mayAccept = req[r].mayAccept /\ At(p).mayRefuse = req[r].mayRefuse
  BY <1>1 DEF RequestRecord
<1> HIDE DEF At
<1>4. ASSUME UNCHANGED cached PROVE NeverDecodes'
  BY <1>2, <1>4 DEF NeverDecodes
<1>5. req[r].key \in Keys \cup {Missing} /\ Missing \notin Keys
  BY <1>1, ApiKeysAssumption DEF RequestRecord
<1>6. CASE GetAuthFailures(r)
  <2>1. PICK p \in {"blocked", "fail", "cache"} :
           /\ Goto(r, p) /\ (Works \/ Event)
           /\ p = "fail" => req[r].key = Missing
           /\ p = "cache" => req[r].key # Missing
    BY <1>6 DEF GetAuthFailures
  <2>2. req[r].pc = "rate"
    BY <1>6 DEF GetAuthFailures
  <2>3. Truthful(At(p), row, now)
    BY <1>1, <1>3, <1>5, <2>1, <2>2 DEF Truthful, InFlight
  <2> QED BY <1>2, <1>4, <1>6, <2>1, <2>3, GotoInv DEF GetAuthFailures, InFlight, Answers, At
<1>7. CASE GetAPIKeyCache(r)
  <2>1. req[r].pc = "cache" /\ req[r].key \in Keys
    BY <1>1, <1>7 DEF GetAPIKeyCache, Truthful
  <2>2. cached[req[r].key] # "key"
    BY <1>2, <2>1 DEF NeverDecodes
  <2>3. Goto(r, "read") /\ (Works \/ Event)
    BY <1>7, <2>2 DEF GetAPIKeyCache
  <2>4. Truthful(At("read"), row, now)
    BY <1>1, <1>3, <1>5, <2>1 DEF Truthful, InFlight
  <2> QED BY <1>2, <1>4, <1>7, <2>3, <2>4, GotoInv DEF GetAPIKeyCache, InFlight, At
<1>8. CASE GetAPIKeyByHash(r)
  <2>1. req[r].pc = "read" /\ req[r].key \in Keys
    BY <1>1, <1>8 DEF GetAPIKeyByHash, Truthful
  <2>2. CASE Works /\ req' = [req EXCEPT ![r].pc = "decide", ![r].found = row[req[r].key]]
    <3> DEFINE q == [req[r] EXCEPT !.pc = "decide", !.found = row[req[r].key]]
    <3>1. /\ q.pc = "decide" /\ q.key = req[r].key /\ q.found = row[req[r].key]
          /\ q.mayAccept = req[r].mayAccept /\ q.mayRefuse = req[r].mayRefuse
          /\ q \in RequestRecord
      BY <1>1, <1>2, <2>1 DEF RequestRecord, InFlight
    <3>2. req' = [req EXCEPT ![r] = q]
      BY <1>1, <2>2
    <3> HIDE DEF q
    <3>3. Truthful(q, row, now)
      BY <1>1, <1>5, <2>1, <3>1 DEF Truthful, InFlight
    <3> QED BY <1>2, <1>4, <1>8, <2>2, <3>1, <3>2, <3>3, RequestInv DEF GetAPIKeyByHash
  <2>3. CASE Event /\ Goto(r, "error")
    <3>1. Truthful(At("error"), row, now)
      BY <1>1, <1>3, <1>5, <2>1 DEF Truthful, InFlight
    <3> QED BY <1>2, <1>4, <1>8, <2>3, <3>1, GotoInv DEF GetAPIKeyByHash, Answers, At
  <2> QED BY <1>8, <2>2, <2>3 DEF GetAPIKeyByHash
<1>9. CASE Decide(r)
  <2>1. req[r].pc = "decide" /\ Works
    BY <1>9 DEF Decide, Works
  <2>2. CASE Usable(req[r].found, now)
    <3>1. Goto(r, "store")
      BY <1>9, <2>2 DEF Decide
    <3>2. Truthful(At("store"), row, now)
      BY <1>1, <1>3, <1>5, <2>1, <2>2 DEF Truthful, InFlight
    <3> QED BY <1>2, <1>4, <1>9, <2>1, <3>1, <3>2, GotoInv DEF Decide, InFlight, At
  <2>3. CASE ~Usable(req[r].found, now)
    <3>1. Goto(r, "fail")
      BY <1>9, <2>3 DEF Decide
    <3>2. req[r].found # NewRow
      BY <2>3, NewRowUsable
    <3>3. Truthful(At("fail"), row, now)
      BY <1>1, <1>3, <1>5, <2>1, <3>2 DEF Truthful, InFlight
    <3> QED BY <1>2, <1>4, <1>9, <2>1, <3>1, <3>3, GotoInv DEF Decide, InFlight, At
  <2> QED BY <2>2, <2>3
<1>10. CASE SetAPIKeyCache(r)
  <2>1. req[r].pc = "store" /\ Goto(r, "accepted") /\ (Works \/ Event)
    BY <1>10 DEF SetAPIKeyCache
  <2>2. Truthful(At("accepted"), row, now)
    BY <1>1, <1>3, <1>5, <2>1 DEF Truthful, InFlight
  <2>3. cached' \in [Keys -> {"none", "string", "key"}] /\ NeverDecodes'
    BY <1>2, <1>10 DEF SetAPIKeyCache, MarshalBytes, NeverDecodes
  <2> QED BY <1>2, <1>10, <2>1, <2>2, <2>3, GotoInv DEF SetAPIKeyCache, Answers, At
<1>11. CASE RecordFailure(r)
  <2>1. req[r].pc = "fail" /\ Goto(r, "refused") /\ (Works \/ Event)
    BY <1>11 DEF RecordFailure
  <2>2. Truthful(At("refused"), row, now)
    BY <1>1, <1>3, <1>5, <2>1 DEF Truthful, InFlight
  <2>3. failures' \in Nat
    BY <1>2, <1>11 DEF RecordFailure
  <2> QED BY <1>2, <1>4, <1>11, <2>1, <2>2, <2>3, GotoInv DEF RecordFailure, Answers, At
<1> QED BY <1>6, <1>7, <1>8, <1>9, <1>10, <1>11 DEF Step

(* A new request has observed the row as it is when it arrives.            *)
LEMMA ArriveInv ==
    ASSUME Inv, NEW r \in Requests, NEW k \in Keys \cup {Missing}, Arrive(r, k)
    PROVE  Inv'
<1> DEFINE new == [pc |-> "rate", key |-> k, found |-> NoRow,
                   mayAccept |-> FALSE, mayRefuse |-> k = Missing]
           q == Observe(new, row, now)
<1>1. /\ new \in RequestRecord /\ new.pc = "rate" /\ new.key = k
      /\ new.mayRefuse = (k = Missing)
  BY DEF RequestRecord, InFlight, NoRow, Rows
<1>2. req' = [req EXCEPT ![r] = q]
  BY DEF Arrive
<1> HIDE DEF new
<1>3. CASE k = Missing
  <2>1. q = new
    BY <1>1, <1>3 DEF Observe
  <2>2. Truthful(new, row, now)
    BY <1>1, <1>3 DEF Truthful, InFlight
  <2>3. q \in RequestRecord /\ Truthful(q, row, now)
    BY <1>1, <2>1, <2>2
  <2> HIDE DEF q
  <2> QED BY <1>2, <2>3, RequestInv DEF Arrive, Works, Inv, TypeOK, NeverDecodes
<1>4. CASE k # Missing
  <2> DEFINE a == new.mayAccept \/ Usable(row[k], now)
             d == new.mayRefuse \/ row[k] # NewRow
  <2>1. q = [new EXCEPT !.mayAccept = a, !.mayRefuse = d]
    BY <1>1, <1>4 DEF Observe, InFlight
  <2>2. a \in BOOLEAN /\ d \in BOOLEAN
    BY <1>1 DEF RequestRecord
  <2>3. (Usable(row[k], now) => a) /\ (row[k] # NewRow => d)
    OBVIOUS
  <2> HIDE DEF a, d
  <2>4. /\ q \in RequestRecord /\ q.pc = "rate" /\ q.key = k
        /\ q.mayAccept = a /\ q.mayRefuse = d
    BY <1>1, <2>1, <2>2 DEF RequestRecord
  <2> HIDE DEF q
  <2>5. Truthful(q, row, now)
    BY <1>4, <2>3, <2>4 DEF Truthful, InFlight
  <2> QED BY <1>2, <2>4, <2>5, RequestInv DEF Arrive, Works, Inv, TypeOK, NeverDecodes
<1> QED BY <1>3, <1>4

(* Every step keeps the invariant.                                         *)
LEMMA NextInv == Inv /\ [Next]_vars => Inv'
<1> SUFFICES ASSUME Inv, [Next]_vars PROVE Inv'
  OBVIOUS
<1>1. ASSUME NEW k \in Keys,
             \/ IssueKey(k)
             \/ \E status \in Statuses : SetKeyStatus(k, status)
             \/ \E new \in Keys, after \in {0, 1} : RotateKey(k, new, after)
      PROVE  Inv'
  BY <1>1, AdminInv
<1>2. CASE Tick \/ EvictFailures \/ \E k \in Keys : DeleteAPIKeyCache(k) \/ EvictKey(k)
  BY <1>2, EnvironmentInv
<1>3. ASSUME NEW r \in Requests, Step(r) PROVE Inv'
  BY <1>3, StepInv
<1>4. ASSUME NEW r \in Requests, NEW k \in Keys \cup {Missing}, Arrive(r, k) PROVE Inv'
  BY <1>4, ArriveInv
<1>5. CASE UNCHANGED vars
  BY <1>5 DEF vars, Inv, TypeOK, NeverDecodes, AllTruthful
<1> QED BY <1>1, <1>2, <1>3, <1>4, <1>5 DEF Next

(* The state of the API keys is well-typed and every verdict truthful,     *)
(* whatever requests, administrators, the clock and failures do.           *)
THEOREM VerdictsTruthful == Spec => []Inv
BY InitInv, NextInv, PTL DEF Spec

(* APIKeyMiddleware lets nobody in whose key was not usable at some moment *)
(* of the request: suspension, revocation and rotation are immediate.      *)
THEOREM RevocationIsImmediate == Spec => []AcceptedWasUsable
<1>1. Inv => AcceptedWasUsable
  BY DEF Inv, AllTruthful, Truthful, AcceptedWasUsable
<1> QED BY <1>1, VerdictsTruthful, PTL

(* APIKeyMiddleware refuses nobody whose key was active and not being      *)
(* rotated during the whole request.                                       *)
THEOREM GoodKeyNotRefused == Spec => []RefusedForReason
<1>1. Inv => RefusedForReason
  BY DEF Inv, AllTruthful, Truthful, RefusedForReason
<1> QED BY <1>1, VerdictsTruthful, PTL

(* Every variable keeps its type.                                          *)
THEOREM KeysTyped == Spec => []TypeOK
<1>1. Inv => TypeOK
  BY DEF Inv
<1> QED BY <1>1, VerdictsTruthful, PTL

-----------------------------------------------------------------------------
(* How far the counter of failures can overshoot.                          *)

(* The requests that passed the check of the counter and may still be      *)
(* counted.                                                                *)
Underway == {r \in Requests : req[r].pc \in {"cache", "read", "decide", "store", "fail"}}

(* Each of them has its place reserved in the bound.                       *)
Reserved ==
    failures + Cardinality(Underway) <= RateLimitMaxFail - 1 + Cardinality(Requests) + events

(* There are never more of them than requests, and one more or less        *)
(* changes their number by one.                                            *)
LEMMA UnderwayCounted ==
    /\ IsFiniteSet(Underway) /\ Cardinality(Underway) \in Nat
    /\ Cardinality(Requests) \in Nat
    /\ Cardinality(Underway) <= Cardinality(Requests)
<1>1. IsFiniteSet(Requests) /\ Underway \in SUBSET Requests
  BY ApiKeysAssumption DEF Underway
<1> QED BY <1>1, FS_Subset, FS_CardinalityType

LEMMA UnderwaySmaller ==
    ASSUME NEW S \in SUBSET Underway
    PROVE  Cardinality(S) \in Nat /\ Cardinality(S) <= Cardinality(Underway)
BY UnderwayCounted, FS_Subset, FS_CardinalityType

(* A step that lets r pass the check.                                      *)
LEMMA PassingCounted ==
    ASSUME NEW r \in Requests, Underway' = Underway \cup {r}
    PROVE  /\ Cardinality(Underway') <= Cardinality(Underway) + 1
           /\ Cardinality(Underway') <= Cardinality(Requests)
           /\ Cardinality(Underway') \in Nat
<1>1. Underway \cup {r} \in SUBSET Requests /\ IsFiniteSet(Requests)
  BY ApiKeysAssumption DEF Underway
<1>2. Cardinality(Underway \cup {r}) <= Cardinality(Requests)
  BY <1>1, FS_Subset
<1>3. Cardinality(Underway \cup {r}) \in {Cardinality(Underway), Cardinality(Underway) + 1}
  BY UnderwayCounted, FS_AddElement
<1> QED BY <1>2, <1>3, UnderwayCounted

(* A step that counts the failure of r.                                    *)
LEMMA CountingCounted ==
    ASSUME NEW r \in Underway, Underway' = Underway \ {r}
    PROVE  Cardinality(Underway') = Cardinality(Underway) - 1 /\ Cardinality(Underway') \in Nat
<1>1. /\ IsFiniteSet(Underway \ {r})
      /\ Cardinality(Underway \ {r}) = Cardinality(Underway) - 1
  BY UnderwayCounted, FS_RemoveElement
<1> QED BY <1>1, FS_CardinalityType

(* What a change of one pc does to the set.                                *)
LEMMA GotoUnderway ==
    ASSUME TypeOK, NEW r \in Requests, NEW p, Goto(r, p)
    PROVE  /\ p \in {"cache", "read", "decide", "store", "fail"} => Underway' = Underway \cup {r}
           /\ p \notin {"cache", "read", "decide", "store", "fail"} => Underway' = Underway \ {r}
<1>1. req'[r].pc = p /\ \A q \in Requests \ {r} : req'[q] = req[q]
  BY DEF TypeOK, Goto
<1> QED BY <1>1 DEF Underway

(* Observing moves no request.                                             *)
LEMMA ObservedUnderway ==
    ASSUME TypeOK, NEW rows, NEW time, req' = Observed(rows, time)
    PROVE  Underway' = Underway
<1>1. ASSUME NEW q \in Requests PROVE req'[q].pc = req[q].pc
  <2>1. req'[q] = Observe(req[q], rows, time)
    BY DEF Observed
  <2> QED BY <2>1 DEF TypeOK, Observe
<1> QED BY <1>1 DEF Underway

(* Every step keeps the reservation.                                       *)
LEMMA NextReserved == ASSUME TypeOK, Reserved, [Next]_vars PROVE Reserved'
<1> DEFINE n == Cardinality(Underway)
           m == Cardinality(Requests)
<1>1. /\ n \in Nat /\ m \in Nat /\ n <= m /\ failures \in Nat /\ events \in Nat
      /\ RateLimitMaxFail \in Nat \ {0}
      /\ failures + n <= RateLimitMaxFail - 1 + m + events
  BY UnderwayCounted, ApiKeysAssumption DEF Reserved, TypeOK
<1>2. ASSUME UNCHANGED failures, Works \/ Event, Underway' \subseteq Underway PROVE Reserved'
  <2>1. Cardinality(Underway') \in Nat /\ Cardinality(Underway') <= n
    BY <1>2, UnderwaySmaller
  <2>2. events' >= events /\ events' \in Nat
    BY <1>1, <1>2 DEF Works, Event
  <2> QED BY <1>1, <1>2, <2>1, <2>2 DEF Reserved
<1>3. ASSUME NEW r \in Requests, NEW p, Goto(r, p), r \in Underway,
             UNCHANGED failures, Works \/ Event
      PROVE  Reserved'
  BY <1>2, <1>3, GotoUnderway
<1>4. ASSUME NEW k \in Keys,
             \/ IssueKey(k)
             \/ \E status \in Statuses : SetKeyStatus(k, status)
             \/ \E new \in Keys, after \in {0, 1} : RotateKey(k, new, after)
      PROVE  Reserved'
  <2>1. req' = Observed(row', now) /\ UNCHANGED <<failures, events>>
    BY <1>4 DEF IssueKey, SetKeyStatus, RotateKey
  <2> QED BY <1>2, <2>1, ObservedUnderway DEF Works
<1>5. CASE Tick
  <2>1. req' = Observed(row, now') /\ UNCHANGED <<failures, events>>
    BY <1>5 DEF Tick
  <2> QED BY <1>2, <2>1, ObservedUnderway DEF Works
<1>6. ASSUME NEW k \in Keys, DeleteAPIKeyCache(k) \/ EvictKey(k) PROVE Reserved'
  BY <1>2, <1>6 DEF DeleteAPIKeyCache, EvictKey, Underway, Works
<1>7. CASE EvictFailures
  <2>1. failures' = 0 /\ events' = events /\ Underway' = Underway
    BY <1>7 DEF EvictFailures, Underway
  <2> QED BY <1>1, <2>1 DEF Reserved
<1>8. ASSUME NEW r \in Requests, NEW k \in Keys \cup {Missing}, Arrive(r, k) PROVE Reserved'
  <2>1. UNCHANGED <<failures, events>>
    BY <1>8 DEF Arrive
  <2> DEFINE new == [pc |-> "rate", key |-> k, found |-> NoRow,
                     mayAccept |-> FALSE, mayRefuse |-> k = Missing]
             q == Observe(new, row, now)
  <2>2. req' = [req EXCEPT ![r] = q]
    BY <1>8 DEF Arrive
  <2>3. new \in RequestRecord /\ new.pc = "rate"
    BY DEF RequestRecord, InFlight, NoRow, Rows
  <2> HIDE DEF new
  <2>4. q.pc = "rate"
    BY <2>3 DEF Observe, RequestRecord
  <2> HIDE DEF q
  <2>5. Underway' \subseteq Underway
    BY <2>2, <2>4 DEF Underway, TypeOK
  <2> QED BY <1>2, <2>1, <2>5 DEF Works
<1>9. ASSUME NEW r \in Requests, GetAuthFailures(r) PROVE Reserved'
  <2>1. PICK read \in {failures, 0} :
           /\ IF read = failures THEN Works ELSE Event
           /\ Goto(r, IF Blocked(read) THEN "blocked"
                      ELSE IF req[r].key = Missing THEN "fail" ELSE "cache")
    BY <1>9 DEF GetAuthFailures
  <2>2. UNCHANGED failures
    BY <1>9 DEF GetAuthFailures
  <2>3. CASE Blocked(read)
    BY <1>2, <2>1, <2>2, <2>3, GotoUnderway
  <2>4. CASE ~Blocked(read)
    <3>1. Underway' = Underway \cup {r}
      BY <2>1, <2>4, GotoUnderway
    <3>2. /\ Cardinality(Underway') <= n + 1 /\ Cardinality(Underway') <= m
          /\ Cardinality(Underway') \in Nat
      BY <3>1, PassingCounted
    <3>3. CASE read = failures
      BY <1>1, <2>1, <2>2, <2>4, <3>2, <3>3 DEF Blocked, Works, Reserved
    <3>4. CASE read # failures
      BY <1>1, <2>1, <2>2, <3>2, <3>4 DEF Event, Reserved
    <3> QED BY <3>3, <3>4
  <2> QED BY <2>3, <2>4
<1>10. ASSUME NEW r \in Requests, GetAPIKeyCache(r) \/ Decide(r) \/ SetAPIKeyCache(r)
       PROVE  Reserved'
  <2>1. r \in Underway /\ UNCHANGED failures /\ (Works \/ Event) /\ \E p : Goto(r, p)
    BY <1>10 DEF GetAPIKeyCache, Decide, SetAPIKeyCache, Underway, Works
  <2> QED BY <1>3, <2>1
<1>11. ASSUME NEW r \in Requests, GetAPIKeyByHash(r) PROVE Reserved'
  <2>1. r \in Underway /\ UNCHANGED failures /\ (Works \/ Event)
    BY <1>11 DEF GetAPIKeyByHash, Underway
  <2>2. \A q \in Requests \ {r} : req'[q] = req[q]
    BY <1>11 DEF GetAPIKeyByHash, Goto, TypeOK
  <2>3. Underway' \subseteq Underway
    BY <2>1, <2>2 DEF Underway
  <2> QED BY <1>2, <2>1, <2>3
<1>12. ASSUME NEW r \in Requests, RecordFailure(r) PROVE Reserved'
  <2>1. r \in Underway /\ Goto(r, "refused")
    BY <1>12 DEF RecordFailure, Underway
  <2>2. Underway' = Underway \ {r}
    BY <2>1, GotoUnderway
  <2>3. Cardinality(Underway') = n - 1 /\ Cardinality(Underway') \in Nat
    BY <2>1, <2>2, CountingCounted
  <2>4. \/ failures' = failures + 1 /\ events' = events
        \/ failures' \in {failures, failures + 2} /\ events' = events + 1
    BY <1>12 DEF RecordFailure, Works, Event
  <2> QED BY <1>1, <2>3, <2>4 DEF Reserved
<1>13. CASE UNCHANGED vars
  BY <1>2, <1>13 DEF vars, Underway, Works
<1> QED BY <1>4, <1>5, <1>6, <1>7, <1>8, <1>9, <1>10, <1>11, <1>12, <1>13 DEF Next, Step

(* Requests that pass APIKeyMiddleware's check of the counter together are *)
(* all counted, and no more than they: the overshoot is bounded by the     *)
(* number of requests, however many failures, keys and changes.            *)
THEOREM FailuresBounded == Spec => []OvershootBounded
<1>1. Init => Reserved
  <2>1. Init => Underway = {}
    BY DEF Init, Underway
  <2> QED BY <2>1, FS_EmptySet, UnderwayCounted, ApiKeysAssumption DEF Init, Reserved
<1>2. TypeOK /\ Reserved /\ [Next]_vars => Reserved'
  BY NextReserved
<1>3. TypeOK /\ Reserved => OvershootBounded
  BY UnderwayCounted, ApiKeysAssumption DEF Reserved, OvershootBounded, TypeOK
<1> QED BY <1>1, <1>2, <1>3, KeysTyped, PTL DEF Spec

-----------------------------------------------------------------------------
(* Rotation.                                                               *)

(* There is no issued key, or one without rotate_at: whatever a rotation   *)
(* retires, the successor it inserts in the same transaction is one.       *)
SuccessorKept ==
    (\E k \in Keys : row[k] # NoRow)
        => \E k \in Keys : row[k].status \in Statuses /\ row[k].rotateAt = Never

(* A key inserted without rotate_at is one.                                *)
LEMMA NewRowKept ==
    ASSUME NEW k \in Keys, row'[k] = NewRow
    PROVE  SuccessorKept'
BY DEF SuccessorKept, NewRow, Statuses

(* Every step keeps one.                                                   *)
LEMMA NextSuccessor == ASSUME TypeOK, SuccessorKept, [Next]_vars PROVE SuccessorKept'
<1>1. ASSUME UNCHANGED row PROVE SuccessorKept'
  BY <1>1 DEF SuccessorKept
<1>2. ASSUME NEW k \in Keys, IssueKey(k) PROVE SuccessorKept'
  BY <1>2, NewRowKept DEF IssueKey, TypeOK
<1>3. ASSUME NEW k \in Keys, NEW status \in Statuses, SetKeyStatus(k, status)
      PROVE  SuccessorKept'
  <2>1. PICK i \in Keys : row[i].status \in Statuses /\ row[i].rotateAt = Never
    BY <1>3 DEF SetKeyStatus, SuccessorKept
  <2>2. row'[i].status \in Statuses /\ row'[i].rotateAt = Never
    BY <1>3, <2>1 DEF SetKeyStatus, TypeOK, Rows
  <2> QED BY <2>2 DEF SuccessorKept
<1>4. ASSUME NEW k \in Keys, NEW new \in Keys, NEW after \in {0, 1}, RotateKey(k, new, after)
      PROVE  SuccessorKept'
  <2>1. k # new
    BY <1>4 DEF RotateKey
  <2>2. row'[new] = NewRow
    BY <1>4, <2>1 DEF RotateKey, TypeOK
  <2> QED BY <2>2, NewRowKept
<1>5. CASE \/ Tick \/ EvictFailures
           \/ \E k \in Keys : DeleteAPIKeyCache(k) \/ EvictKey(k)
           \/ \E r \in Requests : Step(r) \/ \E k \in Keys \cup {Missing} : Arrive(r, k)
           \/ UNCHANGED vars
  <2>1. UNCHANGED row
    BY <1>5 DEF Tick, EvictFailures, DeleteAPIKeyCache, EvictKey, Step, Arrive, vars,
                GetAuthFailures, GetAPIKeyCache, GetAPIKeyByHash, Decide, SetAPIKeyCache,
                RecordFailure
  <2> QED BY <1>1, <2>1
<1> QED BY <1>2, <1>3, <1>4, <1>5 DEF Next

(* RotateAPIKey never leaves without a usable key: as long as no key is    *)
(* suspended or revoked, some issued key is usable, however many rotations *)
(* and whatever their grace periods.                                       *)
THEOREM RotationKeepsKey == Spec => []UsableKeyRemains
<1>1. Init => SuccessorKept
  BY DEF Init, SuccessorKept
<1>2. TypeOK /\ SuccessorKept /\ [Next]_vars => SuccessorKept'
  BY NextSuccessor
<1>3. SuccessorKept => UsableKeyRemains
  BY DEF SuccessorKept, UsableKeyRemains, Usable, Passed, Statuses
<1> QED BY <1>1, <1>2, <1>3, KeysTyped, PTL DEF Spec
=============================================================================
