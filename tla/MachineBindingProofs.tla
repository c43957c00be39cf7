------------------------ MODULE MachineBindingProofs ------------------------
(***************************************************************************)
(* Who may use an API key: theorems about MachineBinding for any number of *)
(* checks, accounts, admin operations and faults, and for any limits.      *)
(***************************************************************************)
EXTENDS MachineBinding, FiniteSetTheorems, TLAPS

-----------------------------------------------------------------------------
(* The inductive invariants.                                               *)

Stages == {"absent", "any", "cached", "registered", "limit", "exists",
           "count", "insert", "remember", "refuse", "over"}
Verdicts == {"none", "allowed", "denied", "open"}
ByAccount == {"cached", "registered", "limit", "exists", "count", "insert",
              "remember", "refuse"}

(* A check has no verdict before it is over, and "remember" is reached     *)
(* only by way of a row.                                                   *)
Sound(r) ==
    /\ stage[r] = "any" => account[r] = NoAccount
    /\ stage[r] \in ByAccount => account[r] \in Accounts
    /\ stage[r] # "over" => verdict[r] = "none"
    /\ stage[r] = "remember" => account[r] \in ever
    /\ verdict[r] = "allowed" /\ account[r] # NoAccount => account[r] \in ever

RegisteredInv ==
    /\ TypeOK
    /\ machines \subseteq ever
    /\ \A a \in Accounts : cache[a] = "allowed" => a \in ever
    /\ \A r \in Checks : Sound(r)

(* As long as nothing explains an excess: the rows fit, every registration *)
(* has read the limit that holds, and under a limit one check at most is   *)
(* past its COUNT, with room for its row.                                  *)
Registering(r) == stage[r] \in {"exists", "count", "insert"}
Orderly ==
    /\ Fits(limit)
    /\ \A r \in Checks : Registering(r) => seen[r] = limit
    /\ limit # Unlimited =>
          \A r \in Checks : Counted(r) =>
             /\ Cardinality(machines) < limit
             /\ \A q \in Checks : Counted(q) => q = r
LimitInv == IsFiniteSet(machines) /\ (excess \/ Orderly)

-----------------------------------------------------------------------------
(* Steps of a check.                                                       *)

(* A limit is Unlimited or a number.                                       *)
LEMMA LimitNumber ==
    ASSUME TypeOK, limit # Unlimited
    PROVE  limit \in Nat \ {0}
BY BindingAssumption DEF TypeOK

LEMMA RowsNumber ==
    ASSUME IsFiniteSet(machines)
    PROVE  Cardinality(machines) \in Nat
BY FS_CardinalityType

(* A check that goes on, or comes to its verdict.                          *)
Moves(r, s, v) ==
    /\ stage' = [stage EXCEPT ![r] = s]
    /\ UNCHANGED verdict \/ verdict' = [verdict EXCEPT ![r] = v]

LEMMA MovesTyped ==
    ASSUME TypeOK, NEW r \in Checks, NEW s \in Stages, NEW v \in Verdicts, Moves(r, s, v)
    PROVE  /\ stage' \in [Checks -> Stages] /\ verdict' \in [Checks -> Verdicts]
           /\ stage'[r] = s
           /\ \A q \in Checks \ {r} : stage'[q] = stage[q] /\ verdict'[q] = verdict[q]
BY DEF TypeOK, Stages, Verdicts, Moves

(* Whoever had a row has had one; a check other than r keeps what is said  *)
(* of it.                                                                  *)
LEMMA OthersSound ==
    ASSUME NEW q \in Checks, Sound(q), ever \subseteq ever',
           stage'[q] = stage[q], verdict'[q] = verdict[q], account'[q] = account[q]
    PROVE  Sound(q)'
BY DEF Sound

(* A step of r that changes nothing but its place, its verdict, what it    *)
(* has read and excess.                                                    *)
LEMMA MovesRegistered ==
    ASSUME RegisteredInv, NEW r \in Checks, NEW s \in Stages, NEW v \in Verdicts,
           Moves(r, s, v), stage[r] # "over",
           s = "over" => verdict' = [verdict EXCEPT ![r] = v],
           s # "over" => UNCHANGED verdict,
           s \in ByAccount => account[r] \in Accounts, s # "any",
           s = "remember" => account[r] \in ever,
           v = "allowed" /\ account[r] # NoAccount => account[r] \in ever,
           seen' \in [Checks -> Limits \cup {Unlimited}], excess' \in BOOLEAN,
           faults' \in 0 .. MaxFaults,
           UNCHANGED <<account, limit, machines, cache, ever, admin>>
    PROVE  RegisteredInv'
<1>1. /\ stage' \in [Checks -> Stages] /\ verdict' \in [Checks -> Verdicts]
      /\ stage'[r] = s
      /\ \A q \in Checks \ {r} : stage'[q] = stage[q] /\ verdict'[q] = verdict[q]
  BY MovesTyped DEF RegisteredInv
<1>2. TypeOK'
  BY <1>1 DEF RegisteredInv, TypeOK, Stages, Verdicts
<1>3. verdict'[r] = IF s = "over" THEN v ELSE "none"
  BY DEF RegisteredInv, TypeOK, Sound
<1>4. Sound(r)'
  BY <1>1, <1>3 DEF Sound
<1>5. ASSUME NEW q \in Checks PROVE Sound(q)'
  BY <1>1, <1>4, OthersSound DEF RegisteredInv
<1> QED BY <1>2, <1>5 DEF RegisteredInv

(* A fault is one of at most MaxFaults.                                    *)
LEMMA FaultsBounded ==
    ASSUME TypeOK, Works \/ Fault
    PROVE  faults' \in 0 .. MaxFaults
BY BindingAssumption DEF TypeOK, Works, Fault

(* A request that arrives.                                                 *)
LEMMA BeginRegistered ==
    ASSUME RegisteredInv, NEW r \in Checks, NEW a \in Accounts \cup {NoAccount}, Begin(r, a)
    PROVE  RegisteredInv'
<1>1. TypeOK /\ Sound(r) /\ stage[r] = "absent" /\ verdict[r] = "none"
  BY DEF RegisteredInv, Begin, Sound
<1>2. /\ Moves(r, IF a = NoAccount THEN "any" ELSE "cached", "none")
      /\ UNCHANGED <<verdict, seen, limit, machines, cache, ever, excess, admin, faults>>
      /\ account' = [account EXCEPT ![r] = a]
  BY DEF Begin, Goto, Moves
<1>3. /\ stage' \in [Checks -> Stages] /\ verdict' \in [Checks -> Verdicts]
      /\ stage'[r] \in {"any", "cached"} /\ (stage'[r] = "cached" => a # NoAccount)
      /\ \A q \in Checks \ {r} : stage'[q] = stage[q] /\ verdict'[q] = verdict[q]
  BY <1>1, <1>2, MovesTyped DEF Stages, Verdicts
<1>4. TypeOK'
  BY <1>1, <1>2, <1>3 DEF TypeOK, Stages, Verdicts
<1>5. Sound(r)'
  <2>1. account'[r] = a /\ verdict'[r] = "none"
    BY <1>1, <1>2 DEF TypeOK
  <2>2. (stage'[r] = "any" /\ a = NoAccount) \/ (stage'[r] = "cached" /\ a \in Accounts)
    BY <1>1, <1>2 DEF Moves, TypeOK
  <2> QED BY <2>1, <2>2 DEF Sound, ByAccount
<1>6. ASSUME NEW q \in Checks PROVE Sound(q)'
  <2>1. CASE q # r
    <3>1. account'[q] = account[q]
      BY <1>1, <1>2, <2>1 DEF TypeOK
    <3> QED BY <1>2, <1>3, <2>1, <3>1, OthersSound DEF RegisteredInv
  <2> QED BY <1>5, <2>1
<1> QED BY <1>2, <1>4, <1>6 DEF RegisteredInv

(* The queries.                                                            *)
LEMMA QueryRegistered ==
    ASSUME RegisteredInv, NEW r \in Checks,
           \/ NoHeader(r) \/ ReadCache(r) \/ IsRegistered(r)
           \/ GetLimit(r) \/ Exists(r) \/ Count(r)
    PROVE  RegisteredInv'
<1>1. TypeOK /\ Sound(r) /\ machines \subseteq ever
  BY DEF RegisteredInv
<1>2. /\ faults' \in 0 .. MaxFaults
      /\ UNCHANGED <<account, limit, machines, cache, ever, admin>>
  BY <1>1, FaultsBounded DEF NoHeader, ReadCache, IsRegistered, GetLimit, Exists, Count
<1>3. /\ seen' \in [Checks -> Limits \cup {Unlimited}] /\ excess' \in BOOLEAN
      /\ stage[r] # "over"
  BY <1>1 DEF NoHeader, ReadCache, IsRegistered, GetLimit, Exists, Count, TypeOK
<1>4. ASSUME NEW s \in Stages \ {"any", "over"}, Goto(r, s),
             s \in ByAccount => account[r] \in Accounts,
             s = "remember" => account[r] \in ever
      PROVE  RegisteredInv'
  <2>1. Moves(r, s, "none") /\ UNCHANGED verdict
    BY <1>4 DEF Goto, Moves
  <2> QED BY <1>2, <1>3, <1>4, <2>1, MovesRegistered DEF Verdicts
<1>5. ASSUME NEW v \in Verdicts, Decide(r, v),
             v = "allowed" /\ account[r] # NoAccount => account[r] \in ever
      PROVE  RegisteredInv'
  <2>1. Moves(r, "over", v) /\ verdict' = [verdict EXCEPT ![r] = v]
    BY <1>5 DEF Decide, Moves
  <2> QED BY <1>2, <1>3, <1>5, <2>1, MovesRegistered DEF Stages, ByAccount
<1>6. CASE NoHeader(r)
  <2>1. PICK v \in {"allowed", "denied", "open"} : Decide(r, v)
    BY <1>6 DEF NoHeader
  <2>2. account[r] = NoAccount
    BY <1>1, <1>6 DEF NoHeader, Sound
  <2> QED BY <1>5, <2>1, <2>2 DEF Verdicts
<1>7. CASE ReadCache(r)
  <2>1. stage[r] = "cached" /\ account[r] \in Accounts
    BY <1>1, <1>7 DEF ReadCache, Sound, ByAccount
  <2>2. CASE Goto(r, "registered")
    BY <1>4, <2>1, <2>2 DEF Stages
  <2>3. CASE Decide(r, cache[account[r]]) /\ cache[account[r]] # "missing"
    <3>1. cache[account[r]] \in {"allowed", "denied"}
      BY <1>1, <2>1, <2>3 DEF TypeOK
    <3>2. cache[account[r]] = "allowed" => account[r] \in ever
      BY <2>1 DEF RegisteredInv
    <3> QED BY <1>5, <2>3, <3>1, <3>2 DEF Verdicts
  <2> QED BY <1>7, <2>2, <2>3 DEF ReadCache
<1>8. CASE IsRegistered(r) \/ Exists(r)
  <2>1. account[r] \in Accounts
    BY <1>1, <1>8 DEF IsRegistered, Exists, Sound, ByAccount
  <2>2. CASE Decide(r, "open")
    BY <1>5, <2>2 DEF Verdicts
  <2>3. ASSUME NEW s \in {"remember", "limit", "insert", "count"}, Goto(r, s),
               s = "remember" => account[r] \in machines
        PROVE  RegisteredInv'
    BY <1>1, <1>4, <2>1, <2>3 DEF Stages
  <2> QED BY <1>8, <2>2, <2>3 DEF IsRegistered, Exists
<1>9. CASE GetLimit(r) \/ Count(r)
  <2>1. account[r] \in Accounts
    BY <1>1, <1>9 DEF GetLimit, Count, Sound, ByAccount
  <2>2. \E s \in {"exists", "refuse", "insert"} : Goto(r, s)
    BY <1>9 DEF GetLimit, Count
  <2> QED BY <1>4, <2>1, <2>2 DEF Stages
<1> QED BY <1>6, <1>7, <1>8, <1>9

(* The row, and the verdict that is cached.                                *)
LEMMA InsertRegistered ==
    ASSUME RegisteredInv, NEW r \in Checks, InsertMachine(r)
    PROVE  RegisteredInv'
<1>1. TypeOK /\ Sound(r) /\ stage[r] = "insert" /\ account[r] \in Accounts
  BY DEF RegisteredInv, InsertMachine, Sound, ByAccount
<1>2. /\ machines' \subseteq ever' /\ ever \subseteq ever'
      /\ machines' \subseteq Accounts /\ ever' \subseteq Accounts
      /\ UNCHANGED <<account, seen, limit, cache, excess, admin>>
      /\ faults' \in 0 .. MaxFaults
  BY <1>1, FaultsBounded DEF RegisteredInv, InsertMachine, TypeOK
<1>3. \/ /\ Moves(r, "remember", "none") /\ UNCHANGED verdict /\ account[r] \in ever'
      \/ Moves(r, "over", "open") /\ verdict' = [verdict EXCEPT ![r] = "open"]
  BY <1>1 DEF InsertMachine, Goto, Decide, Moves
<1>4. /\ stage' \in [Checks -> Stages] /\ verdict' \in [Checks -> Verdicts]
      /\ \A q \in Checks \ {r} : stage'[q] = stage[q] /\ verdict'[q] = verdict[q]
  BY <1>1, <1>3, MovesTyped DEF Stages, Verdicts
<1>5. TypeOK'
  BY <1>1, <1>2, <1>4 DEF TypeOK, Stages, Verdicts
<1>6. Sound(r)'
  BY <1>1, <1>2, <1>3 DEF Sound, ByAccount, TypeOK, Moves
<1>7. ASSUME NEW q \in Checks PROVE Sound(q)'
  BY <1>2, <1>4, <1>6, OthersSound DEF RegisteredInv
<1> QED BY <1>2, <1>5, <1>7 DEF RegisteredInv

LEMMA CacheRegistered ==
    ASSUME RegisteredInv, NEW r \in Checks, CacheVerdict(r)
    PROVE  RegisteredInv'
<1> DEFINE v == IF stage[r] = "remember" THEN "allowed" ELSE "denied"
<1>1. /\ TypeOK /\ Sound(r) /\ account[r] \in Accounts
      /\ v = "allowed" => account[r] \in ever
  BY DEF RegisteredInv, CacheVerdict, Sound, ByAccount
<1>2. /\ UNCHANGED <<account, seen, limit, machines, ever, excess, admin>>
      /\ faults' \in 0 .. MaxFaults
      /\ cache' \in {cache, [cache EXCEPT ![account[r]] = v]}
      /\ Moves(r, "over", v) /\ verdict' = [verdict EXCEPT ![r] = v]
  BY <1>1, FaultsBounded DEF CacheVerdict, Decide, Moves
<1>3. v \in {"allowed", "denied"}
  OBVIOUS
<1> HIDE DEF v
<1>4. /\ stage' \in [Checks -> Stages] /\ verdict' \in [Checks -> Verdicts]
      /\ \A q \in Checks \ {r} : stage'[q] = stage[q] /\ verdict'[q] = verdict[q]
      /\ stage'[r] = "over" /\ verdict'[r] = v
  BY <1>1, <1>2, <1>3, MovesTyped DEF Stages, Verdicts, TypeOK
<1>5. /\ cache' \in [Accounts -> {"missing", "allowed", "denied"}]
      /\ \A a \in Accounts : cache'[a] = "allowed" => a \in ever'
  BY <1>1, <1>2, <1>3 DEF RegisteredInv, TypeOK
<1>6. TypeOK'
  BY <1>1, <1>2, <1>4, <1>5 DEF TypeOK, Stages, Verdicts
<1>7. Sound(r)'
  BY <1>1, <1>2, <1>4 DEF Sound, ByAccount
<1>8. ASSUME NEW q \in Checks PROVE Sound(q)'
  BY <1>2, <1>4, <1>7, OthersSound DEF RegisteredInv
<1> QED BY <1>2, <1>5, <1>6, <1>8 DEF RegisteredInv

(* Eviction and the administrators.                                        *)
LEMMA OutsideRegistered ==
    ASSUME RegisteredInv,
           \/ \E a \in Accounts : Forget(a) \/ RemoveMachine(a)
           \/ \E l \in Limits : SetKeyMaxMachines(l)
           \/ UNCHANGED vars
    PROVE  RegisteredInv'
<1>1. TypeOK
  BY DEF RegisteredInv
<1>2. UNCHANGED <<stage, account, seen, verdict, ever, faults>> /\ machines' \subseteq machines
  BY DEF Forget, RemoveMachine, SetKeyMaxMachines, vars, check
<1>3. /\ cache' \in [Accounts -> {"missing", "allowed", "denied"}]
      /\ \A a \in Accounts : cache'[a] = "allowed" => cache[a] = "allowed"
  <2>1. cache' = cache \/ \E a \in Accounts : cache' = [cache EXCEPT ![a] = "missing"]
    BY DEF Forget, RemoveMachine, SetKeyMaxMachines, vars
  <2> QED BY <1>1, <2>1 DEF TypeOK
<1>4. limit' \in Limits /\ excess' \in BOOLEAN /\ admin' \in 0 .. MaxAdmin
  <2>1. limit' \in Limits
    BY <1>1 DEF Forget, RemoveMachine, SetKeyMaxMachines, vars, TypeOK
  <2>2. admin' = admin \/ AdminStep
    BY DEF Forget, RemoveMachine, SetKeyMaxMachines, vars
  <2>3. admin' \in 0 .. MaxAdmin
    BY <1>1, <2>2, BindingAssumption DEF AdminStep, TypeOK
  <2>4. excess' = excess \/ \E l \in Limits : SetKeyMaxMachines(l)
    BY DEF Forget, RemoveMachine, vars
  <2>5. excess' \in BOOLEAN
    BY <1>1, <2>4, Zenon DEF SetKeyMaxMachines, TypeOK
  <2> QED BY <2>1, <2>3, <2>5
<1>5. TypeOK'
  BY <1>1, <1>2, <1>3, <1>4 DEF TypeOK
<1>6. ASSUME NEW q \in Checks PROVE Sound(q)'
  BY <1>2, OthersSound DEF RegisteredInv
<1> QED BY <1>2, <1>3, <1>5, <1>6 DEF RegisteredInv

(* The invariant holds, whatever checks, admins, eviction and failures do. *)
THEOREM BindingInvariant == Spec => []RegisteredInv
<1>1. Init => RegisteredInv
  <2> SUFFICES ASSUME Init PROVE RegisteredInv
    OBVIOUS
  <2>1. /\ stage \in [Checks -> Stages] /\ account \in [Checks -> Accounts \cup {NoAccount}]
        /\ seen \in [Checks -> Limits \cup {Unlimited}] /\ verdict \in [Checks -> Verdicts]
    BY DEF Init, Stages, Verdicts
  <2>2. cache \in [Accounts -> {"missing", "allowed", "denied"}] /\ excess \in BOOLEAN
    BY DEF Init
  <2>3. admin \in 0 .. MaxAdmin /\ faults \in 0 .. MaxFaults
    BY BindingAssumption DEF Init
  <2>4. TypeOK
    BY <2>1, <2>2, <2>3 DEF Init, TypeOK, Stages, Verdicts
  <2>5. \A r \in Checks : Sound(r)
    BY DEF Init, Sound, ByAccount
  <2> QED BY <2>4, <2>5 DEF Init, RegisteredInv
<1>2. RegisteredInv /\ [Next]_vars => RegisteredInv'
  BY BeginRegistered, QueryRegistered, InsertRegistered, CacheRegistered, OutsideRegistered
     DEF Next, Step
<1> QED BY <1>1, <1>2, PTL DEF Spec

(* Every variable keeps its type.                                          *)
THEOREM BindingTyped == Spec => []TypeOK
<1>1. RegisteredInv => TypeOK
  BY DEF RegisteredInv
<1> QED BY <1>1, BindingInvariant, PTL

(* Neither a check without a failed query nor the cache of verdicts lets   *)
(* an account in that was never registered, whichever check filled the     *)
(* cache and whatever was removed meanwhile.                               *)
THEOREM AllowedOnlyRegistered == Spec => []AllowedWasRegistered
<1>1. RegisteredInv => AllowedWasRegistered
  BY DEF RegisteredInv, Sound, AllowedWasRegistered
<1> QED BY <1>1, BindingInvariant, PTL

-----------------------------------------------------------------------------
(* The limit.                                                              *)

(* A step that adds no row, changes no limit, and lets no check come       *)
(* nearer to its row.                                                      *)
LEMMA LimitKept ==
    ASSUME TypeOK, LimitInv, machines' \subseteq machines, UNCHANGED limit,
           excess => excess',
           \A r \in Checks : Registering(r)' => Registering(r) /\ seen'[r] = seen[r],
           \A r \in Checks : Counted(r)' => Counted(r)
    PROVE  LimitInv'
<1>1. IsFiniteSet(machines') /\ Cardinality(machines') <= Cardinality(machines)
  BY FS_Subset DEF LimitInv
<1>2. Cardinality(machines) \in Nat /\ Cardinality(machines') \in Nat
  BY <1>1, FS_CardinalityType DEF LimitInv
<1>3. limit # Unlimited => limit \in Nat
  BY LimitNumber
<1>4. ASSUME Orderly PROVE Orderly'
  <2>1. Fits(limit)'
    BY <1>1, <1>2, <1>3, <1>4 DEF Orderly, Fits
  <2>2. limit # Unlimited /\ Cardinality(machines) < limit => Cardinality(machines') < limit
    BY <1>1, <1>2, <1>3
  <2> QED BY <1>4, <2>1, <2>2 DEF Orderly
<1> QED BY <1>1, <1>4 DEF LimitInv

(* A check that goes on.                                                   *)
LEMMA GoesOn ==
    ASSUME TypeOK, NEW r \in Checks, NEW s, stage' = [stage EXCEPT ![r] = s]
    PROVE  /\ stage'[r] = s
           /\ \A q \in Checks \ {r} : /\ Registering(q)' <=> Registering(q)
                                      /\ Counted(q)' <=> Counted(q)
           /\ Registering(r)' <=> s \in {"exists", "count", "insert"}
           /\ Counted(r)' <=> s = "insert"
BY DEF TypeOK, Registering, Counted

(* What r does outside the registration.                                   *)
LEMMA OutsideLimit ==
    ASSUME TypeOK, LimitInv, NEW r \in Checks, NEW s, s \notin {"exists", "count", "insert"},
           stage' = [stage EXCEPT ![r] = s], UNCHANGED <<seen, limit, machines, excess>>
    PROVE  LimitInv'
<1>1. \A q \in Checks : /\ Registering(q)' => Registering(q) /\ seen'[q] = seen[q]
                        /\ Counted(q)' => Counted(q)
  BY GoesOn
<1> QED BY <1>1, LimitKept

(* GetMaxMachines reads the limit that holds, or explains the excess.      *)
LEMMA GetLimitLimit ==
    ASSUME TypeOK, LimitInv, NEW r \in Checks, GetLimit(r)
    PROVE  LimitInv'
<1>1. /\ stage' = [stage EXCEPT ![r] = "exists"] /\ UNCHANGED <<limit, machines>>
      /\ excess' \/ (seen' = [seen EXCEPT ![r] = limit] /\ excess' = excess)
  BY DEF GetLimit, Goto
<1>2. CASE excess'
  BY <1>1, <1>2 DEF LimitInv
<1>3. CASE ~excess' /\ seen' = [seen EXCEPT ![r] = limit] /\ excess' = excess
  <2>1. Orderly
    BY <1>3 DEF LimitInv
  <2>2. ASSUME NEW q \in Checks, Registering(q)' PROVE seen'[q] = limit
    <3>1. q # r => Registering(q)
      BY <1>1, <2>2, GoesOn
    <3> QED BY <1>3, <2>1, <3>1 DEF Orderly, TypeOK
  <2>3. \A q \in Checks : Counted(q)' => Counted(q)
    BY <1>1, GoesOn
  <2>4. Orderly'
    BY <1>1, <2>1, <2>2, <2>3 DEF Orderly, Fits
  <2> QED BY <1>1, <2>4 DEF LimitInv
<1> QED BY <1>1, <1>2, <1>3

(* Exists goes straight to the INSERT only when it has read no limit.      *)
LEMMA ExistsLimit ==
    ASSUME TypeOK, LimitInv, NEW r \in Checks, Exists(r)
    PROVE  LimitInv'
<1>1. /\ Registering(r) /\ UNCHANGED <<seen, limit, machines, excess>>
      /\ \/ \E s \in {"remember", "count", "over"} : stage' = [stage EXCEPT ![r] = s]
         \/ seen[r] = Unlimited /\ stage' = [stage EXCEPT ![r] = "insert"]
  BY DEF Exists, Goto, Decide, Registering
<1>2. \A q \in Checks : Registering(q)' => Registering(q)
  BY <1>1, GoesOn
<1>3. CASE \E s \in {"remember", "count", "over"} : stage' = [stage EXCEPT ![r] = s]
  <2>1. \A q \in Checks : Counted(q)' => Counted(q)
    BY <1>3, GoesOn
  <2> QED BY <1>1, <1>2, <2>1, LimitKept
<1>4. CASE seen[r] = Unlimited
  <2>1. ASSUME ~excess PROVE Orderly'
    <3>1. Orderly /\ limit = Unlimited
      BY <1>1, <1>4, <2>1 DEF LimitInv, Orderly
    <3> QED BY <1>1, <1>2, <3>1 DEF Orderly, Fits
  <2> QED BY <1>1, <2>1 DEF LimitInv
<1> QED BY <1>1, <1>3, <1>4

(* Count lets a check past with room for one row, and alone.               *)
LEMMA CountLimit ==
    ASSUME TypeOK, LimitInv, NEW r \in Checks, Count(r)
    PROVE  LimitInv'
<1>1. Registering(r) /\ UNCHANGED <<seen, limit, machines>>
  BY DEF Count, Registering
<1>2. CASE excess'
  BY <1>1, <1>2 DEF LimitInv
<1>3. CASE ~excess'
  <2>1. /\ ~excess /\ \A q \in Checks : ~Counted(q)
        /\ \/ stage' = [stage EXCEPT ![r] = "refuse"]
           \/ /\ stage' = [stage EXCEPT ![r] = "insert"]
              /\ ~Full(Cardinality(machines), seen[r])
    BY <1>3 DEF Count, Goto
  <2>2. Orderly /\ seen[r] = limit
    BY <1>1, <2>1 DEF LimitInv, Orderly
  <2>3. \A q \in Checks : Registering(q)' => Registering(q)
    BY <1>1, <2>1, GoesOn
  <2>4. \A q \in Checks : Counted(q)' =>
           q = r /\ (limit # Unlimited => Cardinality(machines) < limit)
    <3>1. \A q \in Checks : Counted(q)' =>
             q = r /\ (limit # Unlimited => ~(Cardinality(machines) >= limit))
      BY <2>1, <2>2, GoesOn DEF Full
    <3>2. Cardinality(machines) \in Nat /\ (limit # Unlimited => limit \in Nat)
      BY LimitNumber, RowsNumber DEF LimitInv
    <3> QED BY <3>1, <3>2
  <2>5. Orderly'
    BY <1>1, <2>2, <2>3, <2>4 DEF Orderly, Fits
  <2> QED BY <1>1, <2>5 DEF LimitInv
<1> QED BY <1>2, <1>3

(* The row of a check that is alone past its COUNT fits.                   *)
LEMMA InsertLimit ==
    ASSUME TypeOK, LimitInv, NEW r \in Checks, InsertMachine(r)
    PROVE  LimitInv'
<1>1. /\ Counted(r) /\ UNCHANGED <<seen, limit, excess>>
      /\ machines' \in {machines, machines \cup {account[r]}}
      /\ \E s \in {"remember", "over"} : stage' = [stage EXCEPT ![r] = s]
  BY DEF InsertMachine, Goto, Decide, Counted
<1>2. /\ \A q \in Checks : Registering(q)' => Registering(q)
      /\ \A q \in Checks : Counted(q)' => Counted(q) /\ q # r
  BY <1>1, GoesOn
<1>3. /\ IsFiniteSet(machines') /\ Cardinality(machines) \in Nat
      /\ Cardinality(machines') \in {Cardinality(machines), Cardinality(machines) + 1}
  <2>1. IsFiniteSet(machines) /\ Cardinality(machines) \in Nat
    BY RowsNumber DEF LimitInv
  <2>2. /\ IsFiniteSet(machines \cup {account[r]})
        /\ Cardinality(machines \cup {account[r]})
              \in {Cardinality(machines), Cardinality(machines) + 1}
    BY <2>1, FS_AddElement
  <2> QED BY <1>1, <2>1, <2>2
<1>4. ASSUME ~excess PROVE Orderly'
  <2>1. Orderly
    BY <1>4 DEF LimitInv
  <2>2. limit # Unlimited => Cardinality(machines) < limit /\ \A q \in Checks : Counted(q) => q = r
    BY <1>1, <2>1 DEF Orderly
  <2>3. limit # Unlimited => limit \in Nat /\ Cardinality(machines') <= limit
    BY <1>3, <2>2, LimitNumber
  <2>4. Fits(limit)'
    BY <1>1, <2>3 DEF Fits
  <2> QED BY <1>1, <1>2, <2>1, <2>2, <2>4 DEF Orderly
<1> QED BY <1>1, <1>3, <1>4 DEF LimitInv

(* A limit that is changed during a registration, or below what is used,   *)
(* explains the excess.                                                    *)
LEMMA SetLimitLimit ==
    ASSUME TypeOK, LimitInv, NEW l \in Limits, SetKeyMaxMachines(l)
    PROVE  LimitInv'
<1>1. /\ UNCHANGED <<stage, seen, machines>> /\ limit' = l
      /\ excess \/ ~Fits(l) \/ (\E r \in Checks : Registering(r)) => excess'
  BY DEF SetKeyMaxMachines, check, Registering
<1>2. CASE excess'
  BY <1>1, <1>2 DEF LimitInv
<1>3. CASE ~excess'
  <2>1. Fits(l) /\ \A r \in Checks : ~Registering(r)
    BY <1>1, <1>3
  <2>2. \A r \in Checks : ~Registering(r)' /\ ~Counted(r)'
    BY <1>1, <2>1 DEF Registering, Counted
  <2>3. Orderly'
    BY <1>1, <2>1, <2>2 DEF Orderly, Fits
  <2> QED BY <1>1, <2>3 DEF LimitInv
<1> QED BY <1>2, <1>3

(* Every step keeps it.                                                    *)
LEMMA NextLimit == ASSUME TypeOK, LimitInv, [Next]_vars PROVE LimitInv'
<1>1. ASSUME NEW r \in Checks, NEW a \in Accounts \cup {NoAccount}, Begin(r, a)
      PROVE  LimitInv'
  <2>1. \E s \in {"any", "cached"} : stage' = [stage EXCEPT ![r] = s]
    BY <1>1 DEF Begin, Goto
  <2> QED BY <1>1, <2>1, OutsideLimit DEF Begin
<1>2. ASSUME NEW r \in Checks,
             NoHeader(r) \/ ReadCache(r) \/ IsRegistered(r) \/ CacheVerdict(r)
      PROVE  LimitInv'
  <2>1. \E s \in {"over", "registered", "remember", "limit"} : stage' = [stage EXCEPT ![r] = s]
    BY <1>2 DEF NoHeader, ReadCache, IsRegistered, CacheVerdict, Goto, Decide
  <2>2. UNCHANGED <<seen, limit, machines, excess>>
    BY <1>2 DEF NoHeader, ReadCache, IsRegistered, CacheVerdict
  <2> QED BY <2>1, <2>2, OutsideLimit
<1>3. ASSUME NEW a \in Accounts, Forget(a) \/ RemoveMachine(a) PROVE LimitInv'
  <2>1. UNCHANGED <<stage, seen, limit, excess>> /\ machines' \subseteq machines
    BY <1>3 DEF Forget, RemoveMachine, check
  <2> QED BY <2>1, LimitKept DEF Registering, Counted
<1>4. CASE UNCHANGED vars
  BY <1>4, LimitKept DEF vars, check, Registering, Counted
<1> QED BY <1>1, <1>2, <1>3, <1>4, GetLimitLimit, ExistsLimit, CountLimit, InsertLimit,
           SetLimitLimit DEF Next, Step

(* RegisterMachine keeps the limit, but for what its missing transaction,  *)
(* its ignored errors and a change of the limit explain, for any number of *)
(* checks at once.                                                         *)
THEOREM ExcessHasReason == Spec => []ExcessExplained
<1>1. Init => LimitInv
  <2> SUFFICES ASSUME Init PROVE LimitInv
    OBVIOUS
  <2>1. IsFiniteSet(machines) /\ Cardinality(machines) = 0
    BY FS_EmptySet DEF Init
  <2>2. limit = Unlimited \/ limit \in Nat \ {0}
    BY BindingAssumption DEF Init
  <2>3. \A r \in Checks : ~Registering(r) /\ ~Counted(r)
    BY DEF Init, Registering, Counted
  <2> QED BY <2>1, <2>2, <2>3 DEF LimitInv, Orderly, Fits
<1>2. TypeOK /\ LimitInv /\ [Next]_vars => LimitInv'
  BY NextLimit
<1>3. LimitInv => ExcessExplained
  BY DEF LimitInv, Orderly, ExcessExplained
<1> QED BY <1>1, <1>2, <1>3, BindingTyped, PTL DEF Spec
=============================================================================
