------------------------ MODULE SymbolManagerProofs ------------------------
(***************************************************************************)
(* The consumer of a symbol that nobody has touched is never cancelled,    *)
(* for any number of workers, administrators, symbols and faults.          *)
(***************************************************************************)
EXTENDS SymbolManager, TLAPS

(* Every list of symbols on its way from the table to the goroutines holds *)
(* the untouched ones: it was read while they were active, and they always *)
(* have been.                                                              *)
UntouchedListed ==
    /\ untouched \subseteq Active
    /\ list # Missing => untouched \subseteq list
    /\ \A w \in Workers : stage[w] \in {"write", "apply"} => untouched \subseteq loaded[w]
Inv == TypeOK /\ UntouchedListed

LEMMA FaultTyped ==
    ASSUME Inv, ManagerAssumption, Fault \/ Works
    PROVE  faults' \in 0 .. MaxFaults
BY DEF Inv, TypeOK, ManagerAssumption, Fault, Works

(* The fallback to the defaults applies only when nothing is untouched.    *)
LEMMA QueryListsUntouched ==
    ASSUME Inv, ManagerAssumption
    PROVE  ActiveOrDefaults \subseteq Symbols /\ untouched \subseteq ActiveOrDefaults
BY DEF Inv, UntouchedListed, ActiveOrDefaults, Active, ManagerAssumption

(* A manager goes to stage s with the list l in its hands.                 *)
LEMMA ManagerMoves ==
    ASSUME Inv, NEW w \in Workers, NEW l \in SUBSET Symbols,
           NEW s \in {"down", "idle", "get", "query", "write", "apply"},
           stage' = [stage EXCEPT ![w] = s], loaded' = [loaded EXCEPT ![w] = l],
           s \in {"write", "apply"} => untouched \subseteq l,
           list' \in {Missing} \cup SUBSET Symbols, list' # Missing => untouched \subseteq list',
           running' \in [Workers -> SUBSET Symbols], faults' \in 0 .. MaxFaults,
           UNCHANGED <<table, request, untouched, changes>>
    PROVE  Inv'
<1>1. TypeOK'
  BY DEF Inv, TypeOK
<1>2. ASSUME NEW v \in Workers, stage'[v] \in {"write", "apply"}
      PROVE  untouched \subseteq loaded'[v]
  BY <1>2 DEF Inv, TypeOK, UntouchedListed
<1>3. UntouchedListed'
  BY <1>2 DEF Inv, UntouchedListed, Active
<1> QED BY <1>1, <1>3 DEF Inv

LEMMA ManagerStepGood ==
    ASSUME Inv, ManagerAssumption, NEW w \in Workers, ManagerStep(w) \/ Crash(w)
    PROVE  Inv'
<1> USE DEF Goto
<1>1. /\ loaded = [loaded EXCEPT ![w] = loaded[w]] /\ loaded[w] \in SUBSET Symbols
      /\ list \in {Missing} \cup SUBSET Symbols /\ (list # Missing => untouched \subseteq list)
      /\ running \in [Workers -> SUBSET Symbols] /\ faults \in 0 .. MaxFaults
  BY DEF Inv, TypeOK, UntouchedListed
<1>2. CASE Tick(w)
  BY <1>1, <1>2, ManagerMoves DEF Tick
<1>3. CASE GetSymbolList(w)
  <2>1. faults' \in 0 .. MaxFaults
    BY <1>3, FaultTyped DEF GetSymbolList
  <2>2. CASE list # Missing /\ loaded' = [loaded EXCEPT ![w] = list] /\ Goto(w, "apply")
    BY <1>1, <1>3, <2>1, <2>2, ManagerMoves DEF GetSymbolList
  <2>3. CASE Goto(w, "query") /\ UNCHANGED loaded
    BY <1>1, <1>3, <2>1, <2>3, ManagerMoves DEF GetSymbolList
  <2> QED BY <1>3, <2>2, <2>3 DEF GetSymbolList
<1>4. CASE ListActive(w)
  <2>1. faults' \in 0 .. MaxFaults
    BY <1>4, FaultTyped DEF ListActive
  <2> DEFINE l == ActiveOrDefaults
  <2>2. l \in SUBSET Symbols /\ untouched \subseteq l
    BY QueryListsUntouched
  <2>3. CASE loaded' = [loaded EXCEPT ![w] = l] /\ Goto(w, "write")
    <3> HIDE DEF l
    <3> QED BY <1>1, <1>4, <2>1, <2>2, <2>3, ManagerMoves DEF ListActive
  <2>4. CASE UNCHANGED loaded /\ Goto(w, "idle")
    BY <1>1, <1>4, <2>1, <2>4, ManagerMoves DEF ListActive
  <2> QED BY <1>4, <2>3, <2>4 DEF ListActive
<1>5. CASE SetSymbolList(w)
  <2>1. faults' \in 0 .. MaxFaults
    BY <1>5, FaultTyped DEF SetSymbolList
  <2>2. untouched \subseteq loaded[w] /\ list' \in {list, loaded[w]}
    BY <1>5 DEF SetSymbolList, Inv, UntouchedListed
  <2> QED BY <1>1, <1>5, <2>1, <2>2, ManagerMoves DEF SetSymbolList
<1>6. CASE Sync(w)
  <2>1. running' \in [Workers -> SUBSET Symbols]
    BY <1>1, <1>6 DEF Sync
  <2>2. /\ loaded' = [loaded EXCEPT ![w] = {}] /\ stage' = [stage EXCEPT ![w] = "idle"]
        /\ UNCHANGED <<table, list, request, untouched, changes, faults>>
    BY <1>6 DEF Sync
  <2> QED BY <1>1, <2>1, <2>2, ManagerMoves
<1>7. CASE Crash(w)
  <2>1. running' \in [Workers -> SUBSET Symbols] /\ faults' \in 0 .. MaxFaults
    BY <1>1, <1>7, FaultTyped DEF Crash
  <2>2. /\ loaded' = [loaded EXCEPT ![w] = {}] /\ stage' = [stage EXCEPT ![w] = "down"]
        /\ UNCHANGED <<table, list, request, untouched, changes>>
    BY <1>7 DEF Crash
  <2> QED BY <1>1, <2>1, <2>2, ManagerMoves
<1> QED BY <1>2, <1>3, <1>4, <1>5, <1>6, <1>7 DEF ManagerStep

LEMMA ChangeStep ==
    ASSUME Inv, ManagerAssumption, NEW a \in Admins, NEW s \in Symbols,
           NEW r \in {"absent", "active", "inactive"}, Change(a, s, r)
    PROVE  Inv'
<1>1. faults' \in 0 .. MaxFaults
  BY FaultTyped DEF Change
<1>2. /\ request' \in [Admins -> {"none", "invalidate"}]
      /\ changes' \in 0 .. MaxAdmin
      /\ table' \in [Symbols -> {"absent", "active", "inactive"}]
  BY DEF Change, Inv, TypeOK, ManagerAssumption
<1>3. TypeOK'
  BY <1>1, <1>2 DEF Change, Inv, TypeOK, manager
<1>4. untouched' \subseteq Active'
  BY DEF Change, Inv, TypeOK, UntouchedListed, Active
<1>5. UntouchedListed'
  BY <1>4 DEF Change, Inv, UntouchedListed, manager
<1> QED BY <1>3, <1>5 DEF Inv

LEMMA ListGone ==
    ASSUME Inv, ManagerAssumption, (\E a \in Admins : Invalidate(a)) \/ Expire
    PROVE  Inv'
<1>1. faults' \in 0 .. MaxFaults
  BY FaultTyped DEF Invalidate, Expire, Works
<1>2. request' \in [Admins -> {"none", "invalidate"}]
  BY DEF Invalidate, Expire, Inv, TypeOK
<1>3. list' \in {list, Missing} /\ UNCHANGED <<table, manager, untouched, changes>>
  BY DEF Invalidate, Expire
<1>4. TypeOK'
  BY <1>1, <1>2, <1>3 DEF Inv, TypeOK, manager
<1>5. UntouchedListed'
  BY <1>3 DEF Inv, UntouchedListed, Active, manager
<1> QED BY <1>4, <1>5 DEF Inv

-----------------------------------------------------------------------------
(* Whatever the managers, the admin handlers and the cache do at once, no  *)
(* list leaves out an untouched symbol.                                    *)
THEOREM ManagerInvariant == Spec => []Inv
<1> USE ManagerAssumption
<1>1. Init => Inv
  BY DEF Init, Inv, TypeOK, UntouchedListed, Active, ManagerAssumption
<1>2. Inv /\ [Next]_vars => Inv'
  <2> SUFFICES ASSUME Inv, [Next]_vars PROVE Inv'
    OBVIOUS
  <2>1. ASSUME NEW w \in Workers, ManagerStep(w) \/ Crash(w) PROVE Inv'
    BY <2>1, ManagerStepGood
  <2>2. ASSUME NEW a \in Admins, NEW s \in Symbols,
               NEW r \in {"absent", "active", "inactive"}, Change(a, s, r)
        PROVE  Inv'
    BY <2>2, ChangeStep
  <2>3. CASE (\E a \in Admins : Invalidate(a)) \/ Expire
    BY <2>3, ListGone
  <2>4. CASE UNCHANGED vars
    BY <2>4 DEF vars, manager, Inv, TypeOK, UntouchedListed, Active
  <2> QED BY <2>1, <2>2, <2>3, <2>4 DEF Next, AddSymbol, SetSymbolActive, DeleteSymbol
<1> QED BY <1>1, <1>2, PTL DEF Spec

(* sync cancels only what its list leaves out, and so never the consumer   *)
(* of an untouched symbol.                                                 *)
THEOREM UntouchedNotCancelled == Spec => UntouchedKeepsRunning
<1>1. Inv /\ [Next]_vars
      => [\A w \in Workers :
             stage'[w] # "down" => running[w] \cap untouched' \subseteq running'[w]]_vars
  <2> SUFFICES ASSUME Inv, [Next]_vars, NEW w \in Workers, stage'[w] # "down"
               PROVE  running[w] \cap untouched' \subseteq running'[w]
    OBVIOUS
  <2>1. CASE UNCHANGED running
    BY <2>1
  <2>2. ASSUME NEW v \in Workers, Sync(v) PROVE running[w] \cap untouched' \subseteq running'[w]
    <3>1. untouched \subseteq loaded[v] /\ untouched' = untouched
      BY <2>2 DEF Sync, Inv, UntouchedListed
    <3>2. running'[w] = IF w = v THEN loaded[v] ELSE running[w]
      BY <2>2 DEF Sync, Inv, TypeOK
    <3> QED BY <3>1, <3>2
  <2>3. ASSUME NEW v \in Workers, Crash(v) PROVE running[w] \cap untouched' \subseteq running'[w]
    <3>1. w # v
      BY <2>3 DEF Crash, Goto, Inv, TypeOK
    <3> QED BY <2>3, <3>1 DEF Crash, Inv, TypeOK
  <2> QED BY <2>1, <2>2, <2>3 DEF Next, ManagerStep, Tick, GetSymbolList, ListActive,
        SetSymbolList, Expire, AddSymbol, SetSymbolActive, DeleteSymbol, Change, Invalidate,
        manager, vars
<1> QED BY <1>1, ManagerInvariant, PTL DEF Spec, UntouchedKeepsRunning
=============================================================================
