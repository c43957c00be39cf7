-------------------------- MODULE MigrationsProofs --------------------------
(***************************************************************************)
(* A process serves on a complete schema only, for any number of           *)
(* processes, files and faults.                                            *)
(***************************************************************************)
EXTENDS Migrations, TLAPS

(* The files before the one a process is at took effect: it passes a file  *)
(* when it has applied it, or when it finds a record, and a record is      *)
(* written by a process that has applied the file.                         *)
RecordedApplied == recorded \subseteq applied
InOrder == \A f \in applied : 1 .. f \subseteq applied
Before(p) == 1 .. at[p] - 1 \subseteq applied
Progress(p) ==
    /\ stage[p] # "down" => Before(p)
    /\ stage[p] \in {"apply", "record"} => at[p] \in Files
    /\ stage[p] = "record" => at[p] \in applied
    /\ stage[p] = "up" => at[p] \notin Files
Inv == TypeOK /\ RecordedApplied /\ InOrder /\ \A p \in Processes : Progress(p)

(* A process moves while the files do not.                                 *)
LEMMA MoveStep ==
    ASSUME Inv, NEW p \in Processes, NEW s \in {"down", "check", "apply", "record", "up"},
           NEW n \in 1 .. NumFiles + 1,
           stage' = [stage EXCEPT ![p] = s], at' = [at EXCEPT ![p] = n],
           s # "down" => 1 .. n - 1 \subseteq applied,
           s \in {"apply", "record"} => n \in Files,
           s = "record" => n \in applied,
           s = "up" => n \notin Files,
           UNCHANGED applied, recorded' \subseteq applied, faults' \in 0 .. MaxFaults
    PROVE  Inv'
<1>1. TypeOK'
  BY DEF Inv, TypeOK
<1>2. ASSUME NEW q \in Processes PROVE Progress(q)'
  <2>1. stage'[q] = (IF q = p THEN s ELSE stage[q]) /\ at'[q] = (IF q = p THEN n ELSE at[q])
    BY DEF Inv, TypeOK
  <2> QED BY <2>1 DEF Inv, Progress, Before
<1> QED BY <1>1, <1>2 DEF Inv, RecordedApplied, InOrder

(* A file takes effect when all those before it have.                      *)
LEMMA ApplyStep ==
    ASSUME Inv, NEW p \in Processes, NEW s \in {"down", "record"}, stage[p] = "apply",
           stage' = [stage EXCEPT ![p] = s], UNCHANGED <<at, recorded>>,
           applied' = applied \cup {at[p]}, faults' \in 0 .. MaxFaults
    PROVE  Inv'
<1>1. at[p] \in Files /\ 1 .. at[p] - 1 \subseteq applied
  BY DEF Inv, Progress, Before
<1>2. TypeOK'
  BY <1>1 DEF Inv, TypeOK
<1>3. InOrder'
  <2>1. 1 .. at[p] \subseteq applied'
    BY <1>1 DEF Files
  <2> QED BY <2>1 DEF Inv, InOrder
<1>4. ASSUME NEW q \in Processes PROVE Progress(q)'
  <2>1. stage'[q] = IF q = p THEN s ELSE stage[q]
    BY DEF Inv, TypeOK
  <2> QED BY <1>1, <2>1 DEF Inv, Progress, Before
<1> QED BY <1>2, <1>3, <1>4 DEF Inv, RecordedApplied

LEMMA FaultTyped ==
    ASSUME Inv, MigrationsAssumption, Fault \/ Works
    PROVE  faults' \in 0 .. MaxFaults
BY DEF Inv, TypeOK, MigrationsAssumption, Fault, Works

(* The next file, once this one took effect.                               *)
LEMMA NextFileStep ==
    ASSUME Inv, MigrationsAssumption, NEW p \in Processes, stage[p] # "down",
           at[p] \in Files, at[p] \in applied, NextFile(p),
           UNCHANGED applied, recorded' \subseteq applied, faults' \in 0 .. MaxFaults
    PROVE  Inv'
<1> DEFINE n == at[p] + 1
<1>1. n \in 1 .. NumFiles + 1 /\ 1 .. n - 1 \subseteq applied
  BY DEF Inv, Progress, Before, Files, MigrationsAssumption
<1>2. stage' = [stage EXCEPT ![p] = "check"] /\ at' = [at EXCEPT ![p] = n]
  BY DEF NextFile, Goto
<1> HIDE DEF n
<1> QED BY <1>1, <1>2, MoveStep

(* A process changes its stage and stays at its file.                      *)
LEMMA GotoStep ==
    ASSUME Inv, MigrationsAssumption, NEW p \in Processes,
           NEW s \in {"down", "apply", "up"}, Goto(p, s), stage[p] # "down" \/ s = "down",
           s = "apply" => at[p] \in Files, s = "up" => at[p] \notin Files,
           UNCHANGED <<at, applied, recorded>>, faults' \in 0 .. MaxFaults
    PROVE  Inv'
<1>1. at' = [at EXCEPT ![p] = at[p]] /\ at[p] \in 1 .. NumFiles + 1
  BY DEF Inv, TypeOK
<1>2. s # "down" => 1 .. at[p] - 1 \subseteq applied
  BY DEF Inv, Progress, Before
<1>3. recorded' \subseteq applied
  BY DEF Inv, RecordedApplied
<1> QED BY <1>1, <1>2, <1>3, MoveStep DEF Goto

LEMMA BootStep ==
    ASSUME Inv, MigrationsAssumption, NEW p \in Processes, Boot(p)
    PROVE  Inv'
<1>1. 1 \in 1 .. NumFiles + 1 /\ 1 .. 1 - 1 = {}
  BY DEF MigrationsAssumption
<1>2. recorded' \subseteq applied /\ faults' \in 0 .. MaxFaults
  BY DEF Boot, Inv, RecordedApplied, TypeOK
<1> QED BY <1>1, <1>2, MoveStep DEF Boot, Goto

LEMMA CheckStep ==
    ASSUME Inv, MigrationsAssumption, NEW p \in Processes, Check(p)
    PROVE  Inv'
<1>1. faults' \in 0 .. MaxFaults
  BY FaultTyped DEF Check
<1>2. CASE at[p] \in recorded /\ NextFile(p)
  BY <1>1, <1>2, NextFileStep DEF Check, Inv, RecordedApplied
<1>3. CASE Goto(p, "apply") /\ UNCHANGED at
  BY <1>1, <1>3, GotoStep DEF Check
<1> QED BY <1>2, <1>3 DEF Check

LEMMA ApplyGood ==
    ASSUME Inv, MigrationsAssumption, NEW p \in Processes, Apply(p)
    PROVE  Inv'
<1>1. faults' \in 0 .. MaxFaults
  BY FaultTyped DEF Apply
<1>2. CASE applied' = applied \cup {at[p]} /\ Goto(p, "record") /\ UNCHANGED at
  BY <1>1, <1>2, ApplyStep DEF Apply, Goto
<1>3. CASE applied' = applied \cup {at[p]} /\ Exit(p)
  BY <1>1, <1>3, ApplyStep DEF Apply, Exit, Goto
<1>4. CASE UNCHANGED applied /\ Exit(p)
  BY <1>1, <1>4, GotoStep DEF Apply, Exit
<1> QED BY <1>2, <1>3, <1>4 DEF Apply

LEMMA RecordStep ==
    ASSUME Inv, MigrationsAssumption, NEW p \in Processes, Record(p)
    PROVE  Inv'
<1>1. at[p] \in Files /\ at[p] \in applied
  BY DEF Record, Inv, Progress
<1>2. recorded' \subseteq applied /\ faults' \in 0 .. MaxFaults
  BY <1>1, FaultTyped DEF Record, Inv, RecordedApplied
<1> QED BY <1>1, <1>2, NextFileStep DEF Record

-----------------------------------------------------------------------------
(* Migrate, in any number of processes and with any fault, keeps to the    *)
(* order of the files and records only what took effect.                   *)
THEOREM MigrationsInvariant == Spec => []Inv
<1> USE MigrationsAssumption
<1>1. Init => Inv
  BY DEF Init, Inv, TypeOK, RecordedApplied, InOrder, Progress, MigrationsAssumption
<1>2. Inv /\ [Next]_vars => Inv'
  <2> SUFFICES ASSUME Inv, [Next]_vars PROVE Inv'
    OBVIOUS
  <2>1. ASSUME NEW p \in Processes, Boot(p) PROVE Inv'
    BY <2>1, BootStep
  <2>2. ASSUME NEW p \in Processes, Check(p) PROVE Inv'
    BY <2>2, CheckStep
  <2>3. ASSUME NEW p \in Processes, Apply(p) PROVE Inv'
    BY <2>3, ApplyGood
  <2>4. ASSUME NEW p \in Processes, Record(p) PROVE Inv'
    BY <2>4, RecordStep
  <2>5. ASSUME NEW p \in Processes, Serve(p) PROVE Inv'
    BY <2>5, GotoStep DEF Serve, Inv, TypeOK
  <2>6. ASSUME NEW p \in Processes, Die(p) PROVE Inv'
    BY <2>6, FaultTyped, GotoStep DEF Die, Exit
  <2>7. CASE UNCHANGED vars
    BY <2>7 DEF vars, Inv, TypeOK, RecordedApplied, InOrder, Progress, Before
  <2> QED BY <2>1, <2>2, <2>3, <2>4, <2>5, <2>6, <2>7 DEF Next, Step
<1> QED BY <1>1, <1>2, PTL DEF Spec

(* However many processes run Migrate at once, and whatever fails between  *)
(* a file and its record, a process that serves has all files applied, and *)
(* they took effect in order.                                              *)
THEOREM ServesMigrated == Spec => []ServedIsMigrated
<1>1. Inv => ServedIsMigrated
  <2> SUFFICES ASSUME Inv, NEW p \in Processes, stage[p] = "up" PROVE applied = Files
    BY DEF ServedIsMigrated, Inv, InOrder
  <2>1. at[p] = NumFiles + 1 /\ Before(p) /\ NumFiles \in Nat
    BY MigrationsAssumption DEF Inv, Progress, TypeOK, Files, MigrationsAssumption
  <2>2. ASSUME NEW f \in Files PROVE f \in applied
    <3>1. f \in 1 .. at[p] - 1
      BY <2>1 DEF Files
    <3> QED BY <2>1, <3>1 DEF Before
  <2> QED BY <2>2 DEF Inv, TypeOK
<1> QED BY <1>1, MigrationsInvariant, PTL
=============================================================================
