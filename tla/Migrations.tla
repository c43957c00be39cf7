----------------------------- MODULE Migrations -----------------------------
(***************************************************************************)
(* Store.Migrate of internal/store/store.go, which every server and worker *)
(* process runs before it serves: the files of migrations/ are executed in *)
(* order and recorded in schema_migrations. A file is one multi-statement  *)
(* query and hence atomic; the record is a statement of its own. The files *)
(* hold CREATE INDEX without IF NOT EXISTS, so that executing one a second *)
(* time fails and the process exits, to be started again by compose        *)
(* (restart: unless-stopped).                                              *)
(***************************************************************************)
EXTENDS Integers, FiniteSets

CONSTANTS
    Processes,  \* server and worker processes
    NumFiles,   \* migration files
    MaxFaults   \* bound: process deaths and failed statements

ASSUME MigrationsAssumption ==
    /\ NumFiles \in Nat
    /\ MaxFaults \in Nat

Files == 1 .. NumFiles

VARIABLES
    stage,     \* where a process stands
    at,        \* the file it is at
    applied,   \* files whose statements took effect
    recorded,  \* rows of schema_migrations
    faults     \* faults spent

vars == <<stage, at, applied, recorded, faults>>

Init ==
    /\ stage = [p \in Processes |-> "down"]
    /\ at = [p \in Processes |-> 1]
    /\ applied = {}
    /\ recorded = {}
    /\ faults = 0

Fault == faults < MaxFaults /\ faults' = faults + 1
Works == UNCHANGED faults

Goto(p, s) == stage' = [stage EXCEPT ![p] = s]
NextFile(p) == Goto(p, "check") /\ at' = [at EXCEPT ![p] = @ + 1]
(* An error makes main exit.                                               *)
Exit(p) == Goto(p, "down") /\ UNCHANGED at

-----------------------------------------------------------------------------
(* ReadDir, and CREATE TABLE IF NOT EXISTS schema_migrations.              *)
Boot(p) ==
    /\ stage[p] = "down"
    /\ at' = [at EXCEPT ![p] = 1]
    /\ Goto(p, "check")
    /\ UNCHANGED <<applied, recorded, faults>>

(* Mutant: a SELECT that fails counts as applied.                          *)
CheckFailOpen(p) ==
    /\ stage[p] = "check"
    /\ at[p] \in Files
    /\ \/ at[p] \in recorded /\ Works /\ NextFile(p)
       \/ at[p] \notin recorded /\ Works /\ Goto(p, "apply") /\ UNCHANGED at
       \/ Fault /\ NextFile(p)
    /\ UNCHANGED <<applied, recorded>>
(* Mutant: schema_migrations is not asked.                                 *)
CheckNothing(p) ==
    /\ stage[p] = "check"
    /\ at[p] \in Files
    /\ Goto(p, "apply")
    /\ UNCHANGED <<at, applied, recorded, faults>>
(* The error of the SELECT is not looked at: count stays 0.                *)
Check(p) ==
    /\ stage[p] = "check"
    /\ at[p] \in Files
    /\ \/ at[p] \in recorded /\ Works /\ NextFile(p)
       \/ at[p] \notin recorded /\ Works /\ Goto(p, "apply") /\ UNCHANGED at
       \/ Fault /\ Goto(p, "apply") /\ UNCHANGED at
    /\ UNCHANGED <<applied, recorded>>

(* A call that fails may have taken effect.                                *)
Apply(p) ==
    /\ stage[p] = "apply"
    /\ \/ /\ at[p] \notin applied
          /\ Works
          /\ applied' = applied \cup {at[p]}
          /\ Goto(p, "record")
          /\ UNCHANGED at
       \/ /\ at[p] \in applied
          /\ Works
          /\ Exit(p)
          /\ UNCHANGED applied
       \/ /\ Fault
          /\ applied' \in {applied, applied \cup {at[p]}}
          /\ Exit(p)
    /\ UNCHANGED recorded

(* The error of the INSERT is not looked at.                               *)
Record(p) ==
    /\ stage[p] = "record"
    /\ \/ Works /\ recorded' = recorded \cup {at[p]}
       \/ Fault /\ UNCHANGED recorded
    /\ NextFile(p)
    /\ UNCHANGED applied

(* Migrate returns nil and main goes on.                                   *)
Serve(p) ==
    /\ stage[p] = "check"
    /\ at[p] \notin Files
    /\ Goto(p, "up")
    /\ UNCHANGED <<at, applied, recorded, faults>>

Die(p) ==
    /\ stage[p] # "down"
    /\ Fault
    /\ Exit(p)
    /\ UNCHANGED <<applied, recorded>>

Step(p) ==
    \/ Boot(p)
    \/ Check(p)
    \/ Apply(p)
    \/ Record(p)
    \/ Serve(p)

Next == \E p \in Processes : Step(p) \/ Die(p)

Spec == Init /\ [][Next]_vars

(* A process keeps running and is started again after it exits.            *)
FairSpec == Spec /\ \A p \in Processes : WF_vars(Step(p))

-----------------------------------------------------------------------------
(* Properties.                                                             *)

(* Every variable stays in its type.                                       *)
TypeOK ==
    /\ stage \in [Processes -> {"down", "check", "apply", "record", "up"}]
    /\ at \in [Processes -> 1 .. NumFiles + 1]
    /\ applied \subseteq Files
    /\ recorded \subseteq Files
    /\ faults \in 0 .. MaxFaults

(* However many processes migrate at once, and whatever fails, a process   *)
(* serves only on a complete schema, and the files took effect in order.   *)
ServedIsMigrated ==
    /\ \A p \in Processes : stage[p] = "up" => applied = Files
    /\ \A f \in applied : 1 .. f \subseteq applied

(* Files that took effect and that no process is about to record.          *)
Unrecorded ==
    {f \in applied \ recorded : \A p \in Processes : ~(stage[p] = "record" /\ at[p] = f)}

(* Processes that trip over each other, or die, are started again until    *)
(* all of them serve; the only thing that keeps one down for ever is a     *)
(* file that was applied and not recorded.                                 *)
StartsOrStranded ==
    \/ <>[](\A p \in Processes : stage[p] = "up")
    \/ <>[](Unrecorded # {})
=============================================================================
