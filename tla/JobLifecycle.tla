---------------------------- MODULE JobLifecycle ----------------------------
(***************************************************************************)
(* What the queue promises for each job it has accepted, without lists,    *)
(* goroutines or processes: a job is kept until it was delivered, unless   *)
(* a handler fails for it or a half-done cleanup exposes it. There is no   *)
(* step to "lost".                                                         *)
(***************************************************************************)
EXTENDS Naturals

CONSTANTS
    Symbols,
    MaxJobs,    \* bound: jobs per symbol
    Lossy       \* may a cleanup be cut short by a full Redis?

VARIABLE life

Jobs == Symbols \X (1 .. MaxJobs)
Lives == {"unsent", "kept", "exposed", "failed", "delivered", "lost"}

Init == life = [j \in Jobs |-> "unsent"]

Becomes(j, l) == life' = [life EXCEPT ![j] = l]

(* Jobs of a symbol are accepted in their order.                           *)
Accept(j) ==
    /\ life[j] = "unsent"
    /\ \A n \in 1 .. j[2] - 1 : life[<<j[1], n>>] # "unsent"
    /\ Becomes(j, "kept")

Deliver(j) == life[j] \in {"kept", "exposed", "failed"} /\ Becomes(j, "delivered")
Fail(j) == life[j] \in {"kept", "exposed"} /\ Becomes(j, "failed")
Expose(j) == Lossy /\ life[j] = "kept" /\ Becomes(j, "exposed")

Next == \E j \in Jobs : Accept(j) \/ Deliver(j) \/ Fail(j) \/ Expose(j)

Spec == Init /\ [][Next]_life
=============================================================================
