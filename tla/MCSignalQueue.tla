--------------------------- MODULE MCSignalQueue ---------------------------
(* MAX_RETRIES is read by each process for itself.                         *)
EXTENDS SignalQueue, TLC
CONSTANTS w1, w2
MCRetries2 == [w \in Workers |-> 2]
(* One process gives a failed job up at once, the other tries it again.    *)
MCRetriesMixed == (w1 :> 1) @@ (w2 :> 2)
=============================================================================
