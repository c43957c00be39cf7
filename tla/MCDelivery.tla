----------------------------- MODULE MCDelivery -----------------------------
(* The Telegram handler has no token; a WhatsApp subscriber, and another   *)
(* one or a receiver EA that polls, whichever is created later.            *)
EXTENDS Delivery
CONSTANTS p1, p2, m1, s1
MCChannelOf == (p1 :> 2) @@ (p2 :> 2) @@ (m1 :> 3)
MCRetries == [w \in Workers |-> 2]
MCFollows == (p1 :> {s1}) @@ (p2 :> {s1}) @@ (m1 :> {s1})
=============================================================================
