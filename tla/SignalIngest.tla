---------------------------- MODULE SignalIngest ----------------------------
(***************************************************************************)
(* POST /signal: Handler.Receive of internal/signal/handler.go. Requests   *)
(* run concurrently; each one verifies the signature, claims the           *)
(* deduplication key of (ticket, signal type) in Redis, inserts the signal *)
(* into Postgres, overwrites the symbol's latest signal and pushes a job.  *)
(* No transaction spans these steps, so every interleaving of them, and a  *)
(* failure after any of them, is a behaviour of the server.                *)
(*                                                                         *)
(* A row, a latest signal and a queued job are named by the request they   *)
(* come from.                                                              *)
(***************************************************************************)
EXTENDS Integers, FiniteSets, Sequences, SequencesExt

CONSTANTS
    Requests,   \* POSTs that may arrive
    Symbols,
    Keys,       \* (ticket, signal type) pairs
    MaxFaults,  \* bound: failed or unanswered Redis and SQL calls, clients
                \* that hang up, server crashes
    None        \* no request

ASSUME IngestAssumption ==
    /\ MaxFaults \in Nat
    /\ None \notin Requests

VARIABLES
    stage,     \* where each request stands in Receive
    reply,     \* the answer it was given
    symbol,    \* normalised symbol of its signal
    key,       \* its ticket and signal type
    hungUp,    \* r.Context() is cancelled
    dedup,     \* keys present in Redis
    rows,      \* the signals table, in insertion order
    latest,    \* signal:<symbol>:latest
    queue,     \* queue:signal:<symbol>; the Head is popped first
    past,      \* requests that were over when a request arrived
    unhurt,    \* requests of which no call has failed
    expired,   \* how often a deduplication key timed out
    faults     \* faults spent

request == <<stage, reply, symbol, key, hungUp>>
data == <<dedup, rows, latest, queue>>
vars == <<request, data, past, unhurt, expired, faults>>

Over == {r \in Requests : stage[r] = "over"}

Init ==
    /\ stage = [r \in Requests |-> "absent"]
    /\ reply = [r \in Requests |-> "none"]
    /\ symbol \in [Requests -> Symbols]
    /\ key \in [Requests -> Keys]
    /\ \A q, r \in Requests : key[q] = key[r] => symbol[q] = symbol[r]
    /\ hungUp = [r \in Requests |-> FALSE]
    /\ dedup = {}
    /\ rows = <<>>
    /\ latest = [s \in Symbols |-> None]
    /\ queue = [s \in Symbols |-> <<>>]
    /\ past = [r \in Requests |-> {}]
    /\ unhurt = Requests
    /\ expired = [k \in Keys |-> 0]
    /\ faults = 0

Fault == faults < MaxFaults /\ faults' = faults + 1

(* A call made for request r fails: the request's context is cancelled, or *)
(* Redis or Postgres does not answer.                                      *)
CallFails(r) ==
    /\ IF hungUp[r] THEN UNCHANGED faults ELSE Fault
    /\ unhurt' = unhurt \ {r}
CallWorks(r) == ~hungUp[r] /\ UNCHANGED <<unhurt, faults>>

Goto(r, s) == stage' = [stage EXCEPT ![r] = s] /\ UNCHANGED reply
Answer(r, a) ==
    /\ stage' = [stage EXCEPT ![r] = "over"]
    /\ reply' = [reply EXCEPT ![r] = a]

-----------------------------------------------------------------------------
Arrive(r) ==
    /\ stage[r] = "absent"
    /\ Goto(r, "verify")
    /\ past' = [past EXCEPT ![r] = Over]
    /\ UNCHANGED <<symbol, key, hungUp, data, unhurt, expired, faults>>

(* Headers, JSON, validate and VerifySignalHMACWithTTL.                    *)
Verify(r) ==
    /\ stage[r] = "verify"
    /\ Goto(r, "dedup") \/ Answer(r, "rejected")
    /\ UNCHANGED <<symbol, key, hungUp, data, past, unhurt, expired, faults>>

(* Mutant: a failed dedup check lets the signal through.                   *)
ClaimKeyFailOpen(r) ==
    /\ stage[r] = "dedup"
    /\ \/ /\ CallWorks(r)
          /\ key[r] \notin dedup
          /\ dedup' = dedup \cup {key[r]}
          /\ Goto(r, "insert")
       \/ CallWorks(r) /\ key[r] \in dedup /\ Answer(r, "duplicate") /\ UNCHANGED dedup
       \/ CallFails(r) /\ Goto(r, "insert") /\ UNCHANGED dedup
    /\ UNCHANGED <<symbol, key, hungUp, rows, latest, queue, past, expired>>
(* Mutant: the key is that of the signal type alone, of any ticket.        *)
ClaimKeyAnyTicket(r) ==
    /\ stage[r] = "dedup"
    /\ CallWorks(r)
    /\ IF dedup = {} THEN Goto(r, "insert") ELSE Answer(r, "duplicate")
    /\ dedup' = dedup \cup {key[r]}
    /\ UNCHANGED <<symbol, key, hungUp, rows, latest, queue, past, expired>>
(* SETNX. isNew is false when the key exists and also when the call fails, *)
(* with or without having set the key.                                     *)
ClaimKey(r) ==
    /\ stage[r] = "dedup"
    /\ \/ /\ CallWorks(r)
          /\ key[r] \notin dedup
          /\ dedup' = dedup \cup {key[r]}
          /\ Goto(r, "insert")
       \/ /\ CallWorks(r)
          /\ key[r] \in dedup
          /\ Answer(r, "duplicate")
          /\ UNCHANGED dedup
       \/ /\ CallFails(r)
          /\ Answer(r, "duplicate")
          /\ UNCHANGED dedup \/ (~hungUp[r] /\ dedup' = dedup \cup {key[r]})
    /\ UNCHANGED <<symbol, key, hungUp, rows, latest, queue, past, expired>>

(* Mutant: an insert error is logged and the request goes on.              *)
InsertRowOrNot(r) ==
    /\ stage[r] = "insert"
    /\ \/ CallWorks(r) /\ rows' = Append(rows, r)
       \/ CallFails(r) /\ UNCHANGED rows
    /\ Goto(r, "latest")
    /\ UNCHANGED <<symbol, key, hungUp, dedup, latest, queue, past, expired>>
(* InsertSignal. A failed call may have inserted the row.                  *)
InsertRow(r) ==
    /\ stage[r] = "insert"
    /\ \/ CallWorks(r) /\ rows' = Append(rows, r) /\ Goto(r, "latest")
       \/ /\ CallFails(r)
          /\ UNCHANGED rows \/ (~hungUp[r] /\ rows' = Append(rows, r))
          /\ Answer(r, "error")
    /\ UNCHANGED <<symbol, key, hungUp, dedup, latest, queue, past, expired>>

(* Mutant: SETNX, which keeps the first signal for ever.                   *)
SetLatestOnce(r) ==
    /\ stage[r] = "latest"
    /\ \/ CallWorks(r) /\ latest' = [latest EXCEPT ![symbol[r]] = IF @ = None THEN r ELSE @]
       \/ CallFails(r) /\ UNCHANGED latest
    /\ Goto(r, "enqueue")
    /\ UNCHANGED <<symbol, key, hungUp, dedup, rows, queue, past, expired>>
(* Mutant: the symbol is cached in place of the signal.                    *)
SetLatestSymbol(r) ==
    /\ stage[r] = "latest"
    /\ CallWorks(r)
    /\ latest' = [latest EXCEPT ![symbol[r]] = symbol[r]]
    /\ Goto(r, "enqueue")
    /\ UNCHANGED <<symbol, key, hungUp, dedup, rows, queue, past, expired>>
(* SetLatestSignal: an error is logged and the request goes on.            *)
SetLatest(r) ==
    /\ stage[r] = "latest"
    /\ \/ CallWorks(r) /\ latest' = [latest EXCEPT ![symbol[r]] = r]
       \/ CallFails(r) /\ UNCHANGED latest
    /\ Goto(r, "enqueue")
    /\ UNCHANGED <<symbol, key, hungUp, dedup, rows, queue, past, expired>>

(* EnqueueJob: an error is logged and the answer is "accepted" all the     *)
(* same. The Redis client may send the LPUSH a second time.                *)
EnqueueJob(r) ==
    /\ stage[r] = "enqueue"
    /\ \/ CallWorks(r) /\ queue' = [queue EXCEPT ![symbol[r]] = Append(@, r)]
       \/ CallFails(r) /\ UNCHANGED queue
       \/ /\ ~hungUp[r] /\ Fault /\ UNCHANGED unhurt
          /\ queue' = [queue EXCEPT ![symbol[r]] = @ \o <<r, r>>]
    /\ Answer(r, "accepted")
    /\ UNCHANGED <<symbol, key, hungUp, dedup, rows, latest, past, expired>>

-----------------------------------------------------------------------------
(* DeduplicateTTL passes.                                                  *)
Expire(k) ==
    /\ k \in dedup
    /\ dedup' = dedup \ {k}
    /\ expired' = [expired EXCEPT ![k] = @ + 1]
    /\ UNCHANGED <<request, rows, latest, queue, past, unhurt, faults>>

InReceive(r) == stage[r] \notin {"absent", "over"}

HangUp(r) ==
    /\ InReceive(r)
    /\ ~hungUp[r]
    /\ Fault
    /\ hungUp' = [hungUp EXCEPT ![r] = TRUE]
    /\ UNCHANGED <<stage, reply, symbol, key, data, past, unhurt, expired>>

(* The server process dies; Redis and Postgres keep what they have.        *)
Crash ==
    /\ \E r \in Requests : InReceive(r)
    /\ Fault
    /\ stage' = [r \in Requests |-> IF InReceive(r) THEN "over" ELSE stage[r]]
    /\ UNCHANGED <<reply, symbol, key, hungUp, data, past, unhurt, expired>>

Step(r) ==
    \/ Verify(r)
    \/ ClaimKey(r)
    \/ InsertRow(r)
    \/ SetLatest(r)
    \/ EnqueueJob(r)

Next ==
    \/ \E r \in Requests : Arrive(r) \/ Step(r) \/ HangUp(r)
    \/ \E k \in Keys : Expire(k)
    \/ Crash

Spec == Init /\ [][Next]_vars

-----------------------------------------------------------------------------
(* Properties.                                                             *)

Stored(r) == r \in Range(rows)

(* Every variable stays in its type.                                       *)
TypeOK ==
    /\ stage \in [Requests ->
          {"absent", "verify", "dedup", "insert", "latest", "enqueue", "over"}]
    /\ reply \in [Requests -> {"none", "rejected", "duplicate", "error", "accepted"}]
    /\ symbol \in [Requests -> Symbols]
    /\ key \in [Requests -> Keys]
    /\ hungUp \in [Requests -> BOOLEAN]
    /\ dedup \subseteq Keys
    /\ rows \in Seq(Requests)
    /\ latest \in [Symbols -> Requests \cup {None}]
    /\ queue \in [Symbols -> Seq(Requests)]
    /\ past \in [Requests -> SUBSET Requests]
    /\ unhurt \subseteq Requests
    /\ expired \in [Keys -> Nat]
    /\ faults \in 0 .. MaxFaults

(* README "Postgres (source of truth)": whatever fails or is cut short,    *)
(* nothing is published that is not stored - the latest signal of a symbol *)
(* and every queued job have a row - and an accepted request has one too.  *)
PublishedIsStored ==
    /\ \A s \in Symbols : latest[s] # None => Stored(latest[s]) /\ symbol[latest[s]] = s
    /\ \A s \in Symbols : \A r \in Range(queue[s]) : Stored(r) /\ symbol[r] = s
    /\ \A r \in Requests : reply[r] = "accepted" => Stored(r)

(* However many copies of a signal race, at most one of them is stored for *)
(* each life of its deduplication key.                                     *)
OneRowPerKey ==
    \A k \in Keys :
        Cardinality({i \in DOMAIN rows : key[rows[i]] = k}) <= 1 + expired[k]

(* A sender that reads "duplicate" takes its signal for stored. Unless a   *)
(* call of this request itself failed, it has an original: another request *)
(* with its key that is stored, is about to be, or was cut short after it  *)
(* had claimed the key - by a failed call or a crash, and then no retry    *)
(* within DeduplicateTTL stores the signal.                                *)
Original(q, r) ==
    /\ q # r /\ key[q] = key[r]
    /\ Stored(q) \/ stage[q] = "insert" \/ q \notin unhurt \/ (q \in Over /\ reply[q] = "none")
DuplicateHasOriginal ==
    \A r \in unhurt : reply[r] = "duplicate" => \E q \in Requests : Original(q, r)

(* Real-time order: a signal that arrived after another one was dealt with *)
(* is not hidden by it. The latest signal is never one that was over when  *)
(* a request accepted without a failed call arrived, and the queue never   *)
(* holds them in the opposite order.                                       *)
Published(r) == reply[r] = "accepted" /\ r \in unhurt
RealTimeOrder ==
    /\ \A r \in Requests : Published(r) =>
          latest[symbol[r]] # None /\ latest[symbol[r]] \notin past[r]
    /\ \A s \in Symbols : \A m, n \in DOMAIN queue[s] :
          m < n => queue[s][n] \notin past[queue[s][m]]
=============================================================================
