---------------------------- MODULE SignalQueue ----------------------------
(***************************************************************************)
(* The job queue between the signal server and the worker processes:       *)
(* internal/queue/consumer.go over the Redis lists of                      *)
(* internal/cache/cache.go.                                                *)
(*                                                                         *)
(* queue:signal:<symbol>      LPUSHed by the server, BRPOPLPUSHed by the   *)
(*                            consumer goroutine of a symbol into          *)
(* processing:signal:<symbol> until AckJob / NackJob / MoveToDeadLetter    *)
(*                            take the job out again.                      *)
(*                                                                         *)
(* A consumer goroutine is identified by its worker process, its symbol    *)
(* and a slot: a goroutine whose context was cancelled may still be        *)
(* finishing a job when the symbol manager starts its successor.           *)
(***************************************************************************)
EXTENDS Integers, FiniteSets, Sequences, SequencesExt

CONSTANTS
    Workers,      \* worker processes (README: several may run)
    Symbols,      \* watched symbols
    Slots,        \* overlapping goroutines of one symbol in one process
    NumHandlers,  \* handlers registered with RegisterHandler, run in order
    MaxJobs,      \* bound: signals enqueued per symbol
    MaxRetries,   \* cfg.MaxRetries of each worker process
    Cleaners,     \* workers that run Consumer.Start; cmd/worker runs none
    RedisFull,    \* may redis_critical (noeviction) reject an LPUSH?
    Resends,      \* may the Redis client carry out a command twice?
    MaxFaults,    \* bound: crashes, cancellations, failed Redis/SQL calls
    NoRaw         \* "raw" of a goroutine that holds no job

ASSUME QueueAssumption ==
    /\ NumHandlers \in Nat \ {0}
    /\ MaxJobs \in Nat
    /\ MaxRetries \in [Workers -> Nat]
    /\ MaxFaults \in Nat
    /\ RedisFull \in BOOLEAN
    /\ Resends \in BOOLEAN
    /\ Cleaners \subseteq Workers

Consumers == Workers \X Symbols \X Slots
Handlers == 1 .. NumHandlers
Jobs == Symbols \X (1 .. MaxJobs)   \* <<symbol, position in enqueue order>>

(* What a list element holds: the JSON object of a job, or - when bytes    *)
(* that are JSON already are marshalled again - a base64 JSON string.      *)
Payload == [job : Jobs, attempts : Nat, form : {"object", "base64"}]

VARIABLES
    queue,       \* queue:signal:<s>; the Head is popped next
    processing,  \* processing:signal:<s>; the Head was pushed last
    deadLetter,  \* what was pushed to queue:dead_letter, which nothing pops
    deadRows,    \* jobs with a row in the dead_letter table
    sent,        \* signals enqueued so far, per symbol
    aged,        \* jobs older than cfg.StaleJobThreshold
    pc,          \* where a consumer goroutine stands
    live,        \* its context is not cancelled
    raw,         \* the payload it dequeued
    at,          \* the handler it runs next
    failed,      \* lastErr # nil
    known,       \* Consumer.symbols of a worker process
    scan,        \* the rest of the snapshot a cleaner walks through
    delivered,   \* deliveries per job and handler, counted up to two
    erred,       \* jobs a handler failed for while its context was live
    dropped,     \* jobs a cleanup removed and could not push back
    faults       \* faults spent

redis == <<queue, processing, deadLetter>>
goroutine == <<pc, live, raw, at, failed>>
history == <<delivered, erred, dropped>>
cleanup == <<aged, known, scan>>
vars == <<redis, deadRows, sent, goroutine, cleanup, history, faults>>

Sym(c) == c[2]
LiveSiblings(c) == {d \in Consumers : d[1] = c[1] /\ d[2] = c[2] /\ live[d]}

Init ==
    /\ queue = [s \in Symbols |-> <<>>]
    /\ processing = [s \in Symbols |-> <<>>]
    /\ deadLetter = {}
    /\ deadRows = {}
    /\ sent = [s \in Symbols |-> 0]
    /\ aged = {}
    /\ pc = [c \in Consumers |-> "off"]
    /\ live = [c \in Consumers |-> FALSE]
    /\ raw = [c \in Consumers |-> NoRaw]
    /\ at = [c \in Consumers |-> 1]
    /\ failed = [c \in Consumers |-> FALSE]
    /\ known = [w \in Workers |-> {}]
    /\ scan = [w \in Workers |-> <<>>]
    /\ delivered = [j \in Jobs |-> [h \in Handlers |-> 0]]
    /\ erred = {}
    /\ dropped = {}
    /\ faults = 0

Fault == faults < MaxFaults /\ faults' = faults + 1
NoFault == UNCHANGED faults

-----------------------------------------------------------------------------
(* Redis commands. The client library sends a command again when the      *)
(* connection breaks before the reply, so LPUSH and LREM may run n = 2     *)
(* times.                                                                  *)

Sends == IF Resends THEN {1, 2} ELSE {1}
Sent(n) == IF n = 1 THEN NoFault ELSE Fault

(* Mutant: RPUSH.                                                          *)
PushedAtHead(list, p, n) == IF n = 1 THEN <<p>> \o list ELSE <<p, p>> \o list
Pushed(list, p, n) == IF n = 1 THEN Append(list, p) ELSE list \o <<p, p>>
Removed(list, p, n) ==
    IF n = 1 THEN RemoveFirst(list, p) ELSE RemoveFirst(RemoveFirst(list, p), p)

LPush(s, p, n) == queue' = [queue EXCEPT ![s] = Pushed(@, p, n)]
LRem(s, p, n) == processing' = [processing EXCEPT ![s] = Removed(@, p, n)]

(* A command of goroutine c is not carried out: its context is cancelled,  *)
(* so the client refuses to send it, or the call fails.                    *)
Refused(c) == IF live[c] THEN Fault ELSE NoFault

AckJob(c) ==
    \/ live[c] /\ \E n \in Sends : LRem(Sym(c), raw[c], n) /\ Sent(n)
    \/ Refused(c) /\ UNCHANGED processing

(* json.Marshal of a Job, and of a []byte.                                 *)
MarshalJob(j, attempts) == [job |-> j, attempts |-> attempts, form |-> "object"]
(* Mutant: EnqueueJob pushes bytes as they are.                            *)
MarshalBytesAsIs(p) == p
MarshalBytes(p) == [p EXCEPT !.form = "base64"]

-----------------------------------------------------------------------------
(* The server: the tail of the signal handler calls EnqueueJob.            *)
Enqueue(s) ==
    /\ sent[s] < MaxJobs
    /\ sent' = [sent EXCEPT ![s] = @ + 1]
    /\ \E n \in Sends : LPush(s, MarshalJob(<<s, sent[s] + 1>>, 0), n) /\ Sent(n)
    /\ UNCHANGED <<processing, deadLetter, deadRows, goroutine, cleanup, history>>

(* StaleJobThreshold passes since the job's EnqueuedAt; only the cleanup   *)
(* looks at it.                                                            *)
Age(j) ==
    /\ Cleaners # {}
    /\ j[2] <= sent[j[1]]
    /\ j \notin aged
    /\ aged' = aged \cup {j}
    /\ UNCHANGED <<redis, deadRows, sent, goroutine, known, scan, history, faults>>

-----------------------------------------------------------------------------
(* The life of a consumer goroutine.                                       *)

Idle(c) ==
    /\ pc' = [pc EXCEPT ![c] = IF live[c] THEN "polling" ELSE "off"]
    /\ raw' = [raw EXCEPT ![c] = NoRaw]
    /\ at' = [at EXCEPT ![c] = 1]
    /\ failed' = [failed EXCEPT ![c] = FALSE]
    /\ UNCHANGED live

(* Mutant: startLocked without AddSymbol.                                  *)
StartUnknown(c) ==
    /\ pc[c] = "off"
    /\ LiveSiblings(c) = {}
    /\ pc' = [pc EXCEPT ![c] = "polling"]
    /\ live' = [live EXCEPT ![c] = TRUE]
    /\ UNCHANGED <<redis, deadRows, sent, raw, at, failed, cleanup, history, faults>>
(* startLocked: at most one registered goroutine per symbol and process.   *)
Start(c) ==
    /\ pc[c] = "off"
    /\ LiveSiblings(c) = {}
    /\ pc' = [pc EXCEPT ![c] = "polling"]
    /\ live' = [live EXCEPT ![c] = TRUE]
    /\ known' = [known EXCEPT ![c[1]] = @ \cup {Sym(c)}]
    /\ UNCHANGED <<redis, deadRows, sent, raw, at, failed, aged, scan, history, faults>>

(* The manager drops the symbol, or the process is told to stop.           *)
Cancel(c) ==
    /\ live[c]
    /\ Fault
    /\ live' = [live EXCEPT ![c] = FALSE]
    /\ UNCHANGED <<redis, deadRows, sent, pc, raw, at, failed, cleanup, history>>

(* <-ctx.Done() at the top of the loop, or ctx.Err() # nil after a         *)
(* dequeue that brought nothing.                                           *)
Return(c) ==
    /\ pc[c] = "polling"
    /\ ~live[c]
    /\ Idle(c)
    /\ UNCHANGED <<redis, deadRows, sent, cleanup, history, faults>>

(* The process dies: goroutines, c.symbols and a snapshot are gone.        *)
Crash(w) ==
    /\ \E c \in Consumers : c[1] = w /\ pc[c] # "off"
    /\ Fault
    /\ pc' = [c \in Consumers |-> IF c[1] = w THEN "off" ELSE pc[c]]
    /\ live' = [c \in Consumers |-> c[1] # w /\ live[c]]
    /\ raw' = [c \in Consumers |-> IF c[1] = w THEN NoRaw ELSE raw[c]]
    /\ at' = [c \in Consumers |-> IF c[1] = w THEN 1 ELSE at[c]]
    /\ failed' = [c \in Consumers |-> c[1] # w /\ failed[c]]
    /\ known' = [known EXCEPT ![w] = {}]
    /\ scan' = [scan EXCEPT ![w] = <<>>]
    /\ UNCHANGED <<redis, deadRows, sent, aged, history>>

(* Mutant: BRPOP, which keeps no copy in the processing list.              *)
DequeueWithoutCopy(c, reply) ==
    /\ pc[c] = "polling"
    /\ queue[Sym(c)] # <<>>
    /\ queue' = [queue EXCEPT ![Sym(c)] = Tail(@)]
    /\ IF reply
       THEN /\ pc' = [pc EXCEPT ![c] = "handling"]
            /\ raw' = [raw EXCEPT ![c] = Head(queue[Sym(c)])]
            /\ NoFault
       ELSE Fault /\ UNCHANGED <<pc, raw>>
    /\ UNCHANGED <<processing, deadLetter, deadRows, sent, live, at, failed, cleanup, history>>
(* BRPOPLPUSH. A goroutine cancelled while it blocks in the call can still *)
(* be handed a job; with reply = FALSE the move happens but the caller     *)
(* sees an error and polls again.                                          *)
Dequeue(c, reply) ==
    /\ pc[c] = "polling"
    /\ queue[Sym(c)] # <<>>
    /\ queue' = [queue EXCEPT ![Sym(c)] = Tail(@)]
    /\ processing' = [processing EXCEPT ![Sym(c)] = <<Head(queue[Sym(c)])>> \o @]
    /\ IF reply
       THEN /\ pc' = [pc EXCEPT ![c] = "handling"]
            /\ raw' = [raw EXCEPT ![c] = Head(queue[Sym(c)])]
            /\ NoFault
       ELSE Fault /\ UNCHANGED <<pc, raw>>
    /\ UNCHANGED <<deadLetter, deadRows, sent, live, at, failed, cleanup, history>>

(* Two seconds without a job: raw is nil and the loop goes on.             *)
PollTimeout(c) ==
    /\ pc[c] = "polling"
    /\ live[c]
    /\ queue[Sym(c)] = <<>>
    /\ UNCHANGED vars

(* Mutant: the payload is put back where it was, to be tried again.        *)
PutBackMalformed(c) ==
    /\ pc[c] = "handling"
    /\ raw[c].form = "base64"
    /\ AckJob(c)
    /\ queue' = [queue EXCEPT ![Sym(c)] = <<raw[c]>> \o @]
    /\ Idle(c)
    /\ UNCHANGED <<deadLetter, deadRows, sent, cleanup, history>>
(* json.Unmarshal fails: the payload is acknowledged unprocessed.          *)
DiscardMalformed(c) ==
    /\ pc[c] = "handling"
    /\ raw[c].form = "base64"
    /\ AckJob(c)
    /\ Idle(c)
    /\ UNCHANGED <<queue, deadLetter, deadRows, sent, cleanup, history>>

-----------------------------------------------------------------------------
(* processJob.                                                             *)

(* Mutant: the handler loop runs one time too many.                        *)
RunningTooFar(c) ==
    pc[c] = "handling" /\ raw[c].form = "object" /\ at[c] <= NumHandlers + 1
Running(c) == pc[c] = "handling" /\ raw[c].form = "object" /\ at[c] <= NumHandlers
(* Mutant: the job is acknowledged before the last handler ran.            *)
DoneTooSoon(c) ==
    pc[c] = "handling" /\ raw[c].form = "object" /\ at[c] >= NumHandlers
HandlersDone(c) == pc[c] = "handling" /\ raw[c].form = "object" /\ at[c] > NumHandlers

Reach(j, h) == delivered' = [delivered EXCEPT ![j][h] = IF @ < 2 THEN @ + 1 ELSE @]

(* A handler that returned nil: its context may have been cancelled after  *)
(* its last message went out.                                              *)
HandlerOk(c) ==
    /\ Running(c)
    /\ Reach(raw[c].job, at[c])
    /\ at' = [at EXCEPT ![c] = @ + 1]
    /\ UNCHANGED <<redis, deadRows, sent, pc, live, raw, failed, cleanup, erred, dropped, faults>>

(* A handler that fails may have reached some of its subscribers.          *)
HandlerError(c) ==
    /\ Running(c)
    /\ at' = [at EXCEPT ![c] = @ + 1]
    /\ failed' = [failed EXCEPT ![c] = TRUE]
    /\ erred' = IF live[c] THEN erred \cup {raw[c].job} ELSE erred
    /\ Reach(raw[c].job, at[c]) \/ UNCHANGED delivered
    /\ UNCHANGED <<redis, deadRows, sent, pc, live, raw, cleanup, dropped, faults>>

AckDelivered(c) ==
    /\ HandlersDone(c)
    /\ ~failed[c]
    /\ AckJob(c)
    /\ Idle(c)
    /\ UNCHANGED <<queue, deadLetter, deadRows, sent, cleanup, history>>

(* job.Attempts++ *)
Attempts(c) == raw[c].attempts + 1

(* The failed job is acknowledged first and pushed again after the         *)
(* backoff: between the two it is in memory only.                          *)
AckForRetry(c) ==
    /\ HandlersDone(c)
    /\ failed[c]
    /\ Attempts(c) < MaxRetries[c[1]]
    /\ AckJob(c)
    /\ pc' = [pc EXCEPT ![c] = "backoff"]
    /\ UNCHANGED <<queue, deadLetter, deadRows, sent, live, raw, at, failed, cleanup, history>>

AbandonRetry(c) ==
    /\ pc[c] = "backoff"
    /\ ~live[c]
    /\ Idle(c)
    /\ UNCHANGED <<redis, deadRows, sent, cleanup, history, faults>>

(* "updated" is marshalled here and again by EnqueueJob.                   *)
Requeue(c) ==
    /\ pc[c] = "backoff"
    /\ live[c]
    /\ \/ \E n \in Sends :
             /\ LPush(Sym(c), MarshalBytes(MarshalJob(raw[c].job, Attempts(c))), n)
             /\ Sent(n)
       \/ Fault /\ UNCHANGED queue
    /\ Idle(c)
    /\ UNCHANGED <<processing, deadLetter, deadRows, sent, cleanup, history>>

(* MoveToDeadLetter, a pipeline without MULTI: both commands, none, or -   *)
(* when Redis is out of memory - only the LREM.                            *)
MoveToDeadLetter(c) ==
    /\ HandlersDone(c)
    /\ failed[c]
    /\ Attempts(c) >= MaxRetries[c[1]]
    /\ \/ /\ live[c]
          /\ \E n \in Sends :
                /\ LRem(Sym(c), raw[c], n)
                /\ deadLetter' = deadLetter \cup {raw[c]}
                /\ Sent(n)
       \/ Refused(c) /\ UNCHANGED <<processing, deadLetter>>
       \/ RedisFull /\ live[c] /\ Fault /\ LRem(Sym(c), raw[c], 1) /\ UNCHANGED deadLetter
    /\ pc' = [pc EXCEPT ![c] = "record"]
    /\ UNCHANGED <<queue, deadRows, sent, live, raw, at, failed, cleanup, history>>

(* Mutant: the dead letter gets no row in Postgres.                        *)
InsertNoDeadLetter(c) ==
    /\ pc[c] = "record"
    /\ Idle(c)
    /\ UNCHANGED <<redis, deadRows, sent, cleanup, history, faults>>
InsertDeadLetter(c) ==
    /\ pc[c] = "record"
    /\ \/ live[c] /\ deadRows' = deadRows \cup {raw[c].job} /\ NoFault
       \/ Refused(c) /\ UNCHANGED deadRows
    /\ Idle(c)
    /\ UNCHANGED <<redis, sent, cleanup, history>>

-----------------------------------------------------------------------------
(* runCleanup and reQueueStale.                                            *)

CleanupScan(w, s) ==
    /\ w \in Cleaners
    /\ s \in known[w]
    /\ scan[w] = <<>>
    /\ processing[s] # <<>>
    /\ scan' = [scan EXCEPT ![w] = processing[s]]
    /\ UNCHANGED <<redis, deadRows, sent, goroutine, aged, known, history, faults>>

SkipFresh(w) ==
    /\ scan[w] # <<>>
    /\ Head(scan[w]).form = "base64" \/ Head(scan[w]).job \notin aged
    /\ scan' = [scan EXCEPT ![w] = Tail(@)]
    /\ UNCHANGED <<redis, deadRows, sent, goroutine, aged, known, history, faults>>

(* Mutant: NackJob pushes without the LREM.                                *)
NackWithoutRemoval(w) ==
    /\ scan[w] # <<>>
    /\ LET p == Head(scan[w])
       IN /\ p.form = "object"
          /\ p.job \in aged
          /\ \E n \in Sends : LPush(p.job[1], p, n) /\ Sent(n)
    /\ scan' = [scan EXCEPT ![w] = Tail(@)]
    /\ UNCHANGED <<processing, deadLetter, deadRows, sent, goroutine, aged, known, history>>
(* NackJob, another pipeline without MULTI. The LPUSH is carried out even  *)
(* when the LREM finds nothing to remove.                                  *)
NackStale(w) ==
    /\ scan[w] # <<>>
    /\ LET p == Head(scan[w])
           s == p.job[1]
       IN /\ p.form = "object"
          /\ p.job \in aged
          /\ \/ \E n \in Sends : LRem(s, p, n) /\ LPush(s, p, n) /\ Sent(n) /\ UNCHANGED dropped
             \/ Fault /\ UNCHANGED <<processing, queue, dropped>>
             \/ /\ RedisFull /\ Fault /\ LRem(s, p, 1) /\ UNCHANGED queue
                /\ dropped' = dropped \cup {p.job}
    /\ scan' = [scan EXCEPT ![w] = Tail(@)]
    /\ UNCHANGED <<deadLetter, deadRows, sent, goroutine, aged, known, delivered, erred>>

-----------------------------------------------------------------------------
(* What a goroutine does outside its handlers.                             *)
QueueStep(c) ==
    \/ Return(c)
    \/ PollTimeout(c)
    \/ Dequeue(c, TRUE)
    \/ DiscardMalformed(c)
    \/ AckDelivered(c)
    \/ AckForRetry(c)
    \/ AbandonRetry(c)
    \/ Requeue(c)
    \/ MoveToDeadLetter(c)
    \/ InsertDeadLetter(c)
ConsumerStep(c) == QueueStep(c) \/ HandlerOk(c) \/ HandlerError(c)

Next ==
    \/ \E s \in Symbols : Enqueue(s)
    \/ \E j \in Jobs : Age(j)
    \/ \E c \in Consumers :
          Start(c) \/ Cancel(c) \/ Dequeue(c, FALSE) \/ ConsumerStep(c)
    \/ \E w \in Workers : Crash(w) \/ SkipFresh(w) \/ NackStale(w)
    \/ \E w \in Workers, s \in Symbols : CleanupScan(w, s)

Spec == Init /\ [][Next]_vars

(* A goroutine keeps running, a worker process is restarted (compose:      *)
(* restart unless-stopped) and starts its symbols again, a symbol stays on *)
(* the watch list, time passes, and the cleanup ticker keeps firing: each  *)
(* tick walks through every symbol, so no symbol is passed over for ever.  *)
FairSpec ==
    /\ Spec
    /\ \A c \in Consumers : WF_vars(ConsumerStep(c))
    /\ \A w \in Workers, s \in Symbols : WF_vars(\E n \in Slots : Start(<<w, s, n>>))
    /\ \A j \in Jobs : WF_vars(Age(j))
    /\ \A w \in Workers : WF_vars(SkipFresh(w) \/ NackStale(w))
    /\ \A w \in Workers, s \in Symbols : SF_vars(CleanupScan(w, s))

-----------------------------------------------------------------------------
(* Properties.                                                             *)

Enqueued(j) == j[2] <= sent[j[1]]
InQueue(j) == \E p \in Range(queue[j[1]]) : p.job = j
InProcessing(j) == \E p \in Range(processing[j[1]]) : p.job = j
FullyDelivered(j) == \A h \in Handlers : delivered[j][h] > 0
DeadLettered(j) ==
    j \in deadRows \/ \E p \in deadLetter : p.job = j

(* Every variable stays in its type, and a goroutine that is past polling  *)
(* holds a payload.                                                        *)
TypeOK ==
    /\ queue \in [Symbols -> Seq(Payload)]
    /\ processing \in [Symbols -> Seq(Payload)]
    /\ deadLetter \subseteq Payload
    /\ deadRows \subseteq Jobs
    /\ sent \in [Symbols -> 0 .. MaxJobs]
    /\ aged \subseteq Jobs
    /\ pc \in [Consumers -> {"off", "polling", "handling", "backoff", "record"}]
    /\ live \in [Consumers -> BOOLEAN]
    /\ raw \in [Consumers -> Payload \cup {NoRaw}]
    /\ at \in [Consumers -> 1 .. NumHandlers + 1]
    /\ failed \in [Consumers -> BOOLEAN]
    /\ known \in [Workers -> SUBSET Symbols]
    /\ scan \in [Workers -> Seq(Payload)]
    /\ delivered \in [Jobs -> [Handlers -> 0 .. 2]]
    /\ erred \subseteq Jobs
    /\ dropped \subseteq Jobs
    /\ faults \in 0 .. MaxFaults
    /\ \A c \in Consumers :
          pc[c] \in {"handling", "backoff", "record"} => raw[c] \in Payload

(* No crash, cancellation, lost reply or failed Redis call makes a job     *)
(* disappear before it is delivered: a job that no handler has failed for  *)
(* is fully delivered or still in one of the two lists of its symbol. This *)
(* is what BRPOPLPUSH and acknowledging after the last handler are for.    *)
(* The exception is a NackJob whose LREM is done and whose LPUSH is        *)
(* refused.                                                                *)
NeverLost ==
    \A j \in Jobs : Enqueued(j) =>
        FullyDelivered(j) \/ j \in erred \/ j \in dropped \/ InQueue(j) \/ InProcessing(j)

(* Where a job stands, as JobLifecycle sees it.                            *)
Life(j) ==
    IF ~Enqueued(j) THEN "unsent"
    ELSE IF FullyDelivered(j) THEN "delivered"
    ELSE IF j \in erred THEN "failed"
    ELSE IF j \in dropped THEN "exposed"
    ELSE IF InQueue(j) \/ InProcessing(j) THEN "kept"
    ELSE "lost"
Lifecycle ==
    INSTANCE JobLifecycle WITH life <- [j \in Jobs |-> Life(j)],
                               Lossy <- RedisFull /\ Cleaners # {}

(* The lists, the acknowledgements and the cleanup together implement the  *)
(* life of a job: it is accepted in order, is delivered or fails once at   *)
(* the end, and is never lost on the way.                                  *)
ImplementsLifecycle == Lifecycle!Spec

(* A failed job that is never set aside for a retry leaves a trace - in a  *)
(* list, among the dead letters, or with the goroutine that holds it - and *)
(* no single failure takes the last one: the process dies between the two  *)
(* writes of a dead letter, Redis is full, Postgres refuses the row, the   *)
(* cleanup cannot push back.                                               *)
Holds(c, j) == raw[c] # NoRaw /\ raw[c].job = j
SetAside(j) == \E c \in Consumers : pc[c] = "backoff" /\ Holds(c, j)
Kept(j) ==
    \/ FullyDelivered(j)
    \/ InQueue(j)
    \/ InProcessing(j)
    \/ DeadLettered(j)
    \/ \E c \in Consumers : pc[c] \in {"handling", "record"} /\ Holds(c, j)
FailedJobKept ==
    \A j \in Jobs : <>SetAside(j) \/ [](Enqueued(j) /\ faults <= 1 => Kept(j))

(* A decodable payload is in one place only, also while the cleanup races  *)
(* with the consumer that still holds the job, so that LREM with count 1   *)
(* removes the job it is meant to remove.                                  *)
Copies(list, j) == {i \in DOMAIN list : list[i].job = j /\ list[i].form = "object"}
SingleCopy ==
    \A j \in Jobs :
        Cardinality(Copies(queue[j[1]], j)) + Cardinality(Copies(processing[j[1]], j)) <= 1

(* Every job that waits is taken in the end, whatever dies in between: a   *)
(* job that keeps failing, cannot be decoded, is lost, or dies with its    *)
(* worker must not hold up the jobs behind it.                             *)
QueueServed == \A j \in Jobs : []<>~InQueue(j)

(* consumer.go 148-149 "periodically re-queues jobs stuck in the           *)
(* processing list. This handles worker crashes mid-delivery.": a job left *)
(* in the processing list does not stay there for ever. (The double-       *)
(* encoded payload of a retry does: reQueueStale skips what it cannot      *)
(* decode.)                                                                *)
OrphansRecovered ==
    \A j \in Jobs :
        Copies(processing[j[1]], j) # {} ~> Copies(processing[j[1]], j) = {}

(* README "Exponential backoff + jitter on failure", "Dead letter queue    *)
(* after max retries": a job a handler failed for is retried until it is   *)
(* fully delivered, or it ends in the dead letters.                        *)
RetriedOrDead ==
    \A j \in Jobs : j \in erred ~> FullyDelivered(j) \/ DeadLettered(j)
=============================================================================
