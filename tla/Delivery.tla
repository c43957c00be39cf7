------------------------------ MODULE Delivery ------------------------------
(***************************************************************************)
(* What happens inside a handler of processJob: the loop over the          *)
(* subscribers in internal/notify/{telegram,whatsapp,webhook,mt4copier},   *)
(* over the subscribers and delivery_log tables of internal/store, while   *)
(* the administrator edits the subscribers. The module composes this loop  *)
(* with the queue: it takes every action of SignalQueue as it is, and puts *)
(* the steps of a handler in front of HandlerOk and HandlerError.          *)
(***************************************************************************)
EXTENDS SignalQueue

CONSTANTS
    Subs,         \* subscribers that exist or may be created
    ChannelOf,    \* [Subs -> Handlers]: the handler of the channel
    Follows,      \* [Subs -> SUBSET Symbols]: what its config asks for
    Polled,       \* handlers that send nothing (mt4copier): an EA polls
    Unset,        \* handlers that are not configured (no Telegram token)
    InitialSubs,  \* subscribers that are active at the start
    MaxEdits,     \* bound: edits by the administrator
    MaxMishaps,   \* bound: failed requests and queries of the handlers
    NoSub         \* no subscriber

ASSUME DeliveryAssumption ==
    /\ ChannelOf \in [Subs -> Handlers]
    /\ Follows \in [Subs -> SUBSET Symbols]
    /\ InitialSubs \subseteq Subs
    /\ MaxEdits \in Nat
    /\ MaxMishaps \in Nat
    /\ NoSub \notin Subs
    /\ IsFiniteSet(Workers) /\ IsFiniteSet(Symbols)

VARIABLES
    status,    \* subscribers: "none", "active" or "inactive"
    log,       \* delivery_log, in the order of the INSERTs
    phase,     \* where a goroutine stands in a handler
    todo,      \* subscribers it has listed and not come to
    sub,       \* the subscriber it serves
    row,       \* logID: its row, 0 when the INSERT failed
    bad,       \* lastErr # nil in the handler
    got,       \* messages of a job that reached a subscriber, up to two
    tried,     \* subscribers the loop came to, per job
    owedFrom,  \* jobs enqueued before a subscriber was (last) activated
    late,      \* messages a subscriber got since it was deactivated
    edits,
    mishaps

loop == <<phase, todo, sub, row, bad>>
tables == <<status, log>>
record == <<got, tried, owedFrom, late>>
detail == <<loop, tables, record, edits, mishaps>>
allVars == <<vars, detail>>

DeliveryInit ==
    /\ Init
    /\ status = [s \in Subs |-> IF s \in InitialSubs THEN "active" ELSE "none"]
    /\ log = <<>>
    /\ phase = [c \in Consumers |-> "start"]
    /\ todo = [c \in Consumers |-> {}]
    /\ sub = [c \in Consumers |-> NoSub]
    /\ row = [c \in Consumers |-> 0]
    /\ bad = [c \in Consumers |-> FALSE]
    /\ got = [j \in Jobs |-> [s \in Subs |-> 0]]
    /\ tried = [j \in Jobs |-> {}]
    /\ owedFrom = [s \in Subs |-> sent]
    /\ late = [s \in Subs |-> 0]
    /\ edits = 0
    /\ mishaps = 0

Active(s) == status[s] = "active"
Mishap == mishaps < MaxMishaps /\ mishaps' = mishaps + 1
NoMishap == UNCHANGED mishaps

(* A query or a request of goroutine c fails: with a cancelled context it  *)
(* always does.                                                            *)
Done(c) == live[c] /\ NoMishap
Fails(c) == IF live[c] THEN Mishap ELSE NoMishap

-----------------------------------------------------------------------------
(* The handlers.                                                           *)

Leave(c) ==
    /\ phase' = [phase EXCEPT ![c] = "start"]
    /\ sub' = [sub EXCEPT ![c] = NoSub]
    /\ row' = [row EXCEPT ![c] = 0]
    /\ bad' = [bad EXCEPT ![c] = FALSE]
    /\ UNCHANGED <<todo, tables, record, edits>>

(* A handler without its token returns at once.                            *)
SkipUnset(c) ==
    /\ phase[c] = "start"
    /\ at[c] \in Unset
    /\ HandlerOk(c)
    /\ UNCHANGED detail

(* Mutant: the query misses its WHERE active=TRUE.                         *)
ListAllInterested(c) ==
    {s \in Subs : status[s] # "none" /\ ChannelOf[s] = at[c] /\ Sym(c) \in Follows[s]}
Interested(c) == {s \in Subs : Active(s) /\ ChannelOf[s] = at[c] /\ Sym(c) \in Follows[s]}

(* ListActiveSubscribers. The rows come in any order.                      *)
ListSubscribers(c) ==
    /\ Running(c)
    /\ phase[c] = "start"
    /\ at[c] \notin Unset
    /\ Done(c)
    /\ phase' = [phase EXCEPT ![c] = "listed"]
    /\ todo' = [todo EXCEPT ![c] = Interested(c)]
    /\ UNCHANGED <<vars, sub, row, bad, tables, record, edits>>

ListFails(c) ==
    /\ phase[c] = "start"
    /\ at[c] \notin Unset
    /\ Fails(c)
    /\ UNCHANGED delivered /\ HandlerError(c)
    /\ UNCHANGED <<loop, tables, record, edits>>

(* Mutant: the id of the row before.                                       *)
LastLogID == Len(log)
NewLogID == Len(log) + 1

(* Its error is dropped. An INSERT that fails and was carried out is like  *)
(* one that works, because the id is chosen by the caller.                 *)
InsertDeliveryLog(c, s) ==
    /\ Running(c)
    /\ phase[c] = "listed"
    /\ s \in todo[c]
    /\ todo' = [todo EXCEPT ![c] = @ \ {s}]
    /\ sub' = [sub EXCEPT ![c] = s]
    /\ tried' = [tried EXCEPT ![raw[c].job] = @ \cup {s}]
    /\ phase' = [phase EXCEPT ![c] = IF at[c] \in Polled THEN "sent" ELSE "logged"]
    /\ \/ /\ Done(c)
          /\ log' = Append(log, [job |-> raw[c].job, sub |-> s, status |-> "pending"])
          /\ row' = [row EXCEPT ![c] = NewLogID]
       \/ Fails(c) /\ row' = [row EXCEPT ![c] = 0] /\ UNCHANGED log
    /\ UNCHANGED <<vars, bad, status, got, owedFrom, late, edits>>

Receive(j, s) ==
    /\ got' = [got EXCEPT ![j][s] = IF @ < 2 THEN @ + 1 ELSE @]
    /\ late' = [late EXCEPT ![s] = IF Active(s) THEN @ ELSE @ + 1]

(* The request to the channel: it is answered, it fails, or it gets        *)
(* through and the answer is lost or late (ten seconds).                   *)
Send(c) ==
    /\ Running(c)
    /\ phase[c] = "logged"
    /\ \/ Done(c) /\ Receive(raw[c].job, sub[c]) /\ phase' = [phase EXCEPT ![c] = "sent"]
       \/ Fails(c) /\ UNCHANGED <<got, late>> /\ phase' = [phase EXCEPT ![c] = "unsent"]
       \/ /\ live[c] /\ Mishap
          /\ Receive(raw[c].job, sub[c])
          /\ phase' = [phase EXCEPT ![c] = "unsent"]
    /\ UNCHANGED <<vars, todo, sub, row, bad, tables, tried, owedFrom, edits>>

(* Mutant: the row does not depend on the answer.                          *)
VerdictDelivered(c) == "delivered"
Verdict(c) == IF phase[c] = "sent" THEN "delivered" ELSE "failed"

(* Mutant: lastErr is the error of the last subscriber.                    *)
LastErr(c, err) == err
AnyErr(c, err) == bad[c] \/ err

(* MarkDelivered or MarkFailed. Only mt4copier looks at the result; an     *)
(* UPDATE that fails may have been carried out.                            *)
Marked(c) == IF row[c] = 0 THEN log ELSE [log EXCEPT ![row[c]].status = Verdict(c)]
MarkRow(c) ==
    /\ Running(c)
    /\ phase[c] \in {"sent", "unsent"}
    /\ \/ /\ Done(c)
          /\ log' = Marked(c)
          /\ bad' = [bad EXCEPT ![c] = AnyErr(c, phase[c] = "unsent")]
       \/ /\ Fails(c)
          /\ bad' = [bad EXCEPT ![c] = AnyErr(c, phase[c] = "unsent" \/ at[c] \in Polled)]
          /\ log' = log \/ (live[c] /\ log' = Marked(c))
    /\ phase' = [phase EXCEPT ![c] = "listed"]
    /\ UNCHANGED <<vars, todo, sub, row, status, record, edits>>

(* Mutant: the loop returns at the first error.                            *)
LoopOverOrBad(c) == phase[c] = "listed" /\ (todo[c] = {} \/ bad[c])
LoopOver(c) == phase[c] = "listed" /\ todo[c] = {}

HandlerReturns(c) ==
    /\ LoopOver(c)
    /\ IF bad[c] THEN UNCHANGED delivered /\ HandlerError(c) ELSE HandlerOk(c)
    /\ NoMishap
    /\ Leave(c)

HandlerStep(c) ==
    \/ SkipUnset(c)
    \/ ListSubscribers(c)
    \/ ListFails(c)
    \/ \E s \in Subs : InsertDeliveryLog(c, s)
    \/ Send(c)
    \/ MarkRow(c)
    \/ HandlerReturns(c)

-----------------------------------------------------------------------------
(* The administrator, and the rest of the system.                          *)

Edit == edits < MaxEdits /\ edits' = edits + 1

InsertSubscriber(s) == status[s] = "none" /\ status' = [status EXCEPT ![s] = "active"]
UpdateActive(s, active) ==
    /\ status[s] \in {"active", "inactive"} \ {IF active THEN "active" ELSE "inactive"}
    /\ status' = [status EXCEPT ![s] = IF active THEN "active" ELSE "inactive"]

(* POST /admin/subscribers.                                                *)
CreateSubscriber(s) ==
    /\ InsertSubscriber(s)
    /\ Edit
    /\ owedFrom' = [owedFrom EXCEPT ![s] = sent]
    /\ UNCHANGED <<vars, loop, log, got, tried, late, mishaps>>

(* PATCH /admin/subscribers/{id}/active.                                     *)
SetSubscriberActive(s, active) ==
    /\ UpdateActive(s, active)
    /\ Edit
    /\ owedFrom' = [owedFrom EXCEPT ![s] = sent]
    /\ late' = [late EXCEPT ![s] = 0]
    /\ UNCHANGED <<vars, loop, log, got, tried, mishaps>>

WorkerCrash(w) ==
    /\ Crash(w)
    /\ phase' = [c \in Consumers |-> IF c[1] = w THEN "start" ELSE phase[c]]
    /\ todo' = [c \in Consumers |-> IF c[1] = w THEN {} ELSE todo[c]]
    /\ sub' = [c \in Consumers |-> IF c[1] = w THEN NoSub ELSE sub[c]]
    /\ row' = [c \in Consumers |-> IF c[1] = w THEN 0 ELSE row[c]]
    /\ bad' = [c \in Consumers |-> c[1] # w /\ bad[c]]
    /\ UNCHANGED <<tables, record, edits, mishaps>>

(* The queue, apart from its handlers.                                     *)
QueueAction ==
    \/ \E s \in Symbols : Enqueue(s)
    \/ \E j \in Jobs : Age(j)
    \/ \E c \in Consumers : Start(c) \/ Cancel(c) \/ Dequeue(c, FALSE) \/ QueueStep(c)
    \/ \E w \in Workers : SkipFresh(w) \/ NackStale(w)
    \/ \E w \in Workers, s \in Symbols : CleanupScan(w, s)

DeliveryNext ==
    \/ QueueAction /\ UNCHANGED detail
    \/ \E c \in Consumers : HandlerStep(c)
    \/ \E s \in Subs : CreateSubscriber(s) \/ \E a \in BOOLEAN : SetSubscriberActive(s, a)
    \/ \E w \in Workers : WorkerCrash(w)

DeliverySpec == DeliveryInit /\ [][DeliveryNext]_allVars

(* As FairSpec, without a cleanup: a goroutine keeps running, also through *)
(* the loops of its handlers, and a worker process is restarted and starts *)
(* its symbols again. Nothing is fair about edits and mishaps.             *)
DeliveryFairSpec ==
    /\ DeliverySpec
    /\ \A c \in Consumers :
          WF_allVars((QueueStep(c) /\ UNCHANGED detail) \/ HandlerStep(c))
    /\ \A w \in Workers, s \in Symbols :
          WF_allVars((\E n \in Slots : Start(<<w, s, n>>)) /\ UNCHANGED detail)

-----------------------------------------------------------------------------
(* Properties.                                                             *)

Row == [job : Jobs, sub : Subs, status : {"pending", "delivered", "failed"}]

(* Every variable of the handlers stays in its type, and a handler that    *)
(* serves a subscriber serves one of its own channel.                      *)
DeliveryTypeOK ==
    /\ status \in [Subs -> {"none", "active", "inactive"}]
    /\ log \in Seq(Row)
    /\ phase \in [Consumers -> {"start", "listed", "logged", "sent", "unsent"}]
    /\ todo \in [Consumers -> SUBSET Subs]
    /\ sub \in [Consumers -> Subs \cup {NoSub}]
    /\ \A c \in Consumers : row[c] \in 0 .. Len(log)
    /\ bad \in [Consumers -> BOOLEAN]
    /\ got \in [Jobs -> [Subs -> 0 .. 2]]
    /\ tried \in [Jobs -> SUBSET Subs]
    /\ owedFrom \in [Subs -> [Symbols -> 0 .. MaxJobs]]
    /\ late \in [Subs -> Nat]
    /\ edits \in 0 .. MaxEdits
    /\ mishaps \in 0 .. MaxMishaps
    /\ \A c \in Consumers : phase[c] \in {"logged", "sent", "unsent"} =>
          /\ Running(c) /\ sub[c] \in Subs /\ ChannelOf[sub[c]] = at[c]
          /\ row[c] # 0 => log[row[c]].job = raw[c].job /\ log[row[c]].sub = sub[c]

(* The subscribers of a channel a job must reach: active since before the  *)
(* signal came in.                                                         *)
Owed(j, h) ==
    {s \in Subs : /\ Active(s) /\ ChannelOf[s] = h /\ j[1] \in Follows[s]
                  /\ j[2] > owedFrom[s][j[1]]}

(* A handler that returned nil reached every subscriber it owes the job    *)
(* to: processJob acknowledges on the word of the handlers alone, so an    *)
(* error that is forgotten in the loop is a message nobody sends again.    *)
NilMeansReached ==
    \A j \in Jobs, h \in Handlers \ (Polled \cup Unset) :
        delivered[j][h] > 0 => \A s \in Owed(j, h) : got[j][s] > 0

(* One subscriber's failure is not another's: a handler that has read its  *)
(* list comes to every subscriber it owes the job to before it returns,    *)
(* also when requests fail or the context is cancelled on the way.         *)
ComesToAll(c) ==
    phase[c] = "listed" /\ at'[c] = at[c] + 1 => Owed(raw[c].job, at[c]) \subseteq tried[raw[c].job]
FailureIsolated == [][\A c \in Consumers : ComesToAll(c)]_allVars

(* The log is written around the request, not with it: whatever crashes or *)
(* fails between the two, and whichever row the UPDATE is given, a row     *)
(* says "delivered" only when the message of its job reached its           *)
(* subscriber.                                                             *)
LogTruthful ==
    \A i \in DOMAIN log :
        log[i].status = "delivered" =>
            got[log[i].job][log[i].sub] > 0 \/ ChannelOf[log[i].sub] \in Polled

(* The list is read once per job and handler and is not read again before  *)
(* a request: a subscriber that was deactivated may still get the message  *)
(* of the job in hand, but of one job in each worker process and symbol it *)
(* follows only.                                                           *)
DeactivationHeeded == \A s \in Subs : late[s] <= Cardinality(Workers \X Follows[s])

(* Without the cleanup no subscriber gets the message of a job twice,      *)
(* whatever crashes or is retried: a retry runs every handler again, so    *)
(* the subscribers reached in the first attempt would get it again.        *)
AtMostOnce == \A j \in Jobs, s \in Subs : got[j][s] <= 1

(* README "Per-symbol sequential queues (ordered delivery)": a subscriber  *)
(* that got a signal gets no earlier signal of the symbol afterwards.      *)
InOrder ==
    \A x \in Symbols, m \in 1 .. MaxJobs, n \in 1 .. MaxJobs, s \in Subs :
        m < n /\ got[<<x, n>>][s] > 0 => got'[<<x, m>>][s] = got[<<x, m>>][s]
OrderedDelivery == [][InOrder]_allVars
=============================================================================
