# MT4Signal: a TLA+ development

MT4Signal takes trade signals from a monitor Expert Advisor (EA) by HTTP, stores
them in Postgres, keeps the latest one per symbol in Redis for polling receiver
EAs, and lets worker processes deliver each one to Telegram, WhatsApp, webhooks
and the MT4 copier. The modules here model the Go programs of `cmd/` and
`internal/` and the EAs of `mql4/` and `mql5/`, one module per component that
has state of its own. TLC checks them on small instances, and TLAPS proves what
matters most for instances of any size. `SignalQueue` implements the abstract
`JobLifecycle`, and `Delivery`, its composition with the handlers, implements
`SignalQueue`. `PROJECT.json` maps every definition to
the lines it stands for and lists runs, mutants, findings, hazards and theorems.

## The system

| component | state | operations | talks to |
|---|---|---|---|
| signal ingestion (`signal/handler.go`) | none of its own; deduplication keys, `signals`, latest signal, queues | `Receive`, one goroutine per request | Redis critical, Postgres |
| latest-signal polling (`handler.go` `GetPending`) | reads the latest signal | `GetPending` | Redis critical; polled every 300 ms by receivers |
| job queue (`cache/cache.go`) | `queue:signal:<s>`, `processing:signal:<s>`, `queue:dead_letter` | `EnqueueJob`, `DequeueJob`, `AckJob`, `NackJob`, `MoveToDeadLetter` | server and workers |
| consumer (`queue/consumer.go`) | per goroutine: the job, attempts; per process: `symbols` | `consumeSymbol`, `processJob`, `runCleanup`, `reQueueStale` | job queue, handlers, `dead_letter` table |
| symbol manager (`symbols/manager.go`) | `running` | `Start`, `sync`, `load` | `watched_symbols`, `watched:symbols`, consumer |
| machine binding (`auth/auth.go`, `store.go`) | `key_machines`, verdict cache | `CheckMachineBinding`, `RegisterMachine`, admin changes | Postgres, Redis cache |
| API keys, rate limit (`auth.go`, `admin.go`) | `api_keys`, key cache, failure counters | `ValidateKey`, status, rotation | Postgres, Redis cache |
| admin tokens (`auth.go`, `admin.go`) | JWT blocklist | login, refresh, logout | Redis cache (allkeys-lru), dashboard |
| dashboard session (`dashboard.html`) | access and refresh token in the page | `apiFetch`, `tryRefresh`, `doLogout` | admin handlers |
| subscribers, delivery log (`store.go`) | `subscribers`, `delivery_log` | admin handlers, notification handlers | Postgres |
| notification handlers (`notify/*`) | none | `Handle` | external services, delivery log |
| migrations (`store.go` `Migrate`) | schema, `schema_migrations` | at every process start | Postgres |
| monitor and receiver EAs (`mql4`, `mql5`) | known tickets, processed signals, a file each | timers | server, broker |
| health, configuration, rest of the dashboard, nginx, Docker | none | | |

What is hard: requests, goroutines and processes interleave between any two
Redis or SQL calls, and almost nothing is a transaction; a process may die
between two calls, and compose starts it again (`restart: unless-stopped`); a
call may fail before or after it took effect; go-redis sends a command again when
a reply is lost; contexts are cancelled by clients that hang up, by the symbol
manager and by shutdown; Redis critical is `noeviction` and rejects writes when
it is full; Redis cache is `allkeys-lru` and forgets anything; cached verdicts
and lists go stale; a terminal dies between an order or a POST and its file; a
POST is given up while the server still handles it.

What makes each component correct: ingestion publishes only what it stored, stores
a signal once per life of its deduplication key, and respects real-time order.
The queue loses no job, delivers it at most once and in order, and does not come
to a halt; failed jobs are kept. The machine limit holds, and allowed machines
were registered. A key's verdict agrees with the table at some moment of the
request. A refresh token that was used, or whose session was ended, stays out of
use. A handler that reports success has reached its subscribers, and the delivery log
does not claim more than was delivered. Workers converge to the symbols of the table and never drop one nobody
touched. A process serves only on a complete schema, and comes up. A trade is
posted, copied once, and its copy closed after it.

## Modules

**JobLifecycle** is what the queue promises about each job, without lists,
goroutines or processes: a job is accepted in order, kept until it is delivered or
a handler fails for it, and never lost. It knows one exception, `Expose`, for a
cleanup that a full Redis cuts short.

**SignalQueue** models the job queue and the consumer. `queue`, `processing` and
`deadLetter` are the Redis lists; a list element is a job, its attempt count and
its *form*: an object, or a base64 string when bytes are marshalled a second
time. A goroutine is `<<worker, symbol, slot>>`, slots being goroutines of one
symbol that overlap because a cancelled one is still finishing. `pc` says where
it stands: `polling` (the loop of `consumeSymbol`), `handling` (`processJob` up
to and including the acknowledgement), `backoff` (acknowledged, not yet pushed
again), `record` (dead-lettered in Redis, not yet in Postgres). Each Redis call
is an action and may fail, act without a reply (`Dequeue(c, FALSE)`), or act
twice (`Resends`). Handlers are abstract: one succeeds, or fails after having
reached some of its subscribers or none. `MaxRetries` is a setting of each
process. `Cleaners` are the workers that run `Consumer.Start`; as deployed there
are none. `delivered` (counted up to two), `erred` and `dropped` are history.
`Life` maps a state to the life of each job. Left out: the length of the backoff,
waiting times, and the error text. `MCSignalQueue` has the values of `MaxRetries`.

**Delivery** composes SignalQueue with the loops of the four notification
handlers, the subscribers and the delivery log. It takes every action of the
queue as it is and puts steps in front of `HandlerOk` and `HandlerError`: list
the subscribers, and for each one insert a log row, send the request, mark the
row. `phase` says where a goroutine stands in the loop; `todo`, `sub`, `row` and
`bad` are the local variables of `Handle`. A handler may be `Unset` (no Telegram
token) or `Polled` (mt4copier, which sends nothing: an EA polls). Each query
and request may fail or be carried out without an answer, and with a cancelled
context all of them fail; the administrator creates, activates and deactivates
subscribers meanwhile. `got`, `tried`, `owedFrom` and `late` are history. What a
config says of symbols, also when it is missing, is `Follows`. `MCDelivery` has the
subscribers.

**SignalIngest** models `Receive`. `stage` is the next call a request makes;
signature and payload checks are one step with either outcome. A row, a latest
signal and a job are named by their request. `past` (requests that were over
when one arrived), `unhurt` and `expired` are history. `MCSignalIngest` adds the
symmetry sets.

**TradeCopy** composes the monitor EA, the server and the receiver EA, for one
symbol and one receiver. `known`/`stateFile` are the monitor's `knownTickets` and its
file, `processed`/`doneFile` the receiver's `processedSignals` and its file.
`ScanTrades` is a loop over known tickets and one over new ones (`scan`,
`todo`); what a ticket sends waits in `outbox`, and `Post` and `Record` (change
of the state and save) alternate, because the terminal may die in between. Of
the server's `Receive` only deduplication and latest signal matter here, so it
is one step; SignalIngest has the rest. A deduplication key in `dedup` may or may not
have timed out by the time it is looked at, and so may a processed signal of
yesterday when `CleanupOldSignals` runs. `late` holds requests that WebRequest has
given up. `due`, `announced`, `repeatable`, `forgotten` and `dropped` are history: `due`
says that the receiver had not listed the latest signal's ticket and type when it came
in, and has not acted on it yet.
`Infixes` are the tickets whose digits occur in the others': the MT4 receiver
looks for them anywhere in the comment. Lot scaling, prices and directions are
left out, and that a broker may give a partly closed MT4 order a new ticket.

**MachineBinding** models `CheckMachineBinding` and `RegisterMachine`, a query
a step, for one API key, with the verdict cache and the admin handlers that are
routed. `excess` and `ever` are history. `MCMachineBinding` adds the symmetry
sets.

**ApiKeys** models what comes before it in `APIKeyMiddleware`: the failure
counter, `ValidateKey`, and the admin handlers that issue, rotate and change the status
of keys. `now` is the clock that `rotate_at` is compared with. A cache entry is a `"string"`:
`ValidateKey` marshals the key and `SetAPIKeyCache` marshals the resulting bytes
again, so that no entry can be decoded and every request reads the row.
`mayAccept` and `mayRefuse` of a request are history: what it could truthfully
have been told at some moment since it arrived. `MCApiKeys` adds the symmetry sets.

**AdminSession** composes the tokens of `internal/auth`, the blocklist in the
evicting Redis, the handlers Login, Refresh and Logout, and the page that calls
them. An access token is its expiry time, since it is never blocked; a refresh
token is the number of its login. `calls` are the requests the page has in
flight: `pc` is where the server stands with one (`auth`: the middleware; `check`,
`mint`: before and after the blocklist is read in a refresh; `revoke`, `block`: the
same in a logout), `here` says whether the page still waits for it or has been
reloaded since. `End` is the end of a call with all of `doLogout` that follows.
`spent`, `out` and `unkept` are history: tokens used up, sessions ended, tokens
whose block a fault has lost. Not modelled: a reload by the user, a second tab, and
a wrong password, which changes nothing.

**SymbolManager** models load and sync in every worker, the cached list, and the
admin handlers in their two steps (table, invalidation). The goroutine of a
symbol is a member of `running[w]` here and a goroutine in SignalQueue: `Start`
and `Cancel` there are what `Sync` does here. `untouched` is history.

**Migrations** models `Migrate` in several processes at once.

**DeliveryProofs** (for SignalQueue and for Delivery), **AdminSessionProofs**,
**ApiKeysProofs**, **MachineBindingProofs**, **MigrationsProofs**,
**SignalIngestProofs**, **SymbolManagerProofs** and **TradeCopyProofs** hold the
theorems.

Each module defines, next to an operator, some *mutants* of it: the operator with
a plausible bug. No specification uses them; they serve to see that each property
notices a bug. `PROJECT.json` says which mutant breaks which property.

## Runs

| run | instance | shows |
|---|---|---|
| QueueDeployed (module Delivery) | 1 worker, 1 symbol, 2 slots, 3 handlers (one unset, one sending, one polled), 2 signals, a subscriber and a second one (sent to or polling) that may be created, 2 retries, 1 fault, 1 failed request, 1 edit | as deployed: no job is lost; no subscriber gets one twice or out of order; success of a handler means that its subscribers were reached, and one subscriber's failure is not another's; the log is truthful; a deactivated subscriber gets one more message of a worker and symbol at most; every job that waits is taken, also behind one that fails |
| QueueCleanup | 2 workers of which one runs the cleanup and gives a failed job up at once, and the other tries it twice, 1 signal, 2 faults, Redis may be full | were the cleanup started: the queue implements JobLifecycle; orphans leave the processing list, its race with the consumer duplicates no payload, and a failed job that is not set aside for a retry outlives any single fault |
| SignalIngest | 3 requests, 2 symbols, 2 keys, 2 faults | published is stored; one row per life of a key; a duplicate has an original; real-time order |
| AdminSession | 2 calls, 2 logins, access tokens for 1 tick and refresh tokens for 3, 5 ticks, 1 fault | a token that was used stays used; a session that was ended cannot be refreshed; the recursion of logout, call and refresh ends |
| TradeCopy | 2 trades, 1 event: a changed stop (which may be moved back) or lot, a failed or late call, a failed order or file, or a death | no trade is copied twice but for the named reasons; no copy is closed before its source; the OPEN of every open trade is posted; a signal that stays the latest is acted on unless its ticket and type was listed before |
| MachineBinding | 3 checks, 2 accounts, limits 1, 2 and none, 2 admin changes, 1 fault | the limit is exceeded only for the named reasons; allowed accounts had a row |
| ApiKeys | 2 requests, 2 keys, 3 admin changes, 2 points in time, 1 failed call, limit 2 | verdicts agree with the table at some moment of the request; the block of an address is overshot by the requests in flight at most; rotations alone leave a usable key |
| SymbolSync | 2 workers, 2 admins, 2 symbols, 2 changes, 1 fault | untouched symbols are never cancelled; workers converge to the table |
| Migrations | 3 processes, 2 files, 2 faults | nobody serves on an incomplete schema; all come up unless a file was applied and not recorded |

The bounds. An interleaving problem of these components needs two actors and an
item they disagree about, and a third to be overtaken or to find the result; a
fault matters once or combined with a second one, such as a death after a lost
reply. Two signals are needed for one to overtake the other, two slots for a
cancelled goroutine and its successor, and two subscribers of one channel for a
job that is half delivered; the second may be one that polls instead. Two values of `MaxRetries` make both the retry and the
dead letter happen in one run. Two calls race with each other, for one refresh token or
for one session; a logout beside them is a call of its own, and two logins tell the
session that was ended from the next one. The lifetimes let an access token expire
within the life of a refresh token, and that one within the run. Two trades for a signal that
hides another, and for a copy mistaken for another's. Three changes are what it
takes to issue a key, rotate it and revoke one of the two. TradeCopy's events
are bounded by one because its liveness properties need the whole graph. Moving a stop
back is not counted, so that there are two MODIFY signals of one ticket: the second one
becomes the latest while the receiver has the first in hand, has listed it, or has let
go of it again. QueueServed needs a job behind another, hence the two signals of
QueueDeployed.
`Resends`, commands that Redis carries out twice, is FALSE in all runs and covered
by the proofs about the queue. `faults`, `mishaps`, `edits`, `events`, `sent`,
`admin`, `changes`, `now` bound histories; no other
counter grows without limit. Deadlock is checked in the runs whose loops never
stop: queue, symbols, trades and API keys. Requests, checks and migrations are
finite and do come to an end, and the administrator's session stops at its bounds
(clock, logins), so the runs of SignalIngest, MachineBinding, Migrations and
AdminSession set `CHECK_DEADLOCK FALSE`.

### Where the code does not do what is said

Each of these runs has one property, taken from a comment or the project's
README, and TLC finds it violated by what the code does.

| run | property | what happens |
|---|---|---|
| QueueRetry | RetriedOrDead | a retried job is marshalled twice (`consumer.go:133`, `cache.go:76`), cannot be decoded, and is acknowledged as malformed: no second attempt, no dead letter. This needs no fault |
| QueueOrphan | OrphansRecovered | nothing calls `Consumer.Start`; a job in flight when a worker dies stays in `processing` |
| CopyMissesClose | CloseIsCopied | two trades are closed between two scans; the monitor posts both CLOSE signals at once, the second overwrites the first as the latest, and the first copy stays open for ever. This needs no fault |

AtMostOnce in QueueDeployed holds because retries never happen: with the double
encoding repaired (its mutant `MarshalBytesAsIs`), a second attempt runs all
handlers again, also those that succeeded, and within the handler that failed it
sends again to the subscribers that were reached. AcceptedWasUsable in ApiKeys holds
because no cache entry is ever decoded: with that repaired (the mutant of the
same name there), an entry outlives `rotate_at`, which `RotateKey` does not
clear, and a request that read the row before a revocation writes its entry
after it. Whoever repairs the one has to think of the other.

What else the models show of the code, without a run of its own:

- Two workers on one symbol overtake each other (QueueDeployed with two
  workers), although README.md:173 suggests several of them.
- Concurrent requests overwrite the latest signal in another order than that of
  the rows; RealTimeOrder is what remains.
- The deduplication key of a signal that could not be stored stays, so its
  repetition is answered "duplicate"; and a second MODIFY of a ticket within the
  TTL is dropped by the server, and within a day skipped by the receiver, also when it
  stays the latest signal. LatestIsHandled is what remains.
- An OPEN whose request fails is never posted again: the monitor has the ticket in its
  list, and saves it, whatever SendSignal did (`monitor_ea.mq4:101`). OpenIsPosted promises
  the attempt, not that the server hears of it.
- Two registrations pass the COUNT before either INSERT; ExcessExplained names
  the cases. Of two first polls of one account with limit 1, the second counts
  the first one's row and is refused, and the refusal is cached for five minutes
  (`store.go:183`). Cached refusals also outlive a raised limit, because
  `SetKeyMaxMachines` clears another cache (`admin.go:213`).
- `load` may write a list after the invalidation that made it stale; Converges
  holds because the entry expires. With every row inactive the defaults are
  consumed again (`store.go:281`).
- A refresh token works once, and the answer to a refresh carries no new one
  (`admin.go:66`): the session, whose token lasts seven days (`config.go`), survives
  one expiry of an access token and is logged out at the next. Two calls that get
  a 401 at the same time refresh with the same token, and the later one, refused,
  logs the page out while the earlier one goes on (`dashboard.html:571`).
  SpentStaysSpent is what remains of single use: two refreshes that overlap both
  succeed.
- A logout does not end the access token (`auth.go:293` blocks the refresh token), and
  a blocklist that cannot be read or has forgotten the token lets it pass.
- A handler whose INSERT into the log failed sends all the same, and there is no row
  of it; a row may stay "pending" or say "failed" of a message that arrived. MarkDead
  has no caller, so that nothing is ever counted as dead (`store.go`).
- A migration that was applied and not recorded is executed again, and fails
  (`store.go:644`); StartsOrStranded has it as the one way to stay down.
- A receiver that forgot a signal acts on it again, and one that failed an order does
  not; a trade that closes while an MT5 monitor is down is never reported.

### Fairness

`SignalQueue!FairSpec`: a goroutine keeps running (weak fairness of its steps;
the Go scheduler), a process is started again and a watched symbol gets a
goroutine again (compose; the manager's sync), time passes, and a cleaner works
off its snapshot. Taking the snapshot of a symbol needs strong fairness: the
ticker loop visits every symbol in turn, so a symbol whose turn keeps coming is
not passed over, although between two ticks it may have nothing to offer. No
fairness for signals, faults, cancellations and deaths. `Delivery!DeliveryFairSpec` is
the same without a cleanup, with the steps of a handler's loop among those of its
goroutine; none for the administrator and for requests that fail.
`SymbolManager!FairSpec`: the ticker fires, a worker is started again, and a
key with a TTL expires; none for admin requests. `Migrations!FairSpec`: a
process keeps running and is started again after it exits.
`AdminSession!Spec`: a request that is on its way is answered or fails in the end;
none for the administrator, the clock and Redis. `TradeCopy!FairSpec`: the timers of
both EAs fire, and their terminals are started again; none for the trader, late requests
and deaths.

## Theorems

All hold for every value of the constants that the ASSUMEs of the modules admit.

- `DeliveryProofs!TypeCorrect`: `Spec => []TypeOK`.
- `DeliveryProofs!NothingLost`: `Spec => []NeverLost`. NeverLost excepts the jobs
  in `dropped`: `NackJob` is not a transaction, and a full Redis carries out its
  LREM and refuses its LPUSH. It is not inductive, because what an acknowledgement
  may remove depends on what the goroutine did before. `Safe` adds that an
  undecodable payload belongs to a job some handler failed for (`RetriesErred`:
  discarding it loses nothing new), that a live goroutine at handler `n` without
  an error has delivered its job to all handlers before `n` (`HandledOrErred`: so
  the acknowledgement after the last one is justified), and that only cleaners hold
  snapshots (`OnlyCleanersScan`, for `Expose` below). The steps are sorted by what they do to
  the lists; lemmas say what LPUSH, LREM and BRPOPLPUSH do to the set of values
  on a list.
- `DeliveryProofs!QueueImplementsLifecycle`: `Spec => ImplementsLifecycle`,
  under the refinement mapping `Life`. Beyond `Safe` it needs `NothingInvented`:
  whatever is on a list, in a snapshot or in a goroutine's hands was enqueued, so
  that no life moves before its `Accept`. By `Safe` no job is ever `"lost"`, and
  what is left to show of each step is that it moves one job, or none, and along an
  arrow of JobLifecycle.
- `DeliveryProofs!OneCopy`: `Spec => []SingleCopy`, assuming `~Resends` (a client
  that sends a command again pushes a second copy) and `OneCleaner`: with two cleanups,
  each with its own snapshot, both may push the job back. `SingleInv` adds that
  an object is what the server pushed (a retry is base64), so that two objects of one
  job are the same value and LREM finds the right one, and that no snapshot is of a
  job that is on the queue. It was checked on QueueCleanup before it was proved.
- Two more lemmas about the queue carry the next theorems. `QueueInvariant`: a job stays
  with its symbol (`OwnSymbol`), and a process has one goroutine of a symbol that is not
  cancelled (`OneLive`). `OrderInvariant`, without a cleanup: a queue ascends in the order
  of the signals, and what a goroutine works on comes before all that waits
  (`QueueOrder`). Both are in terms of `QueueEffect`: a step leaves the queue and
  what goroutines hold, or pushes, or dequeues.
- `DeliveryProofs!DeliveryImplementsQueue`: `DeliverySpec => Spec`. A step of a
  handler's loop leaves the queue alone until the handler returns. Hence
  `DeliveryLosesNothing`: what is proved of the queue holds with handlers that take
  many steps and may be cut short at each of them.
- `DeliveryProofs!NilIsHonest`: `DeliverySpec => []NilMeansReached`,
  `FailuresIsolated`: `DeliverySpec => FailureIsolated`, `LogTellsTheTruth`:
  `DeliverySpec => []LogTruthful`, `DeactivationBounded`:
  `DeliverySpec => []DeactivationHeeded`, and `DeliveryTyped`. They share
  `ComposedInvariant`, whose part `LoopInv` says what a goroutine in a loop has in hand
  (`Serving`); a step is one of the queue that serves nobody, an edit, or one of a
  loop, and the lemmas (`HandlerLocal`, `HandlerRecord`, `EditsEffect`) say what each
  kind leaves alone. `OwedInv` adds that everybody who is owed the job has been
  come to or is still in `todo`, and unless an error was noted, has got it or is about
  to; nobody is owed a job that was enqueued before the edit, and no job of the
  future is in anybody's hands, which is `NothingInvented` again. `LogInv`
  says that what a goroutine is about to record as delivered is out, and `LoopInv` that
  the row it will update is one of its job and subscriber. `LateInv`
  is a count: what a deactivated subscriber has got since, and the workers and symbols
  in which a goroutine that is not cancelled still has it in hand (`Bearers`), are
  together no more than the workers times the symbols it follows; the sets are finite
  by `DeliveryAssumption`.
- `DeliveryProofs!NobodyTwice`: `DeliverySpec => []AtMostOnce`, assuming `Cleaners = {}`
  and `~Resends`; and `DeliveredInOrder`: `DeliverySpec => OrderedDelivery`, assuming
  `Cleaners = {}` and one worker. These are the deployment: nobody calls
  `Consumer.Start`, and compose starts one worker. Each hypothesis is needed: a cleanup
  hands out a job that is in hand, a command that is carried out twice puts a
  job on the queue twice, and two workers take two jobs of one symbol at once. From
  `OrderInvariant`, `GotBefore` (what anybody got comes before all that waits),
  `OnceInv` (who is still ahead of a goroutine has got nothing of its job) and
  `OrderInv` (no later job is out than the one in live hands) follow the two.
- `AdminSessionProofs!UsedOnce`: `Spec => []SpentStaysSpent`, `EndedIsRevoked`:
  `Spec => []LogoutRevokes` and `SessionTyped`, all from `SessionInvariant`: `Spec => []Inv`.
  A token is `Secured` when it is blocked until it expires, has expired, or was kept
  by a fault. `Inv` says that all spent and ended tokens are, and, of every call,
  that the second try of a logout carries a secured token (its first try was
  answered 401 and went through a refresh): that is why a logout the server never
  saw still leaves nothing to refresh.
- `MigrationsProofs!ServesMigrated`: `Spec => []ServedIsMigrated`. The files before
  the one a process is at took effect, and a record is written of such files only.
- `SignalIngestProofs!NothingPublishedUnstored`: `Spec => []PublishedIsStored`,
  `DuplicatesAreExplained`: `Spec => []DuplicateHasOriginal`, and `IngestTyped`. The
  invariant says of every key in Redis that some request claimed it, and that a
  claim is not taken back. `StoredOncePerKey`: `Spec => []OneRowPerKey`, by counting:
  the rows of a key and the request that has claimed it and not stored it yet are no more
  than the lives of the key. `RealTimeOrderKept`: `Spec => []RealTimeOrder`, since
  whoever was over when a request arrived neither publishes nor pushes any more.
- `MachineBindingProofs!AllowedOnlyRegistered`: `Spec => []AllowedWasRegistered`,
  `ExcessHasReason`: `Spec => []ExcessExplained`, and `BindingTyped`, from
  `BindingInvariant`. A check that is about to say or to cache "allowed" has
  read or written a row of its account, also if the row is gone by now. As long as no
  reason for an excess has come up (`Orderly`), every registration has read the limit
  that holds, and one check at most is past its COUNT, with room for its row.
- `SymbolManagerProofs!UntouchedNotCancelled`: `Spec => UntouchedKeepsRunning`.
  Every list on its way from the table to the goroutines holds the untouched
  symbols, the cached one included.
- `ApiKeysProofs!RevocationIsImmediate`: `Spec => []AcceptedWasUsable`, and
  `GoodKeyNotRefused`: `Spec => []RefusedForReason`, both from
  `VerdictsTruthful`: `Spec => []Inv`. A verdict rests on what a request read several steps
  earlier, so `Inv` adds to TypeOK that no cache entry can be decoded
  (`NeverDecodes`) and that every request is `Truthful`: its history covers the
  row and the clock as they are now, and the row it holds. The lemma
  `UsableEarlier` is the reason why a row may be judged later than it was read: a
  row usable by the later clock was usable when it was read. `FailuresBounded`:
  `Spec => []OvershootBounded` counts the requests that may still be counted, and
  `RotationKeepsKey`: `Spec => []UsableKeyRemains` rests on `SuccessorKept`: of the issued
  keys one has no `rotate_at`, since a rotation retires a key in the transaction that
  inserts its successor; `KeysTyped` is the type invariant.

- `TradeCopyProofs!CopiesOnce`: `Spec => []CopiedOnce`. The invariant follows the OPEN
  of a ticket around the loop of the three programs. `MonitorInv`: a ticket that was
  announced is known (while the monitor is down: in its file) or its trade is closed, unless the
  monitor may repeat it, so that an OPEN waits only for a ticket that was not announced.
  `TokenInv`: hence there is one OPEN of a ticket, which is late, or the latest signal, or
  seen by the receiver; and once the list has let go of it, it is nowhere any more. `ListInv`
  and `CopiesInv`: as long as the receiver has not lost its list, what it has
  copied is on the list or in its hands, or the list has let go of it. This was checked
  on the run's instance before it was proved.
  `ClosesAfterSource`: `Spec => []ClosedAfterSource`, assuming `Infixes = {}` (an MT5
  receiver; an MT4 one closes the copy of another trade when the digits of one ticket
  occur in the other's): `SourceInv` says that a CLOSE, wherever it is on its way,
  is of a trade that was closed. `CopyTyped` is the type invariant.

What is only model-checked is everything under fairness: QueueServed,
OrphansRecovered, FailedJobKept, LogoutCompletes, Converges, StartsOrStranded,
OpenIsPosted and LatestIsHandled, which the prover does not reach. Every invariant and
every action property that a passing run checks is also a theorem.

## Not modelled, and the plan

Written so far: SignalQueue, SignalIngest, MachineBinding, SymbolManager,
Migrations, TradeCopy, ApiKeys, then JobLifecycle with its refinement, Delivery,
AdminSession, and the proofs listed above. To come: pure operators against
reference definitions (scopes to array and back, `normalizeSymbol`, backoff with 64-bit
overflow).

Not modelled, and why:

- configuration (read once, no state), health check and metrics (reads only), message
  texts, the forms and tables of the dashboard, nginx and the Docker files. What of
  these matters is in the modules: the restart policy is fairness, the memory
  policies of the two Redis instances are faults.
- The services behind the notification handlers: what the code sees of them is an
  answer, an error or silence (`Send`).
- SymbolManager and SignalQueue are not composed, although `Sync` starts and
  cancels the goroutines: SignalQueue allows starts and cancellations at any time, so
  that its safety properties hold under any manager. The death of the process is in both.
- API keys and subscribers are not linked either: the code does not look at the key
  of a subscriber when it delivers, so that those of a revoked key are still served.
- CORS and logging middleware, graceful shutdown of the server: a request that is cut
  off is a hang-up or a crash in SignalIngest.
- Calendar time: partitions of `signals` end with 2027, and inserts fail afterwards.
