------------------------------ MODULE TradeCopy ------------------------------
(***************************************************************************)
(* The way of a trade from the monitored account to a copying account:     *)
(* the monitor EA (mql4/monitor_ea.mq4, mql5/MT5Signal_Monitor.mq5) posts  *)
(* what changed since its last scan, the server keeps the latest signal of *)
(* the symbol, and the receiver EA (mql4/receiver_ea.mq4,                  *)
(* mql5/MT5Signal_Receiver.mq5) polls it and trades. Each EA keeps what it *)
(* has dealt with in a file.                                               *)
(*                                                                         *)
(* One symbol and one receiver. The server's part is what SignalIngest     *)
(* shows in detail, in one step. The order of the entries in an EA's       *)
(* arrays is left out; a stop loss and a take profit are a number that     *)
(* changes, "stop".                                                        *)
(***************************************************************************)
EXTENDS Integers, FiniteSets, Sequences, SequencesExt

CONSTANTS
    Tickets,      \* trades of the monitored account
    Infixes,      \* tickets whose digits occur in those of the others, for
                  \* an MT4 receiver; an MT5 receiver compares whole comments
    NoSignal,     \* no latest signal
    MaxEvents     \* bound: changes of stops (but for moving one back) and
                  \* lots, failed and late requests, failed orders, failed
                  \* file operations and deaths of a terminal, together

Types == {"OPEN", "MODIFY", "PARTIAL", "CLOSE"}
Keys == Tickets \X Types
Stops == 0 .. MaxEvents
Lots == {1, 2}
Signals == [ticket : Tickets, type : Types, stop : Stops, lot : Lots]

ASSUME CopyAssumption ==
    /\ MaxEvents \in Nat
    /\ Infixes \subseteq Tickets
    /\ NoSignal \notin Signals

VARIABLES
    trade,      \* the monitored account
    scan,       \* where the monitor's ScanTrades stands
    todo,       \* tickets it still looks at in this loop
    outbox,     \* signals of the ticket it looks at; the Head goes next
    posted,     \* the Head has been posted
    known,      \* knownTickets
    stateFile,  \* what was last written of it
    late,       \* requests the monitor gave up and the server still handles
    dedup,      \* dedup:<ticket>:<type>
    latest,     \* signal:<symbol>:latest
    poll,       \* where the receiver's PollAndAct stands
    got,        \* the signal it acts on
    processed,  \* processedSignals
    doneFile,   \* what was last written of it
    copies,     \* trades the receiver has opened, in order
    due,        \* the receiver had not listed the latest signal's ticket and
                \* type when it came in, and has not acted on it yet
    announced,  \* tickets whose OPEN was posted, with or without success
    repeatable, \* tickets whose OPEN a restarted monitor may post again
    forgotten,  \* tickets whose OPEN a restarted receiver may act on again
    dropped,    \* tickets whose OPEN was cleaned up after 24 hours
    events      \* changes and faults so far

monitor == <<scan, todo, outbox, posted, known, stateFile>>
server == <<late, dedup, latest, due>>
receiver == <<poll, got, processed, doneFile, copies>>
history == <<announced, repeatable, forgotten, dropped>>
vars == <<trade, monitor, server, receiver, history, events>>

NoTickets == [t \in {} |-> [stop |-> 0, lot |-> 1]]
Open(t) == trade[t].phase = "open"

Init ==
    /\ trade = [t \in Tickets |-> [phase |-> "none", stop |-> 0, lot |-> 2]]
    /\ scan = "down"
    /\ todo = {}
    /\ outbox = <<>>
    /\ posted = FALSE
    /\ known = NoTickets
    /\ stateFile = NoTickets
    /\ late = {}
    /\ dedup = {}
    /\ latest = NoSignal
    /\ poll = "down"
    /\ got = NoSignal
    /\ processed = {}
    /\ doneFile = {}
    /\ copies = <<>>
    /\ due = FALSE
    /\ announced = {}
    /\ repeatable = {}
    /\ forgotten = {}
    /\ dropped = {}
    /\ events = 0

Event == events < MaxEvents /\ events' = events + 1
Works == UNCHANGED events

-----------------------------------------------------------------------------
(* The trader and the broker of the monitored account.                     *)

OpenTradeAtSource(t) ==
    /\ trade[t].phase = "none"
    /\ trade' = [trade EXCEPT ![t].phase = "open"]
    /\ UNCHANGED <<monitor, server, receiver, history, events>>

MoveStop(t) ==
    /\ Open(t)
    /\ \/ Event /\ trade' = [trade EXCEPT ![t].stop = @ + 1]
       \/ Works /\ trade[t].stop > 0 /\ trade' = [trade EXCEPT ![t].stop = @ - 1]
    /\ UNCHANGED <<monitor, server, receiver, history>>

ReduceLot(t) ==
    /\ Open(t)
    /\ trade[t].lot = 2
    /\ Event
    /\ trade' = [trade EXCEPT ![t].lot = 1]
    /\ UNCHANGED <<monitor, server, receiver, history>>

CloseTradeAtSource(t) ==
    /\ Open(t)
    /\ trade' = [trade EXCEPT ![t].phase = "closed"]
    /\ UNCHANGED <<monitor, server, receiver, history, events>>

-----------------------------------------------------------------------------
(* The server: Receive up to SetLatestSignal. A key that was claimed may   *)
(* have expired (DeduplicateTTL). The insert or the write of the latest    *)
(* signal may fail when the key has been claimed.                          *)

Key(m) == <<m.ticket, m.type>>

(* The receiver has the key on its list, in its file or in hand.           *)
Listed(k) == k \in processed \cup doneFile \/ (got # NoSignal /\ Key(got) = k)

Receive(m) ==
    \/ Key(m) \in dedup /\ Works /\ UNCHANGED <<dedup, latest, due>>
    \/ Works /\ dedup' = dedup \cup {Key(m)} /\ latest' = m /\ due' = ~Listed(Key(m))
    \/ Event /\ dedup' = dedup \cup {Key(m)} /\ UNCHANGED <<latest, due>>

HandleLate(m) ==
    /\ m \in late
    /\ late' = late \ {m}
    /\ Receive(m)
    /\ UNCHANGED <<trade, monitor, receiver, history>>

-----------------------------------------------------------------------------
(* The monitor EA.                                                         *)

Signal(t, type, now) == [ticket |-> t, type |-> type, stop |-> now.stop, lot |-> now.lot]

(* FileOpen with FILE_WRITE empties the file; when it fails, the old file  *)
(* stays.                                                                  *)
SaveState(tickets) ==
    \/ Works /\ stateFile' = tickets
    \/ Event /\ UNCHANGED stateFile

(* Mutant: lots and stops are read in the wrong order.                     *)
LoadedSwapped(T) == [t \in T |-> [stop |-> stateFile[t].lot, lot |-> stateFile[t].stop]]
Loaded(T) == Restrict(stateFile, T)

(* OnInit: of the saved tickets, those that are still open; none when the  *)
(* file cannot be opened. An MT4 terminal finds closed orders by their     *)
(* ticket, too.                                                            *)
StartMonitor ==
    /\ scan = "down"
    /\ scan' = "idle"
    /\ \/ /\ Works
          /\ known' \in {Loaded(DOMAIN stateFile), Loaded({t \in DOMAIN stateFile : Open(t)})}
          /\ UNCHANGED repeatable
       \/ /\ Event
          /\ known' = NoTickets
          /\ repeatable' = repeatable \cup announced
    /\ UNCHANGED <<trade, todo, outbox, posted, stateFile, server, receiver, announced, forgotten, dropped>>

BeginScan ==
    /\ scan = "idle"
    /\ scan' = "known"
    /\ todo' = DOMAIN known
    /\ UNCHANGED <<trade, outbox, posted, known, stateFile, server, receiver, history, events>>

(* A known ticket that is open: what differs from the last scan.           *)
LookAtOpen(t) ==
    /\ scan = "known"
    /\ outbox = <<>>
    /\ t \in todo
    /\ Open(t)
    /\ todo' = todo \ {t}
    /\ LET now == trade[t] IN
       outbox' = (IF now.stop # known[t].stop THEN <<Signal(t, "MODIFY", now)>> ELSE <<>>)
                 \o (IF now.lot < known[t].lot THEN <<Signal(t, "PARTIAL", now)>> ELSE <<>>)
    /\ UNCHANGED <<trade, scan, posted, known, stateFile, server, receiver, history, events>>

(* A known ticket that is not open any more. If the history does not have  *)
(* it, it is dropped without a signal.                                     *)
LookAtClosed(t) ==
    /\ scan = "known"
    /\ outbox = <<>>
    /\ t \in todo
    /\ ~Open(t)
    /\ todo' = todo \ {t}
    /\ \/ /\ outbox' = <<Signal(t, "CLOSE", trade[t])>>
          /\ Works
          /\ UNCHANGED <<known, stateFile>>
       \/ /\ Event
          /\ known' = Restrict(known, DOMAIN known \ {t})
          /\ stateFile' \in {stateFile, known'}
          /\ UNCHANGED outbox
    /\ UNCHANGED <<trade, scan, posted, server, receiver, history>>

BeginNew ==
    /\ scan = "known"
    /\ outbox = <<>>
    /\ todo = {}
    /\ scan' = "new"
    /\ todo' = {t \in Tickets : Open(t)} \ DOMAIN known
    /\ UNCHANGED <<trade, outbox, posted, known, stateFile, server, receiver, history, events>>

AddKnownTicket(t) ==
    [u \in DOMAIN known \cup {t} |->
        IF u = t THEN [stop |-> trade[t].stop, lot |-> trade[t].lot] ELSE known[u]]

(* Mutant: the state is saved before the signal is sent.                   *)
LookAtNewSaved(t) ==
    /\ scan = "new"
    /\ outbox = <<>>
    /\ t \in todo
    /\ todo' = todo \ {t}
    /\ IF Open(t)
       THEN /\ outbox' = <<Signal(t, "OPEN", trade[t])>>
            /\ known' = AddKnownTicket(t)
            /\ stateFile' = known'
       ELSE UNCHANGED <<outbox, known, stateFile>>
    /\ UNCHANGED <<trade, scan, posted, server, receiver, history, events>>
(* AddKnownTicket comes before SendSignal, SaveStateToFile after it. A     *)
(* ticket closed in the meantime is not selected.                          *)
LookAtNew(t) ==
    /\ scan = "new"
    /\ outbox = <<>>
    /\ t \in todo
    /\ todo' = todo \ {t}
    /\ IF Open(t)
       THEN /\ outbox' = <<Signal(t, "OPEN", trade[t])>>
            /\ known' = AddKnownTicket(t)
       ELSE UNCHANGED <<outbox, known>>
    /\ UNCHANGED <<trade, scan, posted, stateFile, server, receiver, history, events>>

(* SendSignal: the WebRequest is answered, fails, or is given up after     *)
(* five seconds while the server goes on. The monitor makes no difference. *)
Post ==
    /\ outbox # <<>>
    /\ ~posted
    /\ posted' = TRUE
    /\ LET m == Head(outbox) IN
       /\ \/ Receive(m) /\ UNCHANGED late
          \/ Event /\ UNCHANGED server
          \/ Event /\ late' = late \cup {m} /\ UNCHANGED <<dedup, latest, due>>
       /\ announced' = IF m.type = "OPEN" THEN announced \cup {m.ticket} ELSE announced
    /\ UNCHANGED <<trade, scan, todo, outbox, known, stateFile, receiver, repeatable, forgotten, dropped>>

(* What ScanTrades keeps of a signal it has sent.                          *)
AfterSending(m) ==
    IF m.type = "CLOSE" THEN Restrict(known, DOMAIN known \ {m.ticket})
    ELSE IF m.type = "MODIFY" THEN [known EXCEPT ![m.ticket].stop = m.stop]
    ELSE IF m.type = "PARTIAL" THEN [known EXCEPT ![m.ticket].lot = m.lot]
    ELSE known

Record ==
    /\ posted
    /\ known' = AfterSending(Head(outbox))
    /\ SaveState(known')
    /\ outbox' = Tail(outbox)
    /\ posted' = FALSE
    /\ UNCHANGED <<trade, scan, todo, server, receiver, history>>

EndScan ==
    /\ scan = "new"
    /\ outbox = <<>>
    /\ todo = {}
    /\ scan' = "idle"
    /\ UNCHANGED <<trade, todo, outbox, posted, known, stateFile, server, receiver, history, events>>

(* The terminal is closed or dies; while it saves, with part of the file   *)
(* written.                                                                *)
StopMonitor ==
    /\ scan # "down"
    /\ Event
    /\ scan' = "down"
    /\ todo' = {}
    /\ outbox' = <<>>
    /\ posted' = FALSE
    /\ known' = NoTickets
    /\ \/ UNCHANGED stateFile
       \/ /\ posted
          /\ LET after == AfterSending(Head(outbox))
             IN \E T \in SUBSET DOMAIN after : stateFile' = Restrict(after, T)
    /\ repeatable' = repeatable \cup (announced \ DOMAIN stateFile')
    /\ UNCHANGED <<trade, server, receiver, announced, forgotten, dropped>>

-----------------------------------------------------------------------------
(* The receiver EA.                                                        *)

(* Mutant: IsAlreadyProcessed compares the ticket only.                    *)
IsTicketProcessed(m) == \E k \in processed : k[1] = m.ticket
IsAlreadyProcessed(m) == Key(m) \in processed

Opened(keys) == {t \in Tickets : <<t, "OPEN">> \in keys}

StartReceiver ==
    /\ poll = "down"
    /\ poll' = "idle"
    /\ \/ Works /\ processed' = doneFile /\ UNCHANGED forgotten
       \/ /\ Event
          /\ processed' = {}
          /\ forgotten' = forgotten \cup Opened(doneFile)
    /\ UNCHANGED <<trade, monitor, server, got, doneFile, copies, announced, repeatable, dropped>>

(* GET /pending. A poll that fails or brings nothing new has no effect.    *)
Poll ==
    /\ poll = "idle"
    /\ latest # NoSignal
    /\ ~IsAlreadyProcessed(latest)
    /\ got' = latest
    /\ poll' = "act"
    /\ UNCHANGED <<trade, monitor, server, processed, doneFile, copies, history, events>>

(* Mutant: only the magic number is compared.                              *)
MatchesMagic(copy, t) == copy.phase = "open"
(* The comment of the copy, "Copy#" and its ticket, is (MT5) or contains   *)
(* (MT4) what is looked for.                                               *)
Matches(copy, t) == copy.phase = "open" /\ (copy.ticket = t \/ t \in Infixes)

(* The last position that matches is changed, if any does.                 *)
Target(t) ==
    LET M == {i \in DOMAIN copies : Matches(copies[i], t)}
    IN {i \in M : \A j \in M : j <= i}

Traded(m) ==
    CASE m.type = "OPEN" ->
            Append(copies, [ticket |-> m.ticket, phase |-> "open", stop |-> m.stop, lot |-> m.lot])
      [] m.type = "MODIFY" ->
            [i \in DOMAIN copies |->
                IF i \in Target(m.ticket) THEN [copies[i] EXCEPT !.stop = m.stop] ELSE copies[i]]
      [] m.type = "CLOSE" ->
            [i \in DOMAIN copies |->
                IF i \in Target(m.ticket) THEN [copies[i] EXCEPT !.phase = "closed"] ELSE copies[i]]
      [] m.type = "PARTIAL" ->
            [i \in DOMAIN copies |->
                IF i \in Target(m.ticket) /\ copies[i].lot > m.lot
                THEN [copies[i] EXCEPT !.lot = m.lot] ELSE copies[i]]

(* The order may be refused; the signal counts as processed all the same.  *)
Act ==
    /\ poll = "act"
    /\ poll' = "mark"
    /\ \/ Works /\ copies' = Traded(got)
       \/ Event /\ UNCHANGED copies
    /\ due' = (due /\ got # latest)
    /\ UNCHANGED <<trade, monitor, late, dedup, latest, got, processed, doneFile, history>>

(* Mutant: the processed signals are kept in memory only.                  *)
MarkInMemory ==
    /\ poll = "mark"
    /\ poll' = "idle"
    /\ processed' = processed \cup {Key(got)}
    /\ got' = NoSignal
    /\ UNCHANGED <<trade, monitor, server, doneFile, copies, history, events>>
AfterCleanup(old) == (processed \ old) \cup {Key(got)}

(* MarkAsProcessed with the CleanupOldSignals at its end: the list is      *)
(* saved, what is older than 24 hours is removed, and if there was any the *)
(* list is saved again. Any keys may have grown old.                       *)
Mark ==
    /\ poll = "mark"
    /\ poll' = "idle"
    /\ \E old \in SUBSET (processed \ {Key(got)}) :
          /\ processed' = AfterCleanup(old)
          /\ dropped' = dropped \cup Opened(old)
    /\ \/ Works /\ doneFile' = processed' /\ UNCHANGED forgotten
       \/ /\ Event
          /\ doneFile' \in {doneFile, AfterCleanup({})}
          /\ forgotten' = forgotten \cup Opened(processed' \ doneFile')
    /\ got' = NoSignal
    /\ UNCHANGED <<trade, monitor, server, copies, announced, repeatable>>

(* The terminal is closed or dies, possibly while it saves.                *)
ActedOn == processed \cup {Key(got)}
StopReceiver ==
    /\ poll # "down"
    /\ Event
    /\ poll' = "down"
    /\ got' = NoSignal
    /\ processed' = {}
    /\ IF poll = "mark"
       THEN /\ doneFile' \in {doneFile} \cup SUBSET ActedOn
            /\ forgotten' = forgotten \cup Opened(ActedOn \ doneFile')
       ELSE UNCHANGED <<doneFile, forgotten>>
    /\ UNCHANGED <<trade, monitor, server, copies, announced, repeatable, dropped>>

-----------------------------------------------------------------------------
MonitorStep ==
    \/ StartMonitor
    \/ BeginScan
    \/ \E t \in Tickets : LookAtOpen(t) \/ LookAtClosed(t) \/ LookAtNew(t)
    \/ BeginNew
    \/ Post
    \/ Record
    \/ EndScan

ReceiverStep == StartReceiver \/ Poll \/ Act \/ Mark

Next ==
    \/ \E t \in Tickets :
          \/ OpenTradeAtSource(t)
          \/ MoveStop(t)
          \/ ReduceLot(t)
          \/ CloseTradeAtSource(t)
    \/ MonitorStep
    \/ StopMonitor
    \/ \E m \in late : HandleLate(m)
    \/ ReceiverStep
    \/ StopReceiver

Spec == Init /\ [][Next]_vars

(* Both terminals are started again and their timers keep firing. Nothing  *)
(* is fair about traders, time and late requests.                          *)
FairSpec == Spec /\ WF_vars(MonitorStep) /\ WF_vars(ReceiverStep)

-----------------------------------------------------------------------------
(* Properties.                                                             *)

(* Every variable stays in its type.                                       *)
Positions == [stop : Stops, lot : Lots]
TypeOK ==
    /\ trade \in [Tickets -> [phase : {"none", "open", "closed"}, stop : Stops, lot : Lots]]
    /\ scan \in {"down", "idle", "known", "new"}
    /\ todo \subseteq Tickets
    /\ outbox \in Seq(Signals)
    /\ posted \in BOOLEAN
    /\ DOMAIN known \subseteq Tickets /\ Range(known) \subseteq Positions
    /\ DOMAIN stateFile \subseteq Tickets /\ Range(stateFile) \subseteq Positions
    /\ late \subseteq Signals
    /\ dedup \subseteq Keys
    /\ latest \in Signals \cup {NoSignal}
    /\ poll \in {"down", "idle", "act", "mark"}
    /\ got \in Signals \cup {NoSignal}
    /\ processed \subseteq Keys
    /\ doneFile \subseteq Keys
    /\ due \in BOOLEAN
    /\ copies \in Seq([ticket : Tickets, phase : {"open", "closed"}, stop : Stops, lot : Lots])
    /\ announced \subseteq Tickets
    /\ repeatable \subseteq Tickets
    /\ forgotten \subseteq Tickets
    /\ dropped \subseteq Tickets
    /\ events \in 0 .. MaxEvents

(* A trade is copied once. Two copies of one trade need a receiver that    *)
(* died between order and list, or could not use its file, or a monitor    *)
(* that lost an OPEN it had sent and repeats it when the receiver's list   *)
(* has let go of it after a day.                                           *)
(* Late and lost requests, the expiry of the server's key and the cleanup  *)
(* of the list do not make a second copy on their own.                     *)
CopiedOnce ==
    \A t \in Tickets :
        \/ Cardinality({i \in DOMAIN copies : copies[i].ticket = t}) <= 1
        \/ t \in forgotten
        \/ t \in repeatable /\ t \in dropped

(* A copy is closed only after its source was, whatever was lost, late or  *)
(* repeated on the way, as long as no ticket's digits occur in another's.  *)
ClosedAfterSource ==
    \A i \in DOMAIN copies :
        copies[i].phase = "closed" => trade[copies[i].ticket].phase = "closed"

(* The POST of the OPEN of a trade that stays open is attempted, whenever  *)
(* the monitor dies: it saves a ticket after it has sent it. It is         *)
(* attempted once: when the request fails, the ticket is known and saved   *)
(* all the same, and the server never hears of the trade.                  *)
OpenIsPosted == \A t \in Tickets : Open(t) ~> t \in announced \/ ~Open(t)

(* A signal that stays the latest is acted on - that very signal, not only *)
(* one of its ticket and type - when the receiver had not listed its       *)
(* ticket and type as it came in, whenever the receiver dies and whatever  *)
(* it was busy with. Of one that was listed, as the second MODIFY of a     *)
(* ticket within a day, nothing is promised: IsAlreadyProcessed skips it.  *)
LatestIsHandled == []<>~due \/ []<><<latest' # latest>>_latest

(* receiver_ea.mq4 "Polls /pending/{symbol} and copies trades to this      *)
(* account. Handles OPEN, MODIFY, CLOSE, PARTIAL signal types.": a copy    *)
(* whose source was closed is closed.                                      *)
CloseIsCopied ==
    \A t \in Tickets :
        trade[t].phase = "closed"
            ~> \A i \in DOMAIN copies : copies[i].ticket = t => copies[i].phase = "closed"
=============================================================================
