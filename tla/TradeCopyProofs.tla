--------------------------- MODULE TradeCopyProofs ---------------------------
(***************************************************************************)
(* A trade is copied once and closed after its source, for any number of   *)
(* tickets, changes and faults.                                            *)
(***************************************************************************)
EXTENDS TradeCopy, SequenceTheorems, FiniteSetTheorems, TLAPS

-----------------------------------------------------------------------------
(* Types. What an EA knows of its tickets, in memory and in its file, is a *)
(* function; a stop is no larger than the number of events it took.        *)
IsBook(book) == DOMAIN book \subseteq Tickets /\ book \in [DOMAIN book -> Positions]
Trades == [phase : {"none", "open", "closed"}, stop : Stops, lot : Lots]
Copies == [ticket : Tickets, phase : {"open", "closed"}, stop : Stops, lot : Lots]

SourceTyped ==
    /\ trade \in [Tickets -> Trades]
    /\ events \in 0 .. MaxEvents
    /\ \A t \in Tickets : trade[t].stop <= events
MonitorTyped ==
    /\ scan \in {"down", "idle", "known", "new"}
    /\ todo \subseteq Tickets
    /\ outbox \in Seq(Signals)
    /\ posted \in BOOLEAN
    /\ posted => outbox # <<>>
    /\ IsBook(known)
    /\ IsBook(stateFile)
ServerTyped ==
    /\ late \subseteq Signals
    /\ dedup \subseteq Keys
    /\ latest \in Signals \cup {NoSignal}
    /\ due \in BOOLEAN
ReceiverTyped ==
    /\ poll \in {"down", "idle", "act", "mark"}
    /\ got \in Signals \cup {NoSignal}
    /\ poll \in {"act", "mark"} => got # NoSignal
    /\ processed \subseteq Keys
    /\ doneFile \subseteq Keys
    /\ copies \in Seq(Copies)
HistoryTyped ==
    /\ announced \subseteq Tickets
    /\ repeatable \subseteq Tickets
    /\ forgotten \subseteq Tickets
    /\ dropped \subseteq Tickets
Typed == SourceTyped /\ MonitorTyped /\ ServerTyped /\ ReceiverTyped /\ HistoryTyped

LEMMA RestrictedBook ==
    ASSUME NEW book, IsBook(book), NEW T, T \subseteq DOMAIN book
    PROVE  IsBook(Restrict(book, T)) /\ DOMAIN Restrict(book, T) = T
BY DEF IsBook, Restrict

LEMMA BookRange ==
    ASSUME NEW book, IsBook(book)
    PROVE  Range(book) \subseteq Positions
BY DEF IsBook, Range

LEMMA EmptyBook == IsBook(NoTickets) /\ DOMAIN NoTickets = {}
BY DEF IsBook, NoTickets

LEMMA TypedTypeOK == Typed => TypeOK
BY BookRange
   DEF Typed, TypeOK, SourceTyped, MonitorTyped, ServerTyped, ReceiverTyped, HistoryTyped,
       Trades, Copies, IsBook

(* What a step leaves alone keeps its type.                                *)
LEMMA UnchangedTyped ==
    /\ SourceTyped /\ UNCHANGED <<trade, events>> => SourceTyped'
    /\ MonitorTyped /\ UNCHANGED monitor => MonitorTyped'
    /\ ServerTyped /\ UNCHANGED server => ServerTyped'
    /\ ReceiverTyped /\ UNCHANGED receiver => ReceiverTyped'
    /\ HistoryTyped /\ UNCHANGED history => HistoryTyped'
BY DEF SourceTyped, MonitorTyped, ServerTyped, ReceiverTyped, HistoryTyped,
       monitor, server, receiver, history, IsBook

LEMMA EventTyped ==
    ASSUME SourceTyped, Event \/ Works, UNCHANGED trade
    PROVE  SourceTyped'
BY CopyAssumption DEF SourceTyped, Event, Works, Trades, Stops

(* The server's step keeps its types.                                      *)
LEMMA ReceiveTyped ==
    ASSUME ServerTyped, NEW m \in Signals, Receive(m)
    PROVE  /\ Event \/ Works
           /\ dedup' \subseteq Keys
           /\ latest' \in Signals \cup {NoSignal}
           /\ due' \in BOOLEAN
<1>1. Key(m) \in Keys
  BY DEF Key, Keys, Signals
<1> QED BY <1>1 DEF Receive, ServerTyped

LEMMA SignalTyped ==
    ASSUME NEW t \in Tickets, NEW type \in Types, NEW now, now.stop \in Stops, now.lot \in Lots
    PROVE  /\ Signal(t, type, now) \in Signals
           /\ Signal(t, type, now).ticket = t
           /\ Signal(t, type, now).type = type
           /\ Signal(t, type, now).stop = now.stop
           /\ Signal(t, type, now).lot = now.lot
BY DEF Signal, Signals

LEMMA OneSignal ==
    ASSUME NEW m \in Signals
    PROVE  /\ <<m>> \in Seq(Signals)
           /\ <<m>> # <<>>
           /\ DOMAIN <<m>> = {1}
           /\ <<m>>[1] = m
OBVIOUS

(* The first signal of the outbox.                                         *)
LEMMA HeadOfOutbox ==
    ASSUME MonitorTyped, outbox # <<>>
    PROVE  /\ Head(outbox) \in Signals
           /\ Head(outbox) = outbox[1]
           /\ 1 \in DOMAIN outbox
           /\ Tail(outbox) \in Seq(Signals)
           /\ DOMAIN Tail(outbox) = 1 .. Len(outbox) - 1
           /\ DOMAIN outbox = 1 .. Len(outbox)
           /\ \A i \in DOMAIN Tail(outbox) : Tail(outbox)[i] = outbox[i + 1]
<1>1. outbox \in Seq(Signals)
  BY DEF MonitorTyped
<1> QED BY <1>1, HeadTailProperties, LenProperties

LEMMA AfterSendingTyped ==
    ASSUME MonitorTyped, NEW m \in Signals
    PROVE  /\ IsBook(AfterSending(m))
           /\ DOMAIN AfterSending(m) = IF m.type = "CLOSE" THEN DOMAIN known \ {m.ticket}
                                       ELSE DOMAIN known
<1>1. m.stop \in Stops /\ m.lot \in Lots /\ m.ticket \in Tickets
  BY DEF Signals
<1>2. CASE m.type = "CLOSE"
  BY <1>2, RestrictedBook DEF AfterSending, MonitorTyped
<1>3. CASE m.type = "MODIFY"
  BY <1>3, <1>1 DEF AfterSending, MonitorTyped, IsBook, Positions
<1>4. CASE m.type = "PARTIAL"
  BY <1>4, <1>1 DEF AfterSending, MonitorTyped, IsBook, Positions
<1>5. CASE m.type \notin {"CLOSE", "MODIFY", "PARTIAL"}
  BY <1>5 DEF AfterSending, MonitorTyped
<1> QED BY <1>2, <1>3, <1>4, <1>5

(* The signals LookAtOpen finds, none, one or two of them.                 *)
LEMMA LookAtOpenTyped ==
    ASSUME SourceTyped, NEW t \in Tickets, LookAtOpen(t)
    PROVE  /\ outbox' \in Seq(Signals)
           /\ \A i \in DOMAIN outbox' :
                 outbox'[i].ticket = t /\ outbox'[i].type \in {"MODIFY", "PARTIAL"}
<1> DEFINE Found == {m \in Signals : m.ticket = t /\ m.type \in {"MODIFY", "PARTIAL"}}
           M == Signal(t, "MODIFY", trade[t])
           P == Signal(t, "PARTIAL", trade[t])
           Moved == IF trade[t].stop # known[t].stop THEN <<M>> ELSE <<>>
           Reduced == IF trade[t].lot < known[t].lot THEN <<P>> ELSE <<>>
<1>1. trade[t].stop \in Stops /\ trade[t].lot \in Lots
  BY DEF SourceTyped, Trades
<1>2. M \in Found /\ P \in Found
  BY <1>1, SignalTyped DEF Types
<1>3. outbox' = Moved \o Reduced
  BY DEF LookAtOpen
<1> HIDE DEF M, P, Found
<1>4. Moved \in Seq(Found) /\ Reduced \in Seq(Found)
  <2>1. <<M>> \in Seq(Found) /\ <<P>> \in Seq(Found) /\ <<>> \in Seq(Found)
    BY <1>2
  <2> QED BY <2>1
<1> HIDE DEF Moved, Reduced
<1>5. outbox' \in Seq(Found)
  BY <1>3, <1>4, ConcatProperties
<1>6. \A i \in DOMAIN outbox' : outbox'[i] \in Found
  BY <1>5, ElementOfSeq, LenProperties
<1>7. outbox' \in Seq(Signals)
  BY <1>5, SeqMonotonic DEF Found
<1> QED BY <1>6, <1>7 DEF Found

-----------------------------------------------------------------------------
(* The receiver's trades. One signal opens a copy or changes some copies,  *)
(* whose tickets stay; only a CLOSE closes one.                            *)
LEMMA ChangedSeq ==
    ASSUME NEW S, NEW s \in Seq(S), NEW u, u = [i \in DOMAIN s |-> u[i]],
           \A i \in DOMAIN s : u[i] \in S
    PROVE  u \in Seq(S)
<1>1. DOMAIN s = 1 .. Len(s) /\ Len(s) \in Nat
  BY LenProperties
<1>2. u \in [1 .. Len(s) -> S]
  BY <1>1
<1> QED BY <1>1, <1>2, SeqDef

LEMMA TradedOpen ==
    ASSUME ReceiverTyped, NEW m \in Signals, m.type = "OPEN"
    PROVE  /\ Traded(m) \in Seq(Copies)
           /\ DOMAIN Traded(m) = DOMAIN copies \cup {Len(copies) + 1}
           /\ Len(copies) + 1 \notin DOMAIN copies
           /\ \A i \in DOMAIN copies : Traded(m)[i] = copies[i]
           /\ Traded(m)[Len(copies) + 1].ticket = m.ticket
           /\ Traded(m)[Len(copies) + 1].phase = "open"
<1> DEFINE c == [ticket |-> m.ticket, phase |-> "open", stop |-> m.stop, lot |-> m.lot]
<1>1. Traded(m) = Append(copies, c)
  BY DEF Traded
<1>2. c \in Copies /\ c.ticket = m.ticket /\ c.phase = "open"
  BY DEF Signals, Copies
<1>3. copies \in Seq(Copies)
  BY DEF ReceiverTyped
<1>4. DOMAIN copies = 1 .. Len(copies) /\ Len(copies) \in Nat
  BY <1>3, LenProperties
<1> HIDE DEF c
<1>5. /\ Append(copies, c) \in Seq(Copies)
      /\ Len(Append(copies, c)) = Len(copies) + 1
      /\ \A i \in 1 .. Len(copies) : Append(copies, c)[i] = copies[i]
      /\ Append(copies, c)[Len(copies) + 1] = c
  BY <1>2, <1>3, AppendProperties
<1>6. DOMAIN Append(copies, c) = 1 .. Len(copies) + 1
  BY <1>5, LenProperties
<1> QED BY <1>1, <1>2, <1>4, <1>5, <1>6

LEMMA TradedChange ==
    ASSUME ReceiverTyped, NEW m \in Signals, m.type # "OPEN"
    PROVE  /\ Traded(m) \in Seq(Copies)
           /\ DOMAIN Traded(m) = DOMAIN copies
           /\ \A i \in DOMAIN copies :
                 /\ Traded(m)[i].ticket = copies[i].ticket
                 /\ \/ Traded(m)[i].phase = copies[i].phase
                    \/ m.type = "CLOSE" /\ i \in Target(m.ticket)
<1>1. copies \in Seq(Copies)
  BY DEF ReceiverTyped
<1>2. \A i \in DOMAIN copies : copies[i] \in Copies
  BY <1>1, ElementOfSeq, LenProperties
<1>3. m.stop \in Stops /\ m.lot \in Lots /\ m.type \in {"MODIFY", "CLOSE", "PARTIAL"}
  BY DEF Signals, Types
<1>4. Traded(m) = [i \in DOMAIN copies |-> Traded(m)[i]]
  BY <1>3 DEF Traded
<1>5. ASSUME NEW i \in DOMAIN copies
      PROVE  /\ Traded(m)[i] \in Copies
             /\ Traded(m)[i].ticket = copies[i].ticket
             /\ \/ Traded(m)[i].phase = copies[i].phase
                \/ m.type = "CLOSE" /\ i \in Target(m.ticket)
  <2>1. /\ copies[i] \in Copies
        /\ \A x \in Stops : [copies[i] EXCEPT !.stop = x] \in Copies
        /\ \A x \in Lots : [copies[i] EXCEPT !.lot = x] \in Copies
        /\ [copies[i] EXCEPT !.phase = "closed"] \in Copies
    BY <1>2 DEF Copies
  <2>2. CASE m.type = "MODIFY"
    <3>1. Traded(m)[i] = IF i \in Target(m.ticket) THEN [copies[i] EXCEPT !.stop = m.stop]
                         ELSE copies[i]
      BY <2>2 DEF Traded
    <3> QED BY <3>1, <2>1, <1>3 DEF Copies
  <2>3. CASE m.type = "CLOSE"
    <3>1. Traded(m)[i] = IF i \in Target(m.ticket) THEN [copies[i] EXCEPT !.phase = "closed"]
                         ELSE copies[i]
      BY <2>3 DEF Traded
    <3> QED BY <3>1, <2>1, <2>3 DEF Copies
  <2>4. CASE m.type = "PARTIAL"
    <3>1. Traded(m)[i] = IF i \in Target(m.ticket) /\ copies[i].lot > m.lot
                         THEN [copies[i] EXCEPT !.lot = m.lot] ELSE copies[i]
      BY <2>4 DEF Traded
    <3> QED BY <3>1, <2>1, <1>3 DEF Copies
  <2> QED BY <1>3, <2>2, <2>3, <2>4
<1>6. Traded(m) \in Seq(Copies)
  BY <1>1, <1>4, <1>5, ChangedSeq
<1> QED BY <1>4, <1>5, <1>6

-----------------------------------------------------------------------------
(* Every step keeps the types.                                             *)
LEMMA TypedInit == Init => Typed
<1> SUFFICES ASSUME Init PROVE Typed
  OBVIOUS
<1> USE DEF Init
<1>1. SourceTyped
  BY CopyAssumption DEF SourceTyped, Trades, Stops, Lots
<1>2. MonitorTyped
  <2>1. IsBook(known) /\ IsBook(stateFile) /\ outbox \in Seq(Signals)
    BY EmptyBook
  <2> QED BY <2>1 DEF MonitorTyped
<1>3. ServerTyped
  BY DEF ServerTyped
<1>4. ReceiverTyped /\ HistoryTyped
  BY DEF ReceiverTyped, HistoryTyped
<1> QED BY <1>1, <1>2, <1>3, <1>4 DEF Typed

LEMMA TypedSourceStep ==
    ASSUME Typed, NEW t \in Tickets,
           \/ OpenTradeAtSource(t) \/ MoveStop(t) \/ ReduceLot(t) \/ CloseTradeAtSource(t)
    PROVE  Typed'
<1> USE DEF Typed
<1>1. CASE OpenTradeAtSource(t)
  BY <1>1, UnchangedTyped DEF OpenTradeAtSource, SourceTyped, Trades
<1>2. CASE MoveStop(t)
  <2>1. \A u \in Tickets : trade[u].stop \in Stops /\ trade[u].stop <= events
    BY DEF SourceTyped, Trades
  <2>2. \/ /\ trade' = [trade EXCEPT ![t].stop = @ + 1]
           /\ trade[t].stop + 1 \in Stops /\ trade[t].stop + 1 <= events'
           /\ events' = events + 1
        \/ /\ trade' = [trade EXCEPT ![t].stop = @ - 1]
           /\ trade[t].stop - 1 \in Stops /\ trade[t].stop - 1 <= events'
           /\ events' = events
    BY <1>2, <2>1, CopyAssumption DEF MoveStop, Event, Works, SourceTyped, Trades, Stops
  <2>3. events' \in 0 .. MaxEvents
    BY <1>2, CopyAssumption DEF MoveStop, Event, Works, SourceTyped
  <2>4. SourceTyped'
    BY <2>1, <2>2, <2>3, CopyAssumption DEF SourceTyped, Trades, Stops
  <2> QED BY <1>2, <2>4, UnchangedTyped DEF MoveStop
<1>3. CASE ReduceLot(t)
  <2>1. events' = events + 1 /\ events' \in 0 .. MaxEvents
    BY <1>3, CopyAssumption DEF ReduceLot, Event, SourceTyped
  <2>2. \A u \in Tickets : trade[u].stop \in Stops
    BY DEF SourceTyped, Trades
  <2>3. SourceTyped'
    BY <1>3, <2>1, <2>2, CopyAssumption DEF ReduceLot, SourceTyped, Trades, Lots, Stops
  <2> QED BY <1>3, <2>3, UnchangedTyped DEF ReduceLot
<1>4. CASE CloseTradeAtSource(t)
  BY <1>4, UnchangedTyped DEF CloseTradeAtSource, SourceTyped, Trades
<1> QED BY <1>1, <1>2, <1>3, <1>4

LEMMA TypedMonitorStep ==
    ASSUME Typed, MonitorStep \/ StopMonitor
    PROVE  Typed'
<1> USE DEF Typed
<1>1. CASE StartMonitor
  <2>1. IsBook(known') /\ (Event \/ Works) /\ repeatable' \subseteq Tickets
    <3>1. \A T \in SUBSET DOMAIN stateFile : IsBook(Restrict(stateFile, T))
      BY RestrictedBook DEF MonitorTyped
    <3> QED BY <1>1, <3>1, EmptyBook DEF StartMonitor, Loaded, HistoryTyped
  <2>2. MonitorTyped'
    BY <1>1, <2>1 DEF StartMonitor, MonitorTyped, IsBook
  <2>3. HistoryTyped'
    BY <1>1, <2>1 DEF StartMonitor, HistoryTyped
  <2> QED BY <1>1, <2>1, <2>2, <2>3, UnchangedTyped, EventTyped DEF StartMonitor
<1>2. CASE BeginScan
  <2>1. MonitorTyped'
    BY <1>2 DEF BeginScan, MonitorTyped, IsBook
  <2> QED BY <1>2, <2>1, UnchangedTyped DEF BeginScan
<1>3. ASSUME NEW t \in Tickets, LookAtOpen(t) PROVE Typed'
  <2>1. outbox' \in Seq(Signals)
    BY <1>3, LookAtOpenTyped
  <2>2. todo' \subseteq Tickets /\ ~posted'
    BY <1>3 DEF LookAtOpen, MonitorTyped
  <2>3. MonitorTyped'
    BY <1>3, <2>1, <2>2 DEF LookAtOpen, MonitorTyped, IsBook
  <2> QED BY <1>3, <2>3, UnchangedTyped DEF LookAtOpen
<1>4. ASSUME NEW t \in Tickets, LookAtClosed(t) PROVE Typed'
  <2>1. /\ Signal(t, "CLOSE", trade[t]) \in Signals
        /\ IsBook(Restrict(known, DOMAIN known \ {t}))
    BY SignalTyped, RestrictedBook DEF SourceTyped, Trades, MonitorTyped, Types
  <2>2. /\ IsBook(known') /\ IsBook(stateFile')
        /\ Event \/ Works
    BY <1>4, <2>1 DEF LookAtClosed, MonitorTyped, IsBook
  <2>4. outbox' \in Seq(Signals)
    BY <1>4, <2>1, OneSignal DEF LookAtClosed, MonitorTyped
  <2>3. MonitorTyped'
    BY <1>4, <2>2, <2>4 DEF LookAtClosed, MonitorTyped, IsBook
  <2> QED BY <1>4, <2>2, <2>3, UnchangedTyped, EventTyped DEF LookAtClosed
<1>5. ASSUME NEW t \in Tickets, LookAtNew(t) PROVE Typed'
  <2>1. IsBook(known')
    <3>1. [stop |-> trade[t].stop, lot |-> trade[t].lot] \in Positions
      BY DEF SourceTyped, Trades, Positions
    <3> QED BY <1>5, <3>1 DEF LookAtNew, AddKnownTicket, MonitorTyped, IsBook
  <2>2. outbox' \in Seq(Signals)
    <3>1. Signal(t, "OPEN", trade[t]) \in Signals
      BY SignalTyped DEF SourceTyped, Trades, Types
    <3> QED BY <1>5, <3>1, OneSignal DEF LookAtNew, MonitorTyped
  <2>3. MonitorTyped'
    BY <1>5, <2>1, <2>2 DEF LookAtNew, MonitorTyped, IsBook
  <2> QED BY <1>5, <2>3, UnchangedTyped DEF LookAtNew
<1>6. CASE BeginNew
  <2>1. MonitorTyped'
    BY <1>6 DEF BeginNew, MonitorTyped, IsBook
  <2> QED BY <1>6, <2>1, UnchangedTyped DEF BeginNew
<1>7. CASE Post
  <2>1. Head(outbox) \in Signals /\ Head(outbox).ticket \in Tickets
    BY <1>7, HeadOfOutbox DEF Post, Signals
  <2>2. ServerTyped' /\ (Event \/ Works)
    BY <1>7, <2>1, ReceiveTyped DEF Post, ServerTyped, server
  <2>3. HistoryTyped'
    BY <1>7, <2>1 DEF Post, HistoryTyped
  <2>4. MonitorTyped'
    BY <1>7 DEF Post, MonitorTyped, IsBook
  <2> QED BY <1>7, <2>2, <2>3, <2>4, UnchangedTyped, EventTyped DEF Post
<1>8. CASE Record
  <2>1. Head(outbox) \in Signals /\ Tail(outbox) \in Seq(Signals)
    BY <1>8, HeadOfOutbox DEF Record, MonitorTyped
  <2>2. IsBook(known') /\ IsBook(stateFile') /\ (Event \/ Works)
    BY <1>8, <2>1, AfterSendingTyped DEF Record, SaveState, MonitorTyped, IsBook
  <2>3. MonitorTyped'
    BY <1>8, <2>1, <2>2 DEF Record, MonitorTyped, IsBook
  <2> QED BY <1>8, <2>2, <2>3, UnchangedTyped, EventTyped DEF Record
<1>9. CASE EndScan
  <2>1. MonitorTyped'
    BY <1>9 DEF EndScan, MonitorTyped, IsBook
  <2> QED BY <1>9, <2>1, UnchangedTyped DEF EndScan
<1>10. CASE StopMonitor
  <2>1. IsBook(stateFile')
    <3>1. CASE UNCHANGED stateFile
      BY <3>1 DEF MonitorTyped, IsBook
    <3>2. CASE posted /\ \E T \in SUBSET DOMAIN AfterSending(Head(outbox)) :
                            stateFile' = Restrict(AfterSending(Head(outbox)), T)
      <4>1. IsBook(AfterSending(Head(outbox)))
        BY <3>2, HeadOfOutbox, AfterSendingTyped DEF MonitorTyped
      <4> QED BY <3>2, <4>1, RestrictedBook
    <3> QED BY <1>10, <3>1, <3>2 DEF StopMonitor
  <2>2. HistoryTyped'
    BY <1>10 DEF StopMonitor, HistoryTyped
  <2>3. MonitorTyped'
    <3>1. known' = NoTickets /\ outbox' = <<>> /\ posted' = FALSE
      BY <1>10 DEF StopMonitor
    <3>2. IsBook(known') /\ outbox' \in Seq(Signals)
      BY <3>1, EmptyBook
    <3> QED BY <1>10, <2>1, <3>1, <3>2 DEF StopMonitor, MonitorTyped
  <2> QED BY <1>10, <2>2, <2>3, UnchangedTyped, EventTyped DEF StopMonitor
<1> QED BY <1>1, <1>2, <1>3, <1>4, <1>5, <1>6, <1>7, <1>8, <1>9, <1>10 DEF MonitorStep

LEMMA TypedServerStep ==
    ASSUME Typed, NEW m \in late, HandleLate(m)
    PROVE  Typed'
<1> USE DEF Typed
<1>1. m \in Signals
  BY DEF ServerTyped
<1>2. ServerTyped' /\ (Event \/ Works)
  BY <1>1, ReceiveTyped DEF HandleLate, ServerTyped
<1> QED BY <1>2, UnchangedTyped, EventTyped DEF HandleLate

LEMMA TypedReceiverStep ==
    ASSUME Typed, ReceiverStep \/ StopReceiver
    PROVE  Typed'
<1> USE DEF Typed
<1>1. poll \in {"act", "mark"} => got \in Signals /\ Key(got) \in Keys
  BY DEF ReceiverTyped, Key, Keys, Signals
<1>2. CASE StartReceiver
  <2>1. ReceiverTyped' /\ HistoryTyped' /\ (Event \/ Works)
    BY <1>2 DEF StartReceiver, ReceiverTyped, HistoryTyped, Opened
  <2> QED BY <1>2, <2>1, UnchangedTyped, EventTyped DEF StartReceiver
<1>3. CASE Poll
  <2>1. ReceiverTyped'
    BY <1>3 DEF Poll, ReceiverTyped, ServerTyped
  <2> QED BY <1>3, <2>1, UnchangedTyped DEF Poll
<1>4. CASE Act
  <2>1. Traded(got) \in Seq(Copies)
    BY <1>1, <1>4, TradedOpen, TradedChange DEF Act
  <2>2. ReceiverTyped' /\ (Event \/ Works)
    BY <1>4, <2>1 DEF Act, ReceiverTyped
  <2>3. ServerTyped'
    BY <1>4 DEF Act, ServerTyped
  <2> QED BY <1>4, <2>2, <2>3, UnchangedTyped, EventTyped DEF Act
<1>5. CASE Mark
  <2>1. /\ processed' \subseteq Keys
        /\ doneFile' \subseteq Keys
        /\ HistoryTyped'
        /\ Event \/ Works
    BY <1>5, <1>1 DEF Mark, AfterCleanup, ReceiverTyped, HistoryTyped, Opened
  <2>2. ReceiverTyped'
    BY <1>5, <2>1 DEF Mark, ReceiverTyped
  <2> QED BY <1>5, <2>1, <2>2, UnchangedTyped, EventTyped DEF Mark
<1>6. CASE StopReceiver
  <2>1. doneFile' \subseteq Keys /\ HistoryTyped'
    BY <1>6, <1>1 DEF StopReceiver, ActedOn, ReceiverTyped, HistoryTyped, Opened
  <2>2. ReceiverTyped'
    BY <1>6, <2>1 DEF StopReceiver, ReceiverTyped
  <2> QED BY <1>6, <2>1, <2>2, UnchangedTyped, EventTyped DEF StopReceiver
<1> QED BY <1>2, <1>3, <1>4, <1>5, <1>6 DEF ReceiverStep

LEMMA TypedStep == Typed /\ [Next]_vars => Typed'
<1> SUFFICES ASSUME Typed, [Next]_vars PROVE Typed'
  OBVIOUS
<1>1. CASE UNCHANGED vars
  BY <1>1, UnchangedTyped DEF vars, Typed
<1> QED BY <1>1, TypedSourceStep, TypedMonitorStep, TypedServerStep, TypedReceiverStep DEF Next

(* Every variable of the monitor, the server and the receiver keeps its    *)
(* type, whatever fails or dies.                                           *)
THEOREM CopyTyped == Spec => []TypeOK
BY TypedTypeOK, TypedInit, TypedStep, PTL DEF Spec

-----------------------------------------------------------------------------
(* Who changes what, and the one way a trade goes.                         *)
LEMMA SourceFrame ==
    ASSUME NEW t \in Tickets,
           \/ OpenTradeAtSource(t) \/ MoveStop(t) \/ ReduceLot(t) \/ CloseTradeAtSource(t)
    PROVE  UNCHANGED <<monitor, server, receiver, history>>
BY DEF OpenTradeAtSource, MoveStop, ReduceLot, CloseTradeAtSource

LEMMA MonitorFrame ==
    ASSUME MonitorStep \/ StopMonitor
    PROVE  UNCHANGED <<trade, receiver, forgotten, dropped>> /\ (Post \/ UNCHANGED <<server, announced>>)
BY DEF MonitorStep, StartMonitor, BeginScan, LookAtOpen, LookAtClosed, LookAtNew, BeginNew,
       Post, Record, EndScan, StopMonitor, history

LEMMA ServerFrame ==
    ASSUME NEW m \in late, HandleLate(m)
    PROVE  UNCHANGED <<trade, monitor, receiver, history>>
BY DEF HandleLate

LEMMA ReceiverFrame ==
    ASSUME ReceiverStep \/ StopReceiver
    PROVE  UNCHANGED <<trade, monitor, late, dedup, latest, announced, repeatable>>
BY DEF ReceiverStep, StartReceiver, Poll, Act, Mark, StopReceiver, server, history

LEMMA TradesAge ==
    ASSUME Typed, [Next]_vars, NEW t \in Tickets
    PROVE  /\ trade[t].phase # "none" => trade'[t].phase # "none"
           /\ trade[t].phase = "closed" => trade'[t].phase = "closed"
<1>1. ASSUME NEW u \in Tickets,
             \/ OpenTradeAtSource(u) \/ MoveStop(u) \/ ReduceLot(u) \/ CloseTradeAtSource(u)
      PROVE  /\ trade[t].phase # "none" => trade'[t].phase # "none"
             /\ trade[t].phase = "closed" => trade'[t].phase = "closed"
  BY <1>1 DEF OpenTradeAtSource, MoveStop, ReduceLot, CloseTradeAtSource, Open,
              Typed, SourceTyped, Trades
<1>2. CASE UNCHANGED trade
  BY <1>2
<1> QED BY <1>1, <1>2, MonitorFrame, ServerFrame, ReceiverFrame DEF Next, vars

-----------------------------------------------------------------------------
(* A ticket an EA deals with belongs to a trade that was opened, and a     *)
(* CLOSE, wherever it is on its way, to one that was closed.               *)
Truthful(m) == m.type = "CLOSE" => trade[m.ticket].phase = "closed"
SourceInv ==
    /\ \A t \in todo \cup DOMAIN known \cup DOMAIN stateFile : trade[t].phase # "none"
    /\ \A i \in DOMAIN outbox : Truthful(outbox[i])
    /\ \A m \in late : Truthful(m)
    /\ latest # NoSignal => Truthful(latest)
    /\ got # NoSignal => Truthful(got)

(* What was true of a signal stays true.                                   *)
LEMMA StaysTruthful ==
    ASSUME Typed, [Next]_vars, NEW m \in Signals, Truthful(m)
    PROVE  Truthful(m)'
BY TradesAge DEF Truthful, Signals

LEMMA SourceInvUnchanged ==
    ASSUME Typed, SourceInv, [Next]_vars, UNCHANGED <<monitor, server, receiver>>
    PROVE  SourceInv'
<1>1. \A t \in todo' \cup DOMAIN known' \cup DOMAIN stateFile' : trade'[t].phase # "none"
  BY TradesAge DEF SourceInv, Typed, MonitorTyped, IsBook, monitor
<1>2. \A i \in DOMAIN outbox' : Truthful(outbox[i])'
  <2>1. \A i \in DOMAIN outbox : outbox[i] \in Signals
    BY ElementOfSeq, LenProperties DEF Typed, MonitorTyped
  <2> QED BY <2>1, StaysTruthful DEF SourceInv, monitor
<1>3. \A m \in late' : Truthful(m)'
  BY StaysTruthful DEF SourceInv, server, Typed, ServerTyped
<1>4. /\ latest' # NoSignal => Truthful(latest)'
      /\ got' # NoSignal => Truthful(got)'
  BY StaysTruthful DEF SourceInv, server, receiver, Typed, ServerTyped, ReceiverTyped
<1> QED BY <1>1, <1>2, <1>3, <1>4 DEF SourceInv

(* With the trades unchanged, every signal in place of another must have   *)
(* been on its way already or be true.                                     *)
LEMMA SourceInvMonitor ==
    ASSUME Typed, SourceInv, MonitorStep \/ StopMonitor
    PROVE  SourceInv'
<1> USE DEF SourceInv
<1>0. UNCHANGED <<trade, receiver>> /\ UNCHANGED got /\ \A m : Truthful(m)' <=> Truthful(m)
  BY MonitorFrame DEF receiver, Truthful
<1>1. \A t \in Tickets : Open(t) => trade[t].phase # "none"
  BY DEF Open
<1>2. CASE StartMonitor
  <2>1. DOMAIN known' \subseteq DOMAIN stateFile
    <3>1. \A T \in SUBSET DOMAIN stateFile : DOMAIN Restrict(stateFile, T) \subseteq DOMAIN stateFile
      BY DEF Restrict
    <3> QED BY <1>2, <3>1, EmptyBook DEF StartMonitor, Loaded
  <2> QED BY <1>0, <1>2, <2>1 DEF StartMonitor, server
<1>3. CASE BeginScan
  BY <1>0, <1>3 DEF BeginScan, server
<1>4. ASSUME NEW t \in Tickets, LookAtOpen(t) PROVE SourceInv'
  <2>1. \A i \in DOMAIN outbox' : Truthful(outbox'[i])
    BY <1>4, LookAtOpenTyped DEF Typed, Truthful
  <2> QED BY <1>0, <1>4, <2>1 DEF LookAtOpen, server
<1>5. ASSUME NEW t \in Tickets, LookAtClosed(t) PROVE SourceInv'
  <2>1. trade[t].phase = "closed"
    BY <1>5 DEF LookAtClosed, Open, Typed, SourceTyped, Trades
  <2>2. Truthful(Signal(t, "CLOSE", trade[t])) /\ Signal(t, "CLOSE", trade[t]) \in Signals
    BY <2>1, SignalTyped DEF Truthful, Types, Typed, SourceTyped, Trades
  <2>3. \A i \in DOMAIN outbox' : Truthful(outbox'[i])
    BY <1>5, <2>2, OneSignal DEF LookAtClosed
  <2>4. DOMAIN known' \subseteq DOMAIN known /\ DOMAIN stateFile' \subseteq DOMAIN known \cup DOMAIN stateFile
    BY <1>5 DEF LookAtClosed, Restrict
  <2> QED BY <1>0, <1>5, <2>3, <2>4 DEF LookAtClosed, server
<1>6. ASSUME NEW t \in Tickets, LookAtNew(t) PROVE SourceInv'
  <2>1. Truthful(Signal(t, "OPEN", trade[t])) /\ Signal(t, "OPEN", trade[t]) \in Signals
    BY SignalTyped DEF Truthful, Types, Typed, SourceTyped, Trades
  <2>2. \A i \in DOMAIN outbox' : Truthful(outbox'[i])
    BY <1>6, <2>1, OneSignal DEF LookAtNew
  <2>3. \A u \in DOMAIN known' : trade[u].phase # "none"
    BY <1>1, <1>6 DEF LookAtNew, AddKnownTicket
  <2> QED BY <1>0, <1>6, <2>2, <2>3 DEF LookAtNew, server
<1>7. CASE BeginNew
  BY <1>0, <1>1, <1>7 DEF BeginNew, server
<1>8. CASE Post
  <2>1. Head(outbox) = outbox[1] /\ 1 \in DOMAIN outbox
    BY <1>8, HeadOfOutbox DEF Post, Typed
  <2>2. Truthful(Head(outbox))
    BY <2>1
  <2>3. /\ \A m \in late' : Truthful(m)
        /\ latest' # NoSignal => Truthful(latest')
    BY <1>8, <2>2 DEF Post, Receive, server
  <2> QED BY <1>0, <1>8, <2>3 DEF Post
<1>9. CASE Record
  <2>1. /\ Head(outbox) \in Signals
        /\ \A i \in DOMAIN Tail(outbox) : Tail(outbox)[i] = outbox[i + 1] /\ i + 1 \in DOMAIN outbox
    BY <1>9, HeadOfOutbox, LenProperties DEF Record, Typed, MonitorTyped
  <2>2. DOMAIN known' \subseteq DOMAIN known /\ DOMAIN stateFile' \subseteq DOMAIN known \cup DOMAIN stateFile
    BY <1>9, <2>1, AfterSendingTyped DEF Record, SaveState, Typed
  <2> QED BY <1>0, <1>9, <2>1, <2>2 DEF Record, server
<1>10. CASE EndScan
  BY <1>0, <1>10 DEF EndScan, server
<1>11. CASE StopMonitor
  <2>1. DOMAIN stateFile' \subseteq DOMAIN known \cup DOMAIN stateFile
    <3>1. posted => DOMAIN AfterSending(Head(outbox)) \subseteq DOMAIN known
      BY HeadOfOutbox, AfterSendingTyped DEF Typed, MonitorTyped
    <3> QED BY <1>11, <3>1 DEF StopMonitor, Restrict
  <2>2. DOMAIN known' = {} /\ todo' = {} /\ outbox' = <<>>
    BY <1>11, EmptyBook DEF StopMonitor
  <2> QED BY <1>0, <1>11, <2>1, <2>2 DEF StopMonitor, server
<1> QED BY <1>2, <1>3, <1>4, <1>5, <1>6, <1>7, <1>8, <1>9, <1>10, <1>11 DEF MonitorStep

LEMMA SourceInvStep == Typed /\ SourceInv /\ [Next]_vars => SourceInv'
<1> SUFFICES ASSUME Typed, SourceInv, [Next]_vars PROVE SourceInv'
  OBVIOUS
<1>1. ASSUME NEW m \in late, HandleLate(m) PROVE SourceInv'
  <2>1. UNCHANGED <<trade, monitor, receiver>> /\ late' \subseteq late /\ latest' \in {latest, m}
    BY <1>1, ServerFrame DEF HandleLate, Receive
  <2> QED BY <2>1 DEF SourceInv, Truthful, monitor, receiver
<1>2. CASE ReceiverStep \/ StopReceiver
  <2>1. UNCHANGED <<trade, monitor, late, latest>>
    BY <1>2, ReceiverFrame
  <2>2. got' \in {got, latest, NoSignal}
    BY <1>2 DEF ReceiverStep, StartReceiver, Poll, Act, Mark, StopReceiver
  <2> QED BY <2>1, <2>2 DEF SourceInv, Truthful, monitor, server
<1> QED BY <1>1, <1>2, SourceFrame, SourceInvUnchanged, SourceInvMonitor DEF Next, vars

LEMMA SourceInvInit == Init => SourceInv
BY EmptyBook DEF Init, SourceInv

(* Without infixes, what a CLOSE closes are copies of its own trade.       *)
LEMMA ClosedStep ==
    ASSUME Infixes = {}, Typed, SourceInv, ClosedAfterSource, [Next]_vars
    PROVE  ClosedAfterSource'
<1> USE DEF ClosedAfterSource
<1>0. \A i \in DOMAIN copies : copies[i] \in Copies /\ copies[i].ticket \in Tickets
  <2>1. \A i \in DOMAIN copies : copies[i] \in Copies
    BY ElementOfSeq, LenProperties DEF Typed, ReceiverTyped
  <2> QED BY <2>1 DEF Copies
<1>1. CASE UNCHANGED copies
  BY <1>0, <1>1, TradesAge
<1>2. CASE Act
  <2>1. got \in Signals /\ Truthful(got) /\ UNCHANGED trade
    BY <1>2 DEF Act, Typed, ReceiverTyped, SourceInv
  <2>2. CASE copies' = Traded(got) /\ got.type = "OPEN"
    BY <2>1, <2>2, TradedOpen DEF Typed
  <2>3. CASE copies' = Traded(got) /\ got.type # "OPEN"
    <3>1. ASSUME NEW i \in DOMAIN copies', copies'[i].phase = "closed"
          PROVE  trade[copies'[i].ticket].phase = "closed"
      <4>1. /\ i \in DOMAIN copies
            /\ copies'[i].ticket = copies[i].ticket
            /\ copies[i].phase = "closed" \/ (got.type = "CLOSE" /\ i \in Target(got.ticket))
        BY <2>1, <2>3, <3>1, TradedChange DEF Typed
      <4>2. i \in Target(got.ticket) => copies[i].ticket = got.ticket
        BY DEF Target, Matches
      <4> QED BY <2>1, <4>1, <4>2 DEF Truthful
    <3> QED BY <2>1, <3>1
  <2> QED BY <1>1, <1>2, <2>2, <2>3 DEF Act
<1>3. Act \/ UNCHANGED copies
  <2>1. ReceiverStep \/ StopReceiver => Act \/ UNCHANGED copies
    BY DEF ReceiverStep, StartReceiver, Poll, Mark, StopReceiver
  <2>2. UNCHANGED receiver => UNCHANGED copies
    BY DEF receiver
  <2> QED BY <2>1, <2>2, SourceFrame, MonitorFrame, ServerFrame DEF Next, vars
<1> QED BY <1>1, <1>2, <1>3

(* A receiver that compares whole comments, or an MT4 one as long as no    *)
(* ticket's digits occur in another's, closes no copy before the trade it  *)
(* copies was closed, whatever is lost, late or repeated.                  *)
THEOREM ClosesAfterSource ==
    ASSUME Infixes = {}
    PROVE  Spec => []ClosedAfterSource
<1>1. Init => Typed /\ SourceInv /\ ClosedAfterSource
  BY TypedInit, SourceInvInit DEF Init, ClosedAfterSource
<1>2. Typed /\ SourceInv /\ ClosedAfterSource /\ [Next]_vars
          => (Typed /\ SourceInv /\ ClosedAfterSource)'
  BY TypedStep, SourceInvStep, ClosedStep
<1> QED BY <1>1, <1>2, PTL DEF Spec

-----------------------------------------------------------------------------
(* The monitor posts the OPEN of a ticket a second time only when it has   *)
(* lost the first: a posted ticket that is not repeatable is known, or its *)
(* trade is closed, and an OPEN waits in the outbox only for a ticket that *)
(* was unknown when the scan met it.                                       *)
Settled == announced \ repeatable
Kept == IF scan = "down" THEN DOMAIN stateFile ELSE DOMAIN known
OpenGoesFirst == \A i \in DOMAIN outbox : outbox[i].type = "OPEN" => i = 1
HeadIsOpen == outbox # <<>> /\ outbox[1].type = "OPEN"
MonitorInv ==
    /\ OpenGoesFirst
    /\ scan = "new" => todo \cap DOMAIN known = {}
    /\ scan = "down" => outbox = <<>>
    /\ HeadIsOpen => outbox[1].ticket \in DOMAIN known
    /\ HeadIsOpen /\ ~posted => outbox[1].ticket \notin Settled
    /\ \A t \in Settled : trade[t].phase = "closed" \/ t \in Kept

LEMMA FirstInDomain ==
    ASSUME NEW s \in Seq(Signals), s # <<>>
    PROVE  1 \in DOMAIN s
BY LenProperties, EmptySeq

LEMMA MonitorInvInit == Init => MonitorInv
BY DEF Init, MonitorInv, OpenGoesFirst, HeadIsOpen, Settled

LEMMA MonitorInvSource ==
    ASSUME Typed, MonitorInv, [Next]_vars, UNCHANGED <<monitor, announced, repeatable>>
    PROVE  MonitorInv'
<1>1. \A t \in Settled : trade'[t].phase = "closed" \/ t \in Kept
  BY TradesAge DEF MonitorInv, Settled, Typed, HistoryTyped
<1> QED BY <1>1 DEF MonitorInv, OpenGoesFirst, HeadIsOpen, Settled, Kept, monitor

LEMMA MonitorInvMonitor ==
    ASSUME Typed, Typed', SourceInv, MonitorInv, MonitorStep \/ StopMonitor
    PROVE  MonitorInv'
<1>0. UNCHANGED trade
  BY MonitorFrame
<1>1. \A t \in Tickets : trade[t].phase \in {"none", "open", "closed"}
  BY DEF Typed, SourceTyped, Trades
<1>2. Settled \subseteq Tickets
  BY DEF Settled, Typed, HistoryTyped
<1>3. CASE StartMonitor
  <2>1. outbox' = <<>>
    BY <1>3 DEF StartMonitor, MonitorInv
  <2>2. ASSUME NEW t \in Settled' PROVE trade[t].phase = "closed" \/ t \in DOMAIN known'
    <3>1. t \in Settled /\ t \in announced
      BY <1>3, <2>2 DEF Settled, StartMonitor
    <3>2. trade[t].phase = "closed" \/ t \in DOMAIN stateFile
      BY <1>3, <3>1 DEF MonitorInv, Kept, StartMonitor
    <3>3. t \in DOMAIN stateFile => trade[t].phase # "none" /\ t \in Tickets
      BY <1>2, <3>1 DEF SourceInv
    <3>4. CASE known' = Loaded(DOMAIN stateFile)
      BY <3>2, <3>4 DEF Loaded, Restrict
    <3>5. CASE known' = Loaded({u \in DOMAIN stateFile : Open(u)})
      BY <1>1, <3>2, <3>3, <3>5 DEF Loaded, Restrict, Open
    <3>6. CASE repeatable' = repeatable \cup announced
      BY <2>2, <3>1, <3>6 DEF Settled
    <3> QED BY <1>3, <3>4, <3>5, <3>6 DEF StartMonitor
  <2>3. scan' = "idle"
    BY <1>3 DEF StartMonitor
  <2> QED BY <1>0, <2>1, <2>2, <2>3 DEF MonitorInv, OpenGoesFirst, HeadIsOpen, Kept
<1>4. CASE BeginScan
  BY <1>0, <1>4 DEF BeginScan, MonitorInv, OpenGoesFirst, HeadIsOpen, Settled, Kept, history
<1>5. ASSUME NEW t \in Tickets, LookAtOpen(t) PROVE MonitorInv'
  <2>1. \A i \in DOMAIN outbox' : outbox'[i].type # "OPEN"
    BY <1>5, LookAtOpenTyped DEF Typed
  <2>2. OpenGoesFirst' /\ ~HeadIsOpen'
    BY <2>1, FirstInDomain DEF OpenGoesFirst, HeadIsOpen, Typed, MonitorTyped
  <2> QED BY <1>0, <1>5, <2>2 DEF LookAtOpen, MonitorInv, Settled, Kept, history
<1>6. ASSUME NEW t \in Tickets, LookAtClosed(t) PROVE MonitorInv'
  <2>1. trade[t].phase = "closed"
    BY <1>1, <1>6 DEF LookAtClosed, Open, SourceInv
  <2>2. OpenGoesFirst' /\ ~HeadIsOpen'
    <3>1. /\ Signal(t, "CLOSE", trade[t]) \in Signals
          /\ Signal(t, "CLOSE", trade[t]).type = "CLOSE"
      BY SignalTyped DEF Types, Typed, SourceTyped, Trades
    <3> QED BY <1>6, <3>1, OneSignal DEF LookAtClosed, OpenGoesFirst, HeadIsOpen
  <2>3. DOMAIN known \ {t} \subseteq DOMAIN known'
    BY <1>6 DEF LookAtClosed, Restrict
  <2> QED BY <1>0, <1>6, <2>1, <2>2, <2>3 DEF LookAtClosed, MonitorInv, Settled, Kept, history
<1>7. ASSUME NEW t \in Tickets, LookAtNew(t) PROVE MonitorInv'
  <2>1. CASE ~Open(t)
    BY <1>0, <1>7, <2>1
       DEF LookAtNew, MonitorInv, OpenGoesFirst, HeadIsOpen, Settled, Kept, history
  <2>2. CASE Open(t)
    <3>1. t \notin Settled
      BY <1>7, <2>2 DEF LookAtNew, MonitorInv, Open, Kept
    <3>2. OpenGoesFirst' /\ outbox'[1].ticket = t
      <4>1. /\ Signal(t, "OPEN", trade[t]) \in Signals
            /\ Signal(t, "OPEN", trade[t]).ticket = t
        BY SignalTyped DEF Types, Typed, SourceTyped, Trades
      <4> QED BY <1>7, <2>2, <4>1, OneSignal DEF LookAtNew, OpenGoesFirst
    <3>3. DOMAIN known' = DOMAIN known \cup {t}
      BY <1>7, <2>2 DEF LookAtNew, AddKnownTicket
    <3>4. /\ scan = "new" /\ scan' = "new"
          /\ todo' = todo \ {t}
          /\ UNCHANGED <<announced, repeatable>>
      BY <1>7 DEF LookAtNew, history
    <3> QED BY <1>0, <3>1, <3>2, <3>3, <3>4 DEF MonitorInv, Settled, Kept
  <2> QED BY <2>1, <2>2
<1>8. CASE BeginNew
  BY <1>0, <1>8 DEF BeginNew, MonitorInv, OpenGoesFirst, HeadIsOpen, Settled, Kept, history
<1>9. CASE Post
  <2>1. /\ scan # "down" /\ posted'
        /\ UNCHANGED <<scan, todo, outbox, known, repeatable>>
    BY <1>9 DEF Post, MonitorInv
  <2>2. announced' \subseteq IF HeadIsOpen THEN announced \cup {outbox[1].ticket} ELSE announced
    BY <1>9, HeadOfOutbox DEF Post, HeadIsOpen, Typed
  <2> QED BY <1>0, <2>1, <2>2 DEF MonitorInv, OpenGoesFirst, HeadIsOpen, Settled, Kept
<1>10. CASE Record
  <2>1. outbox # <<>>
    BY <1>10 DEF Record, Typed, MonitorTyped
  <2>2. OpenGoesFirst' /\ ~HeadIsOpen'
    <3>1. ASSUME NEW i \in DOMAIN outbox' PROVE outbox'[i].type # "OPEN"
      <4>1. outbox' = Tail(outbox) /\ Len(outbox) \in Nat
        BY <1>10, LenProperties DEF Record, Typed, MonitorTyped
      <4>2. outbox'[i] = outbox[i + 1] /\ i + 1 \in DOMAIN outbox /\ i + 1 # 1
        BY <2>1, <3>1, <4>1, HeadOfOutbox DEF Typed
      <4> QED BY <4>2 DEF MonitorInv, OpenGoesFirst
    <3> QED BY <3>1, FirstInDomain DEF OpenGoesFirst, HeadIsOpen, Typed, MonitorTyped
  <2>3. \A u \in DOMAIN known \ DOMAIN known' : trade[u].phase = "closed"
    <3>1. Head(outbox) \in Signals /\ Truthful(Head(outbox))
      BY <2>1, HeadOfOutbox DEF SourceInv, Typed
    <3> QED BY <1>10, <3>1, AfterSendingTyped DEF Record, Truthful, Typed
  <2>4. DOMAIN known' \subseteq DOMAIN known
    BY <1>10, <2>1, HeadOfOutbox, AfterSendingTyped DEF Record, Typed
  <2>5. UNCHANGED <<scan, todo, announced, repeatable>> /\ scan # "down"
    BY <1>10, <2>1 DEF Record, MonitorInv, history
  <2> QED BY <1>0, <2>2, <2>3, <2>4, <2>5 DEF MonitorInv, Settled, Kept
<1>11. CASE EndScan
  BY <1>0, <1>11 DEF EndScan, MonitorInv, OpenGoesFirst, HeadIsOpen, Settled, Kept, history
<1>12. CASE StopMonitor
  <2>1. /\ scan' = "down" /\ outbox' = <<>>
        /\ announced' \ repeatable' \subseteq DOMAIN stateFile'
    BY <1>12 DEF StopMonitor
  <2> QED BY <2>1 DEF MonitorInv, OpenGoesFirst, HeadIsOpen, Settled, Kept
<1> QED BY <1>3, <1>4, <1>5, <1>6, <1>7, <1>8, <1>9, <1>10, <1>11, <1>12 DEF MonitorStep

LEMMA MonitorInvStep ==
    Typed /\ SourceInv /\ MonitorInv /\ [Next]_vars => MonitorInv'
<1> SUFFICES ASSUME Typed, SourceInv, MonitorInv, [Next]_vars PROVE MonitorInv'
  OBVIOUS
<1>1. Typed'
  BY TypedStep
<1>2. CASE UNCHANGED <<monitor, announced, repeatable>>
  BY <1>2, MonitorInvSource
<1>3. MonitorStep \/ StopMonitor \/ UNCHANGED <<monitor, announced, repeatable>>
  BY SourceFrame, ServerFrame, ReceiverFrame DEF Next, vars, history
<1> QED BY <1>1, <1>2, <1>3, MonitorInvMonitor

-----------------------------------------------------------------------------
(* There is one OPEN of a ticket, as long as its monitor does not repeat   *)
(* it: late on its way to the server, or the latest signal, or seen by the *)
(* receiver. The receiver keeps it out of its hands once it is in its      *)
(* list, and the list lets go of it only when another signal has taken its *)
(* place.                                                                  *)
IsOpen(m, t) == m # NoSignal /\ m.ticket = t /\ m.type = "OPEN"
OpenKey(t) == <<t, "OPEN">>
Unseen(t) ==
    /\ ~IsOpen(latest, t)
    /\ ~IsOpen(got, t)
    /\ OpenKey(t) \notin processed \cup doneFile
NoneLate(t) == \A m \in late : ~IsOpen(m, t)
OneOpen(t) ==
    /\ \A m \in late : IsOpen(m, t) => Unseen(t) /\ \A n \in late : IsOpen(n, t) => m = n
    /\ got # NoSignal /\ ~IsOpen(got, t) /\ OpenKey(t) \in processed => ~IsOpen(latest, t)
    /\ t \in dropped => /\ t \in announced
                        /\ NoneLate(t)
                        /\ ~IsOpen(latest, t)
                        /\ ~IsOpen(got, t)
TokenInv ==
    \A t \in Tickets :
        /\ t \notin announced => Unseen(t) /\ NoneLate(t)
        /\ t \notin repeatable => OneOpen(t)

(* The receiver's list, its file, and what it has in its hands.            *)
ListInv ==
    /\ poll = "down" => processed = {}
    /\ poll \in {"idle", "down"} => got = NoSignal
    /\ poll = "act" => Key(got) \notin processed
    /\ Opened(processed) \subseteq Opened(doneFile) \cup forgotten

LEMMA OpenKeyIs ==
    ASSUME NEW m \in Signals, NEW t
    PROVE  Key(m) = OpenKey(t) <=> IsOpen(m, t)
BY CopyAssumption DEF Key, OpenKey, IsOpen, Signals

LEMMA OpenedIs ==
    ASSUME NEW t \in Tickets, NEW keys
    PROVE  t \in Opened(keys) <=> OpenKey(t) \in keys
BY DEF Opened, OpenKey

LEMMA ListInvStep == Typed /\ ListInv /\ [Next]_vars => ListInv'
<1> SUFFICES ASSUME Typed, ListInv, [Next]_vars PROVE ListInv'
  OBVIOUS
<1> USE DEF ListInv
<1>1. CASE StartReceiver
  BY <1>1 DEF StartReceiver
<1>2. CASE Poll
  BY <1>2 DEF Poll, IsAlreadyProcessed, history
<1>3. CASE Act
  BY <1>3 DEF Act, history
<1>4. CASE Mark
  <2>1. \A t \in Opened(processed') : t \in Opened(doneFile') \/ t \in forgotten'
    BY <1>4 DEF Mark, Opened
  <2> QED BY <1>4, <2>1 DEF Mark
<1>5. CASE StopReceiver
  <2>1. Opened(processed') = {}
    BY <1>5 DEF StopReceiver, Opened
  <2> QED BY <1>5, <2>1 DEF StopReceiver
<1>6. CASE UNCHANGED <<receiver, forgotten>>
  BY <1>6 DEF receiver
<1>7. StartReceiver \/ Poll \/ Act \/ Mark \/ StopReceiver \/ UNCHANGED <<receiver, forgotten>>
  BY SourceFrame, MonitorFrame, ServerFrame DEF Next, vars, history, ReceiverStep
<1> QED BY <1>1, <1>2, <1>3, <1>4, <1>5, <1>6, <1>7

(* The server takes in a signal that was late or is posted for the first   *)
(* time.                                                                   *)
LEMMA ReceiveLatest ==
    ASSUME NEW m, Receive(m)
    PROVE  latest' = latest \/ latest' = m
BY DEF Receive

LEMMA TokenInvLate ==
    ASSUME Typed, TokenInv, NEW m \in late, HandleLate(m)
    PROVE  TokenInv'
<1>1. /\ UNCHANGED <<got, processed, doneFile, announced, repeatable, dropped>>
      /\ late' = late \ {m}
      /\ latest' = latest \/ latest' = m
  BY ReceiveLatest DEF HandleLate, receiver, history
<1>2. ASSUME NEW t \in Tickets, t \notin announced PROVE Unseen(t)' /\ NoneLate(t)'
  BY <1>1, <1>2 DEF TokenInv, Unseen, NoneLate, OpenKey, IsOpen
<1>3. ASSUME NEW t \in Tickets, t \notin repeatable PROVE OneOpen(t)'
  <2>1. OneOpen(t)
    BY <1>3 DEF TokenInv
  <2>2. CASE IsOpen(m, t)
    <3>1. Unseen(t) /\ NoneLate(t)' /\ t \notin dropped
      BY <1>1, <2>1, <2>2 DEF OneOpen, NoneLate, IsOpen
    <3> QED BY <1>1, <3>1 DEF OneOpen, NoneLate, Unseen, OpenKey, IsOpen
  <2>3. CASE ~IsOpen(m, t)
    <3>1. IsOpen(latest', t) => IsOpen(latest, t)
      BY <1>1, <2>3
    <3> QED BY <1>1, <2>1, <3>1 DEF OneOpen, NoneLate, Unseen, OpenKey, IsOpen
  <2> QED BY <2>2, <2>3
<1> QED BY <1>1, <1>2, <1>3 DEF TokenInv

LEMMA TokenInvPost ==
    ASSUME Typed, MonitorInv, TokenInv, Post
    PROVE  TokenInv'
<1> DEFINE m == Head(outbox)
<1>1. /\ m \in Signals /\ m = outbox[1] /\ outbox # <<>> /\ ~posted
  BY HeadOfOutbox DEF Post, Typed
<1> HIDE DEF m
<1>2. /\ UNCHANGED <<got, processed, doneFile, repeatable, dropped>>
      /\ announced' = IF m.type = "OPEN" THEN announced \cup {m.ticket} ELSE announced
      /\ \/ late' = late /\ latest' \in {latest, m}
         \/ late' = late \cup {m} /\ latest' = latest
  <2>1. \/ Receive(m) /\ UNCHANGED late
        \/ UNCHANGED server
        \/ late' = late \cup {m} /\ UNCHANGED latest
    BY DEF Post, m
  <2>2. /\ UNCHANGED <<receiver, repeatable, dropped>>
        /\ announced' = IF m.type = "OPEN" THEN announced \cup {m.ticket} ELSE announced
    BY DEF Post, m
  <2> QED BY <2>1, <2>2, ReceiveLatest DEF receiver, server
<1>3. ASSUME NEW t \in Tickets, t \notin announced' PROVE Unseen(t)' /\ NoneLate(t)'
  <2>1. Unseen(t) /\ NoneLate(t) /\ ~IsOpen(m, t)
    BY <1>2, <1>3 DEF TokenInv, IsOpen
  <2> QED BY <1>2, <2>1 DEF Unseen, NoneLate, OpenKey, IsOpen
<1>4. ASSUME NEW t \in Tickets, t \notin repeatable PROVE OneOpen(t)'
  <2>1. OneOpen(t)
    BY <1>4 DEF TokenInv
  <2>2. CASE IsOpen(m, t)
    <3>1. t \notin announced
      BY <1>1, <1>4, <2>2 DEF MonitorInv, HeadIsOpen, Settled, IsOpen
    <3>2. Unseen(t) /\ NoneLate(t) /\ t \notin dropped
      BY <2>1, <3>1 DEF TokenInv, OneOpen
    <3>3. \A n \in late' : IsOpen(n, t) => n = m /\ latest' = latest
      BY <1>2, <3>2 DEF NoneLate
    <3> QED BY <1>2, <3>2, <3>3 DEF OneOpen, NoneLate, Unseen, OpenKey, IsOpen
  <2>3. CASE ~IsOpen(m, t)
    <3>1. /\ IsOpen(latest', t) => IsOpen(latest, t)
          /\ \A n \in late' : IsOpen(n, t) => n \in late
          /\ announced \subseteq announced'
      BY <1>2, <2>3
    <3> QED BY <1>2, <2>1, <3>1 DEF OneOpen, NoneLate, Unseen, OpenKey, IsOpen
  <2> QED BY <2>2, <2>3
<1> QED BY <1>2, <1>3, <1>4 DEF TokenInv

LEMMA TokenInvReceiver ==
    ASSUME Typed, ListInv, TokenInv, ReceiverStep \/ StopReceiver
    PROVE  TokenInv'
<1>0. UNCHANGED <<late, latest, announced, repeatable>>
  BY ReceiverFrame
<1>1. \A t : ~IsOpen(NoSignal, t)
  BY DEF IsOpen
<1>2. CASE StartReceiver
  <2>1. /\ got = NoSignal
        /\ UNCHANGED <<got, doneFile, dropped>>
        /\ processed' \subseteq doneFile
    BY <1>2 DEF StartReceiver, ListInv
  <2>2. ASSUME NEW t \in Tickets
        PROVE  (Unseen(t) => Unseen(t)') /\ (NoneLate(t) => NoneLate(t)')
    BY <1>0, <2>1 DEF Unseen, NoneLate, IsOpen, OpenKey
  <2>3. ASSUME NEW t \in Tickets, OneOpen(t) PROVE OneOpen(t)'
    <3>1. \A m \in late : IsOpen(m, t)
                => Unseen(t)' /\ \A n \in late : IsOpen(n, t) => m = n
      BY <2>2, <2>3 DEF OneOpen
    <3>2. (got # NoSignal)' = FALSE
      BY <2>1
    <3> QED BY <1>0, <2>1, <2>3, <3>1, <3>2 DEF OneOpen, NoneLate, IsOpen
  <2> QED BY <1>0, <2>2, <2>3 DEF TokenInv
<1>3. CASE Poll
  <2>1. got' = latest /\ UNCHANGED <<processed, doneFile, dropped>>
    BY <1>3 DEF Poll, history
  <2> QED BY <1>0, <2>1 DEF TokenInv, OneOpen, Unseen, NoneLate, IsOpen, OpenKey
<1>4. CASE Act
  <2>1. UNCHANGED <<got, processed, doneFile, dropped>>
    BY <1>4 DEF Act, history
  <2> QED BY <1>0, <2>1 DEF TokenInv, OneOpen, Unseen, NoneLate, IsOpen, OpenKey
<1>5. CASE Mark
  <2>1. got \in Signals /\ got # NoSignal /\ got' = NoSignal
    BY <1>5 DEF Mark, Typed, ReceiverTyped
  <2>2. \A t : OpenKey(t) \in processed' \cup doneFile'
                  => OpenKey(t) \in processed \cup doneFile \/ IsOpen(got, t)
    BY <1>5, <2>1, OpenKeyIs DEF Mark, AfterCleanup
  <2>3. \A t \in Tickets : Unseen(t) => Unseen(t)'
    BY <1>0, <1>1, <2>1, <2>2 DEF Unseen, IsOpen, OpenKey
  <2>4. ASSUME NEW t \in Tickets, t \in dropped' \ dropped
        PROVE  OpenKey(t) \in processed /\ ~IsOpen(got, t)
    BY <1>5, <2>1, <2>4, OpenKeyIs, OpenedIs DEF Mark
  <2>5. ASSUME NEW t \in Tickets, t \notin announced PROVE Unseen(t)' /\ NoneLate(t)'
    BY <1>0, <2>3, <2>5 DEF TokenInv, NoneLate, IsOpen
  <2>6. ASSUME NEW t \in Tickets, t \notin repeatable PROVE OneOpen(t)'
    <3>1. OneOpen(t)
      BY <2>6 DEF TokenInv
    <3>2. CASE t \in dropped' \ dropped
      <4>1. OpenKey(t) \in processed /\ ~IsOpen(got, t)
        BY <2>4, <3>2
      <4>2. t \in announced /\ NoneLate(t) /\ ~IsOpen(latest, t)
        BY <2>1, <3>1, <4>1 DEF TokenInv, OneOpen, Unseen, NoneLate
      <4> QED BY <1>0, <1>1, <2>1, <4>2 DEF OneOpen, NoneLate, IsOpen
    <3>3. CASE t \notin dropped' \ dropped
      BY <1>0, <1>1, <2>1, <2>3, <3>1, <3>3 DEF OneOpen, NoneLate, IsOpen
    <3> QED BY <3>2, <3>3
  <2> QED BY <1>0, <2>5, <2>6 DEF TokenInv
<1>6. CASE StopReceiver
  <2>1. got' = NoSignal /\ processed' = {} /\ UNCHANGED dropped
    BY <1>6 DEF StopReceiver
  <2>2. \A t : OpenKey(t) \in doneFile' => OpenKey(t) \in processed \cup doneFile \/ IsOpen(got, t)
    BY <1>6, OpenKeyIs DEF StopReceiver, ActedOn, Typed, ReceiverTyped
  <2>3. \A t \in Tickets : Unseen(t) => Unseen(t)'
    BY <1>0, <1>1, <2>1, <2>2 DEF Unseen, IsOpen, OpenKey
  <2> QED BY <1>0, <1>1, <2>1, <2>3 DEF TokenInv, OneOpen, NoneLate, IsOpen
<1> QED BY <1>2, <1>3, <1>4, <1>5, <1>6 DEF ReceiverStep

LEMMA TokenInvStep ==
    Typed /\ MonitorInv /\ ListInv /\ TokenInv /\ [Next]_vars => TokenInv'
<1> SUFFICES ASSUME Typed, MonitorInv, ListInv, TokenInv, [Next]_vars PROVE TokenInv'
  OBVIOUS
<1>1. CASE UNCHANGED <<late, latest, got, processed, doneFile, announced, dropped>>
           /\ repeatable \subseteq repeatable'
  BY <1>1 DEF TokenInv, OneOpen, Unseen, NoneLate, IsOpen, OpenKey
<1>2. CASE (MonitorStep \/ StopMonitor) /\ ~Post
  <2>1. repeatable \subseteq repeatable'
    BY <1>2 DEF MonitorStep, StartMonitor, BeginScan, LookAtOpen, LookAtClosed, LookAtNew,
                BeginNew, Record, EndScan, StopMonitor, history
  <2> QED BY <1>1, <1>2, <2>1, MonitorFrame DEF server, receiver
<1>3. CASE UNCHANGED <<server, receiver, history>>
  BY <1>1, <1>3 DEF server, receiver, history
<1> QED BY <1>2, <1>3, SourceFrame, TokenInvPost, TokenInvLate, TokenInvReceiver DEF Next, vars

-----------------------------------------------------------------------------
(* A receiver that has not lost its list knows what it has copied until    *)
(* the list lets go of it, and copies it once.                             *)
Remembered(t) ==
    IF poll = "down" THEN OpenKey(t) \in doneFile
    ELSE OpenKey(t) \in processed \/ (poll = "mark" /\ IsOpen(got, t))
CopiesRemembered ==
    \A t \in Tickets \ forgotten, i \in DOMAIN copies :
        copies[i].ticket = t => t \in dropped \/ Remembered(t)
OneCopyEach ==
    \A t \in Tickets \ (forgotten \cup (repeatable \cap dropped)), i, k \in DOMAIN copies :
        copies[i].ticket = t /\ copies[k].ticket = t => i = k
CopiesInv == CopiesRemembered /\ OneCopyEach

LEMMA CopiesInvAct ==
    ASSUME Typed, ListInv, TokenInv, CopiesInv, Act
    PROVE  CopiesInv'
<1> USE DEF CopiesInv
<1>1. /\ poll = "act" /\ poll' = "mark" /\ got \in Signals /\ got # NoSignal
      /\ UNCHANGED <<got, processed, doneFile, forgotten, repeatable, dropped>>
  BY DEF Act, history, Typed, ReceiverTyped
<1>2. \A t : Remembered(t) => Remembered(t)'
  BY <1>1 DEF Remembered, IsOpen, OpenKey
<1>3. CASE UNCHANGED copies
  BY <1>1, <1>2, <1>3 DEF CopiesRemembered, OneCopyEach
<1>4. CASE copies' = Traded(got) /\ got.type # "OPEN"
  <2>1. /\ DOMAIN copies' = DOMAIN copies
        /\ \A i \in DOMAIN copies : copies'[i].ticket = copies[i].ticket
    BY <1>1, <1>4, TradedChange DEF Typed
  <2> QED BY <1>1, <1>2, <2>1 DEF CopiesRemembered, OneCopyEach
<1>5. CASE copies' = Traded(got) /\ got.type = "OPEN"
  <2> DEFINE new == Len(copies) + 1
  <2>1. /\ DOMAIN copies' = DOMAIN copies \cup {new}
        /\ new \notin DOMAIN copies
        /\ \A i \in DOMAIN copies : copies'[i] = copies[i]
        /\ copies'[new].ticket = got.ticket
    BY <1>1, <1>5, TradedOpen DEF Typed
  <2> HIDE DEF new
  <2>2. IsOpen(got, got.ticket) /\ got.ticket \in Tickets
    BY <1>1, <1>5 DEF IsOpen, Signals
  <2>3. Remembered(got.ticket)'
    BY <1>1, <2>2 DEF Remembered, IsOpen
  <2>4. CopiesRemembered'
    BY <1>1, <1>2, <2>1, <2>3 DEF CopiesRemembered
  (* Its key is not in the list: a copy of it that was already there would *)
  (* be one the list has let go of.                                        *)
  <2>5. ASSUME got.ticket \notin forgotten \cup (repeatable \cap dropped), NEW i \in DOMAIN copies
        PROVE  copies[i].ticket # got.ticket
    <3>1. ~Remembered(got.ticket)
      BY <1>1, <2>2, OpenKeyIs DEF Remembered, ListInv
    <3>2. got.ticket \notin dropped
      BY <2>2, <2>5 DEF TokenInv, OneOpen
    <3> QED BY <2>2, <2>5, <3>1, <3>2 DEF CopiesRemembered
  <2>6. OneCopyEach'
    BY <1>1, <2>1, <2>5 DEF OneCopyEach
  <2> QED BY <2>4, <2>6
<1> QED BY <1>3, <1>4, <1>5 DEF Act

LEMMA CopiesInvReceiver ==
    ASSUME Typed, ListInv, TokenInv, CopiesInv, ReceiverStep \/ StopReceiver
    PROVE  CopiesInv'
<1> SUFFICES ASSUME ~Act PROVE CopiesInv'
  BY CopiesInvAct
<1>1. UNCHANGED <<copies, repeatable>> /\ forgotten \subseteq forgotten' /\ dropped \subseteq dropped'
  BY DEF ReceiverStep, StartReceiver, Poll, Mark, StopReceiver, history
<1>2. OneCopyEach'
  BY <1>1 DEF CopiesInv, OneCopyEach
<1>3. ASSUME NEW t \in Tickets, Remembered(t)
      PROVE  t \in forgotten' \/ t \in dropped' \/ Remembered(t)'
  <2>1. CASE StartReceiver
    <3>1. OpenKey(t) \in doneFile /\ poll' = "idle"
      BY <1>3, <2>1 DEF StartReceiver, Remembered
    <3> QED BY <2>1, <3>1, OpenedIs DEF StartReceiver, Remembered, OpenKey, IsOpen
  <2>2. CASE Poll
    BY <1>3, <2>2 DEF Poll, Remembered, OpenKey, IsOpen
  <2>3. CASE Mark
    <3>1. got \in Signals /\ poll = "mark" /\ poll' = "idle"
      BY <2>3 DEF Mark, Typed, ReceiverTyped
    <3>2. OpenKey(t) \in processed \cup {Key(got)}
      BY <1>3, <3>1, OpenKeyIs DEF Remembered
    <3>3. OpenKey(t) \in processed' \/ t \in dropped'
      BY <2>3, <3>2, OpenedIs DEF Mark, AfterCleanup
    <3> QED BY <3>1, <3>3 DEF Remembered, OpenKey, IsOpen
  <2>4. CASE StopReceiver
    <3>1. poll' = "down" /\ poll # "down"
      BY <2>4 DEF StopReceiver
    <3>2. CASE poll = "mark"
      <4>1. got \in Signals
        BY <3>2 DEF Typed, ReceiverTyped
      <4>2. OpenKey(t) \in ActedOn
        BY <1>3, <3>2, <4>1, OpenKeyIs DEF Remembered, ActedOn
      <4>3. OpenKey(t) \in doneFile' \/ t \in forgotten'
        BY <2>4, <3>2, <4>2, OpenedIs DEF StopReceiver
      <4> QED BY <3>1, <4>3 DEF Remembered, OpenKey
    <3>3. CASE poll # "mark"
      <4>1. OpenKey(t) \in processed /\ UNCHANGED <<doneFile, forgotten>>
        BY <1>3, <2>4, <3>1, <3>3 DEF StopReceiver, Remembered
      <4>2. OpenKey(t) \in doneFile \/ t \in forgotten
        BY <4>1, OpenedIs DEF ListInv
      <4> QED BY <3>1, <4>1, <4>2 DEF Remembered, OpenKey
    <3> QED BY <3>2, <3>3
  <2> QED BY <2>1, <2>2, <2>3, <2>4 DEF ReceiverStep
<1>4. CopiesRemembered'
  BY <1>1, <1>3 DEF CopiesInv, CopiesRemembered
<1> QED BY <1>2, <1>4 DEF CopiesInv

LEMMA CopiesInvStep ==
    Typed /\ ListInv /\ TokenInv /\ CopiesInv /\ [Next]_vars => CopiesInv'
<1> SUFFICES ASSUME Typed, ListInv, TokenInv, CopiesInv, [Next]_vars PROVE CopiesInv'
  OBVIOUS
<1>1. CASE UNCHANGED <<receiver, forgotten, dropped>> /\ repeatable \subseteq repeatable'
  BY <1>1 DEF receiver, CopiesInv, CopiesRemembered, OneCopyEach, Remembered, IsOpen, OpenKey
<1>2. CASE MonitorStep \/ StopMonitor
  <2>1. repeatable \subseteq repeatable'
    BY <1>2 DEF MonitorStep, StartMonitor, BeginScan, LookAtOpen, LookAtClosed, LookAtNew,
                BeginNew, Post, Record, EndScan, StopMonitor, history
  <2> QED BY <1>1, <1>2, <2>1, MonitorFrame
<1>3. CASE UNCHANGED <<receiver, history>>
  BY <1>1, <1>3 DEF history
<1> QED BY <1>2, <1>3, SourceFrame, ServerFrame, CopiesInvReceiver DEF Next, vars

CopyInv == Typed /\ SourceInv /\ MonitorInv /\ ListInv /\ TokenInv /\ CopiesInv

LEMMA CopyInvInit == Init => CopyInv
<1> SUFFICES ASSUME Init PROVE CopyInv
  OBVIOUS
<1>1. ListInv
  BY DEF Init, ListInv, Opened
<1>2. TokenInv
  BY DEF Init, TokenInv, OneOpen, Unseen, NoneLate, IsOpen
<1>3. CopiesInv
  BY DEF Init, CopiesInv, CopiesRemembered, OneCopyEach
<1> QED BY <1>1, <1>2, <1>3, TypedInit, SourceInvInit, MonitorInvInit DEF CopyInv

LEMMA CopyInvStep == CopyInv /\ [Next]_vars => CopyInv'
BY TypedStep, SourceInvStep, MonitorInvStep, ListInvStep, TokenInvStep, CopiesInvStep DEF CopyInv

LEMMA CopyInvCopiedOnce == CopyInv => CopiedOnce
<1> SUFFICES ASSUME CopyInv, NEW t \in Tickets \ (forgotten \cup (repeatable \cap dropped))
             PROVE  Cardinality({i \in DOMAIN copies : copies[i].ticket = t}) <= 1
  BY DEF CopiedOnce
<1> DEFINE C == {i \in DOMAIN copies : copies[i].ticket = t}
<1>1. \A i, k \in C : i = k
  BY DEF CopyInv, CopiesInv, OneCopyEach
<1> HIDE DEF C
<1>2. Cardinality(C) <= 1
  <2>1. Cardinality({}) = 0 /\ \A i : Cardinality({i}) = 1
    BY FS_EmptySet, FS_Singleton
  <2>2. CASE C = {}
    BY <2>1, <2>2
  <2>3. CASE C # {}
    <3>1. PICK i : C = {i}
      BY <1>1, <2>3
    <3>2. Cardinality(C) = 1
      BY <2>1, <3>1, Zenon
    <3> QED BY <3>2
  <2> QED BY <2>2, <2>3
<1> QED BY <1>2 DEF C

(* A trade is copied once, unless the receiver lost its list with the      *)
(* trade's OPEN in it, or the monitor lost what it had announced and the   *)
(* list had let go of it.                                                  *)
THEOREM CopiesOnce == Spec => []CopiedOnce
BY CopyInvInit, CopyInvStep, CopyInvCopiedOnce, PTL DEF Spec
=============================================================================
