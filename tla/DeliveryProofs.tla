--------------------------- MODULE DeliveryProofs ---------------------------
(***************************************************************************)
(* Theorems about SignalQueue and about Delivery, which composes it with   *)
(* the handlers' loops, for any number of workers, symbols, goroutines,    *)
(* handlers, jobs, subscribers and faults. The queue comes first; the      *)
(* composition implements it, and so keeps what is proved of it.           *)
(***************************************************************************)
EXTENDS Delivery, SequenceTheorems, FiniteSetTheorems, WellFoundedInduction, TLAPS

-----------------------------------------------------------------------------
(* Facts about the list operators LPUSH and LREM are made of.              *)

(* A nonempty set of naturals has the minimum SelectInSeq looks for.       *)
LEMMA MinOfNaturals ==
    ASSUME NEW I, I \subseteq Nat, I # {}
    PROVE  Min(I) \in I
<1>1. \E x \in I : \A y \in I : ~(<<y, x>> \in OpToRel(<, Nat))
  BY NatLessThanWellFounded, WFMin
<1>2. PICK x \in I : \A y \in I : ~(<<y, x>> \in OpToRel(<, Nat))
  BY <1>1
<1>3. \A y \in I : x =< y
  <2>1. ASSUME NEW y \in I, y < x PROVE FALSE
    <3>1. y \in Nat /\ x \in Nat
      OBVIOUS
    <3>2. <<y, x>> \in OpToRel(<, Nat)
      BY <3>1, <2>1 DEF OpToRel
    <3> QED BY <3>2, <1>2
  <2> QED BY <2>1
<1> QED BY <1>3 DEF Min

(* u is list s without its k-th element, which is e.                       *)
Without(u, s, k, e) ==
    /\ s[k] = e
    /\ DOMAIN u = 1 .. Len(s) - 1
    /\ \A i \in 1 .. Len(s) - 1 : u[i] = IF i <= k - 1 THEN s[i] ELSE s[i + 1]

(* LREM 1 takes one element out of the list, or finds none.                *)
LEMMA RemoveFirstShape ==
    ASSUME NEW S, NEW s \in Seq(S), NEW e
    PROVE  /\ RemoveFirst(s, e) \in Seq(S)
           /\ \/ e \notin Range(s) /\ RemoveFirst(s, e) = s
              \/ \E k \in 1 .. Len(s) : Without(RemoveFirst(s, e), s, k, e)
<1>0. DOMAIN s = 1 .. Len(s)
  BY LenProperties
<1>1. CASE ~\E i \in 1 .. Len(s) : s[i] = e
  BY <1>0, <1>1 DEF RemoveFirst, Range
<1>2. CASE \E i \in 1 .. Len(s) : s[i] = e
  <2> DEFINE I == {i \in 1 .. Len(s) : s[i] = e}
             k == Min(I)
             l == SubSeq(s, 1, k - 1)
             r == SubSeq(s, k + 1, Len(s))
  <2>1. k \in I
    <3>1. I \subseteq Nat /\ I # {}
      BY <1>2
    <3> HIDE DEF I
    <3> QED BY <3>1, MinOfNaturals
  <2>2. RemoveFirst(s, e) = l \o r
    BY <1>2 DEF RemoveFirst, RemoveAt, SelectInSeq
  <2>3. k \in 1 .. Len(s) /\ s[k] = e /\ Len(s) \in Nat
    BY <2>1
  <2> HIDE DEF k
  <2>4. /\ l \in Seq(S)
        /\ Len(l) = k - 1
        /\ \A i \in 1 .. k - 1 : l[i] = s[i]
    BY <2>3, SubSeqProperties
  <2>5. /\ r \in Seq(S)
        /\ Len(r) = Len(s) - k
        /\ \A i \in 1 .. Len(s) - k : r[i] = s[k + i]
    BY <2>3, SubSeqProperties
  <2> HIDE DEF l, r
  <2>6. /\ l \o r \in Seq(S)
        /\ Len(l \o r) = Len(s) - 1
        /\ \A i \in 1 .. Len(s) - 1 :
              (l \o r)[i] = IF i <= k - 1 THEN s[i] ELSE s[i + 1]
    <3>1. /\ l \o r \in Seq(S)
          /\ Len(l \o r) = Len(l) + Len(r)
          /\ \A i \in 1 .. Len(l) + Len(r) :
                (l \o r)[i] = IF i <= Len(l) THEN l[i] ELSE r[i - Len(l)]
      BY <2>4, <2>5, ConcatProperties
    <3>2. ASSUME NEW i \in 1 .. Len(s) - 1
          PROVE  (l \o r)[i] = IF i <= k - 1 THEN s[i] ELSE s[i + 1]
      <4>1. CASE i <= k - 1
        <5>1. i \in 1 .. k - 1 /\ i \in 1 .. Len(l) + Len(r) /\ i <= Len(l)
          BY <4>1, <2>3, <2>4, <2>5
        <5>2. (l \o r)[i] = l[i]
          BY <5>1, <3>1
        <5>3. l[i] = s[i]
          BY <5>1, <2>4
        <5> QED BY <4>1, <5>2, <5>3
      <4>2. CASE ~(i <= k - 1)
        <5>0. Len(l) = k - 1
          BY <2>4
        <5>1. i - Len(l) \in 1 .. Len(s) - k /\ k + (i - Len(l)) = i + 1
          BY <4>2, <2>3, <5>0
        <5>2. (l \o r)[i] = r[i - Len(l)]
          <6>1. i \in 1 .. Len(l) + Len(r) /\ ~(i <= Len(l))
            BY <4>2, <2>3, <2>4, <2>5
          <6> QED BY <6>1, <3>1
        <5>3. r[i - Len(l)] = s[k + (i - Len(l))]
          BY <5>1, <2>5
        <5> QED BY <4>2, <5>1, <5>2, <5>3
      <4> QED BY <4>1, <4>2
    <3> QED BY <3>1, <3>2, <2>3, <2>4, <2>5
  <2> DEFINE u == l \o r
  <2>9. /\ u \in Seq(S)
         /\ DOMAIN u = 1 .. Len(s) - 1
         /\ DOMAIN s = 1 .. Len(s)
         /\ \A i \in 1 .. Len(s) - 1 : u[i] = IF i <= k - 1 THEN s[i] ELSE s[i + 1]
    BY <2>6, LenProperties
  <2> HIDE DEF u
  <2> QED BY <2>2, <2>3, <2>9 DEF u, Without
<1> QED BY <1>1, <1>2

(* LREM 1 takes away at most the value it is given and adds nothing.       *)
LEMMA RemoveFirstProperties ==
    ASSUME NEW S, NEW s \in Seq(S), NEW e
    PROVE  /\ RemoveFirst(s, e) \in Seq(S)
           /\ Range(RemoveFirst(s, e)) \subseteq Range(s)
           /\ \A x \in Range(s) : x # e => x \in Range(RemoveFirst(s, e))
<1> DEFINE u == RemoveFirst(s, e)
<1>1. u \in Seq(S)
  BY RemoveFirstShape
<1>2. CASE u = s
  BY <1>1, <1>2
<1>3. CASE \E k \in 1 .. Len(s) : Without(u, s, k, e)
  <2>1. PICK k \in 1 .. Len(s) : Without(u, s, k, e)
    BY <1>3
  <2> HIDE DEF u
  <2>3. Len(s) \in Nat /\ k \in 1 .. Len(s) /\ s[k] = e
    BY <2>1, LenProperties DEF Without
  <2>9. /\ DOMAIN u = 1 .. Len(s) - 1
        /\ DOMAIN s = 1 .. Len(s)
        /\ \A i \in 1 .. Len(s) - 1 : u[i] = IF i <= k - 1 THEN s[i] ELSE s[i + 1]
    BY <2>1, LenProperties DEF Without
  <2>7. Range(u) \subseteq Range(s)
    <3>1. ASSUME NEW i \in 1 .. Len(s) - 1 PROVE u[i] \in Range(s)
      <4>1. i \in DOMAIN s /\ i + 1 \in DOMAIN s
        BY <2>3, <2>9
      <4> QED BY <4>1, <2>9 DEF Range
    <3> QED BY <3>1, <2>9 DEF Range
  <2>8. ASSUME NEW x \in Range(s), x # e PROVE x \in Range(u)
    <3>1. PICK i \in 1 .. Len(s) : s[i] = x
      BY <2>9 DEF Range
    <3>2. CASE i < k
      <4>1. u[i] = x /\ i \in DOMAIN u
        BY <3>1, <3>2, <2>3, <2>9
      <4> QED BY <4>1 DEF Range
    <3>3. CASE i > k
      <4>1. i - 1 \in DOMAIN u /\ ~(i - 1 <= k - 1) /\ (i - 1) + 1 = i
        BY <3>3, <2>3, <2>9
      <4>2. u[i - 1] = x
        BY <4>1, <3>1, <2>9
      <4> QED BY <4>1, <4>2 DEF Range
    <3>4. i # k
      BY <3>1, <2>3, <2>8
    <3> QED BY <3>2, <3>3, <3>4, <2>3
  <2> QED BY <1>1, <2>7, <2>8 DEF u
<1>4. u = s \/ \E k \in 1 .. Len(s) : Without(u, s, k, e)
  BY RemoveFirstShape
<1> QED BY <1>2, <1>3, <1>4 DEF u

(* LREM, carried out once or twice, takes away at most the value it is     *)
(* given and adds nothing.                                                 *)
LEMMA RemovedProperties ==
    ASSUME NEW S, NEW s \in Seq(S), NEW e, NEW n
    PROVE  /\ Removed(s, e, n) \in Seq(S)
           /\ Range(Removed(s, e, n)) \subseteq Range(s)
           /\ \A x \in Range(s) : x # e => x \in Range(Removed(s, e, n))
<1>1. /\ RemoveFirst(s, e) \in Seq(S)
      /\ Range(RemoveFirst(s, e)) \subseteq Range(s)
      /\ \A x \in Range(s) : x # e => x \in Range(RemoveFirst(s, e))
  BY RemoveFirstProperties
<1> DEFINE t == RemoveFirst(s, e)
<1> HIDE DEF t
<1>2. t \in Seq(S) =>
        /\ RemoveFirst(t, e) \in Seq(S)
        /\ Range(RemoveFirst(t, e)) \subseteq Range(t)
        /\ \A x \in Range(t) : x # e => x \in Range(RemoveFirst(t, e))
  BY RemoveFirstProperties
<1> QED BY <1>1, <1>2 DEF Removed, t

(* LPUSH, carried out once or twice, keeps what is on the list and adds    *)
(* the value.                                                              *)
LEMMA PushedProperties ==
    ASSUME NEW S, NEW s \in Seq(S), NEW e \in S, NEW n
    PROVE  /\ Pushed(s, e, n) \in Seq(S)
           /\ Range(Pushed(s, e, n)) = Range(s) \cup {e}
<1>1. CASE n = 1
  <2>1. Append(s, e) \in Seq(S) /\ Len(Append(s, e)) = Len(s) + 1
    BY AppendProperties
  <2>2. \A i \in 1 .. Len(s) + 1 :
           Append(s, e)[i] = IF i = Len(s) + 1 THEN e ELSE s[i]
    BY AppendProperties
  <2>3. Range(Append(s, e)) = Range(s) \cup {e}
    BY <2>1, <2>2, LenProperties DEF Range
  <2> QED BY <1>1, <2>1, <2>3 DEF Pushed
<1>2. CASE n # 1
  <2>1. <<e, e>> \in Seq(S) /\ Len(<<e, e>>) = 2
        /\ <<e, e>>[1] = e /\ <<e, e>>[2] = e
    <3>1. <<e, e>> \in Seq(S)
      OBVIOUS
    <3>2. Len(<<e, e>>) = 2
      OBVIOUS
    <3>3. <<e, e>>[1] = e /\ <<e, e>>[2] = e
      OBVIOUS
    <3> QED BY <3>1, <3>2, <3>3
  <2> DEFINE twice == <<e, e>>
  <2>2. Range(twice) = {e}
    BY <2>1, LenProperties DEF Range
  <2>3. twice \in Seq(S)
    BY <2>1
  <2> HIDE DEF twice
  <2>4. s \o twice \in Seq(S)
    BY <2>3, ConcatProperties
  <2>5. Range(s \o twice) = Range(s) \cup Range(twice)
    BY <2>3, RangeConcatenation
  <2> QED BY <1>2, <2>2, <2>4, <2>5 DEF Pushed, twice
<1> QED BY <1>1, <1>2

(* BRPOPLPUSH moves the head of one list to the front of another.          *)
LEMMA MovedProperties ==
    ASSUME NEW S, NEW s \in Seq(S), s # <<>>, NEW t \in Seq(S)
    PROVE  /\ Head(s) \in S
           /\ Tail(s) \in Seq(S)
           /\ <<Head(s)>> \o t \in Seq(S)
           /\ Range(s) = {Head(s)} \cup Range(Tail(s))
           /\ Range(<<Head(s)>> \o t) = {Head(s)} \cup Range(t)
<1>1. /\ Head(s) \in S
      /\ Tail(s) \in Seq(S)
      /\ Len(Tail(s)) = Len(s) - 1
      /\ \A i \in 1 .. Len(Tail(s)) : Tail(s)[i] = s[i + 1]
      /\ Head(s) = s[1]
  BY HeadTailProperties
<1>2. Len(s) \in Nat \ {0} /\ DOMAIN s = 1 .. Len(s) /\ DOMAIN Tail(s) = 1 .. Len(s) - 1
  BY <1>1, LenProperties, EmptySeq
<1>3. Range(s) = {Head(s)} \cup Range(Tail(s))
  <2>1. ASSUME NEW i \in 1 .. Len(s) PROVE s[i] \in {Head(s)} \cup Range(Tail(s))
    <3>1. CASE i = 1
      BY <3>1, <1>1
    <3>2. CASE i # 1
      <4>1. i - 1 \in DOMAIN Tail(s) /\ Tail(s)[i - 1] = s[i]
        BY <3>2, <1>1, <1>2
      <4> QED BY <4>1 DEF Range
    <3> QED BY <3>1, <3>2
  <2>2. ASSUME NEW i \in 1 .. Len(s) - 1 PROVE Tail(s)[i] \in Range(s)
    BY <1>1, <1>2 DEF Range
  <2>3. Head(s) \in Range(s)
    BY <1>1, <1>2 DEF Range
  <2> QED BY <2>1, <2>2, <2>3, <1>2 DEF Range
<1>4. <<Head(s)>> \in Seq(S) /\ Len(<<Head(s)>>) = 1 /\ <<Head(s)>>[1] = Head(s)
  BY <1>1
<1>5. /\ <<Head(s)>> \o t \in Seq(S)
      /\ Len(<<Head(s)>> \o t) = Len(t) + 1
      /\ \A i \in 1 .. Len(t) + 1 :
            (<<Head(s)>> \o t)[i] = IF i = 1 THEN Head(s) ELSE t[i - 1]
  BY <1>4, ConcatProperties, LenProperties
<1>6. Range(<<Head(s)>> \o t) = {Head(s)} \cup Range(t)
  <2> DEFINE u == <<Head(s)>> \o t
  <2> HIDE DEF u
  <2>1. DOMAIN u = 1 .. Len(t) + 1 /\ DOMAIN t = 1 .. Len(t) /\ Len(t) \in Nat
    BY <1>5, LenProperties DEF u
  <2>2. \A i \in DOMAIN u : u[i] \in {Head(s)} \cup Range(t)
    BY <1>5, <2>1 DEF u, Range
  <2>3. \A i \in DOMAIN t : u[i + 1] = t[i] /\ i + 1 \in DOMAIN u
    BY <1>5, <2>1 DEF u
  <2>4. 1 \in DOMAIN u /\ u[1] = Head(s)
    BY <1>5, <2>1 DEF u
  <2>5. Range(u) \subseteq {Head(s)} \cup Range(t)
    BY <2>2 DEF Range
  <2>6. Head(s) \in Range(u) /\ Range(t) \subseteq Range(u)
    BY <2>3, <2>4 DEF Range
  <2> QED BY <2>5, <2>6 DEF u
<1> QED BY <1>1, <1>3, <1>5, <1>6
-----------------------------------------------------------------------------
(* Type correctness.                                                       *)

(* A goroutine belongs to a worker and to a symbol.                        *)
LEMMA ConsumerParts ==
    \A c \in Consumers : c[1] \in Workers /\ Sym(c) \in Symbols
BY DEF Consumers, Sym

(* A job is a symbol and its position in the order of that symbol's        *)
(* signals.                                                                *)
LEMMA JobParts ==
    /\ \A j \in Jobs : j[1] \in Symbols /\ j[2] \in 1 .. MaxJobs
    /\ \A s \in Symbols, n \in 1 .. MaxJobs :
          <<s, n>> \in Jobs /\ <<s, n>>[1] = s /\ <<s, n>>[2] = n
BY DEF Jobs

(* Marshalling a job, or bytes, yields a payload; of bytes, one of the     *)
(* same job.                                                               *)
LEMMA MarshalTypes ==
    /\ \A j \in Jobs, a \in Nat : MarshalJob(j, a) \in Payload
    /\ \A p \in Payload : MarshalBytes(p) \in Payload /\ MarshalBytes(p).job = p.job
BY DEF MarshalJob, MarshalBytes, Payload

(* LPUSH keeps the type of the queues.                                     *)
LEMMA LPushType ==
    ASSUME NEW s \in Symbols, NEW p \in Payload, NEW n,
           queue \in [Symbols -> Seq(Payload)], LPush(s, p, n)
    PROVE  queue' \in [Symbols -> Seq(Payload)]
<1>1. Pushed(queue[s], p, n) \in Seq(Payload)
  BY PushedProperties
<1> QED BY <1>1 DEF LPush

(* LREM keeps the type of the processing lists.                            *)
LEMMA LRemType ==
    ASSUME NEW s \in Symbols, NEW p, NEW n,
           processing \in [Symbols -> Seq(Payload)], LRem(s, p, n)
    PROVE  processing' \in [Symbols -> Seq(Payload)]
<1>1. Removed(processing[s], p, n) \in Seq(Payload)
  BY RemovedProperties
<1> QED BY <1>1 DEF LRem

(* The count of faults stays within its bound.                             *)
LEMMA FaultType ==
    ASSUME faults \in 0 .. MaxFaults, Fault \/ NoFault
    PROVE  faults' \in 0 .. MaxFaults
BY QueueAssumption DEF Fault, NoFault

(* A command costs a fault when it is carried out twice, and nothing else. *)
LEMMA SentType == \A n : Sent(n) => Fault \/ NoFault
BY DEF Sent

(* Idle keeps the types of the goroutine variables.                        *)
LEMMA IdleType ==
    ASSUME TypeOK, NEW c \in Consumers, Idle(c)
    PROVE  /\ pc' \in [Consumers -> {"off", "polling", "handling", "backoff", "record"}]
           /\ live' \in [Consumers -> BOOLEAN]
           /\ raw' \in [Consumers -> Payload \cup {NoRaw}]
           /\ at' \in [Consumers -> 1 .. NumHandlers + 1]
           /\ failed' \in [Consumers -> BOOLEAN]
           /\ \A d \in Consumers :
                 pc'[d] \in {"handling", "backoff", "record"} => raw'[d] \in Payload
BY QueueAssumption DEF TypeOK, Idle

(* AckJob, carried out or refused, keeps the types of what it may change.  *)
LEMMA AckType ==
    ASSUME TypeOK, NEW c \in Consumers, AckJob(c)
    PROVE  /\ processing' \in [Symbols -> Seq(Payload)]
           /\ faults' \in 0 .. MaxFaults
<1>1. CASE live[c] /\ \E n \in Sends : LRem(Sym(c), raw[c], n) /\ Sent(n)
  <2>1. PICK n \in Sends : LRem(Sym(c), raw[c], n) /\ Sent(n)
    BY <1>1
  <2> QED BY <2>1, ConsumerParts, LRemType, FaultType, SentType DEF TypeOK
<1>2. CASE Refused(c) /\ UNCHANGED processing
  <2>1. Fault \/ NoFault
    BY <1>2 DEF Refused
  <2> QED BY <1>2, <2>1, FaultType DEF TypeOK
<1> QED BY <1>1, <1>2 DEF AckJob

(* A delivery is counted, and no count goes down.                          *)
LEMMA ReachProperties ==
    ASSUME delivered \in [Jobs -> [Handlers -> 0 .. 2]],
           NEW j \in Jobs, NEW h \in Handlers, Reach(j, h)
    PROVE  /\ delivered' \in [Jobs -> [Handlers -> 0 .. 2]]
           /\ delivered'[j][h] > 0
           /\ \A i \in Jobs, g \in Handlers :
                 delivered[i][g] > 0 => delivered'[i][g] > 0
<1> DEFINE counts == [delivered[j] EXCEPT ![h] = IF @ < 2 THEN @ + 1 ELSE @]
<1>1. delivered[j] \in [Handlers -> 0 .. 2] /\ delivered[j][h] \in 0 .. 2
  OBVIOUS
<1>2. /\ counts \in [Handlers -> 0 .. 2]
      /\ counts[h] > 0
      /\ \A g \in Handlers : delivered[j][g] > 0 => counts[g] > 0
  BY <1>1
<1>3. delivered' = [delivered EXCEPT ![j] = counts]
  BY DEF Reach
<1> HIDE DEF counts
<1> QED BY <1>2, <1>3

(* The initial state is well-typed.                                        *)
LEMMA InitType == Init => TypeOK
<1>1. <<>> \in Seq(Payload)
  OBVIOUS
<1> QED BY <1>1, QueueAssumption DEF Init, TypeOK
(* Every step of Next keeps the types of all variables.                    *)
LEMMA NextType ==
    ASSUME TypeOK, [Next]_vars
    PROVE  TypeOK'
<1> USE QueueAssumption
<1>1. ASSUME NEW s \in Symbols, Enqueue(s) PROVE TypeOK'
  <2>1. PICK n \in Sends : LPush(s, MarshalJob(<<s, sent[s] + 1>>, 0), n) /\ Sent(n)
    BY <1>1 DEF Enqueue
  <2>2. sent[s] + 1 \in 1 .. MaxJobs
    BY <1>1 DEF Enqueue, TypeOK
  <2>3. MarshalJob(<<s, sent[s] + 1>>, 0) \in Payload
    BY <2>2, JobParts, MarshalTypes
  <2>4. queue' \in [Symbols -> Seq(Payload)]
    BY <2>1, <2>3, LPushType DEF TypeOK
  <2>5. faults' \in 0 .. MaxFaults
    BY <2>1, SentType, FaultType DEF TypeOK
  <2>6. sent' \in [Symbols -> 0 .. MaxJobs]
    BY <1>1, <2>2 DEF Enqueue, TypeOK
  <2> QED BY <1>1, <2>4, <2>5, <2>6 DEF Enqueue, TypeOK, goroutine, cleanup, history
<1>2. ASSUME NEW j \in Jobs, Age(j) PROVE TypeOK'
  BY <1>2 DEF Age, TypeOK, redis, goroutine, history
<1>3. ASSUME NEW c \in Consumers, Start(c) PROVE TypeOK'
  BY <1>3, ConsumerParts DEF Start, TypeOK, redis, history
<1>4. ASSUME NEW c \in Consumers, Cancel(c) PROVE TypeOK'
  BY <1>4, FaultType DEF Cancel, TypeOK, redis, cleanup, history
<1>5. ASSUME NEW c \in Consumers, NEW reply \in BOOLEAN, Dequeue(c, reply) PROVE TypeOK'
  <2> DEFINE s == Sym(c)
  <2>1. s \in Symbols /\ queue[s] # <<>>
    BY <1>5, ConsumerParts DEF Dequeue
  <2>2. /\ Head(queue[s]) \in Payload
        /\ Tail(queue[s]) \in Seq(Payload)
        /\ <<Head(queue[s])>> \o processing[s] \in Seq(Payload)
    BY <2>1, MovedProperties DEF TypeOK
  <2>3. /\ queue' \in [Symbols -> Seq(Payload)]
        /\ processing' \in [Symbols -> Seq(Payload)]
    BY <1>5, <2>2 DEF Dequeue, TypeOK
  <2>4. faults' \in 0 .. MaxFaults
    BY <1>5, FaultType DEF Dequeue, TypeOK
  <2>5. /\ pc' \in [Consumers -> {"off", "polling", "handling", "backoff", "record"}]
        /\ raw' \in [Consumers -> Payload \cup {NoRaw}]
        /\ \A d \in Consumers :
              pc'[d] \in {"handling", "backoff", "record"} => raw'[d] \in Payload
    <3>1. CASE UNCHANGED <<pc, raw>>
      BY <3>1 DEF TypeOK
    <3>2. CASE /\ pc' = [pc EXCEPT ![c] = "handling"]
               /\ raw' = [raw EXCEPT ![c] = Head(queue[s])]
      BY <2>2, <3>2 DEF TypeOK
    <3> QED BY <1>5, <3>1, <3>2 DEF Dequeue
  <2>6. UNCHANGED <<deadLetter, deadRows, sent, live, at, failed, cleanup, history>>
    BY <1>5 DEF Dequeue
  <2> QED BY <2>3, <2>4, <2>5, <2>6 DEF TypeOK, cleanup, history
<1>6. ASSUME NEW c \in Consumers, Return(c) \/ AbandonRetry(c) PROVE TypeOK'
  <2>1. Idle(c)
    BY <1>6 DEF Return, AbandonRetry
  <2> QED BY <1>6, <2>1, IdleType DEF Return, AbandonRetry, TypeOK, redis, cleanup, history
<1>7. ASSUME NEW c \in Consumers, DiscardMalformed(c) \/ AckDelivered(c) PROVE TypeOK'
  <2>1. Idle(c) /\ AckJob(c)
    BY <1>7 DEF DiscardMalformed, AckDelivered
  <2> QED BY <1>7, <2>1, IdleType, AckType
          DEF DiscardMalformed, AckDelivered, TypeOK, cleanup, history
<1>8. ASSUME NEW c \in Consumers, HandlerOk(c) PROVE TypeOK'
  <2>1. raw[c].job \in Jobs /\ at[c] \in Handlers
    BY <1>8 DEF HandlerOk, Running, TypeOK, Payload, Handlers
  <2>2. delivered' \in [Jobs -> [Handlers -> 0 .. 2]]
    BY <1>8, <2>1, ReachProperties DEF HandlerOk, TypeOK
  <2>3. at' \in [Consumers -> 1 .. NumHandlers + 1]
    BY <1>8 DEF HandlerOk, Running, TypeOK
  <2> QED BY <1>8, <2>2, <2>3 DEF HandlerOk, TypeOK, redis, cleanup
<1>9. ASSUME NEW c \in Consumers, HandlerError(c) PROVE TypeOK'
  <2>1. raw[c].job \in Jobs /\ at[c] \in Handlers
    BY <1>9 DEF HandlerError, Running, TypeOK, Payload, Handlers
  <2>2. delivered' \in [Jobs -> [Handlers -> 0 .. 2]] /\ erred' \subseteq Jobs
    BY <1>9, <2>1, ReachProperties DEF HandlerError, TypeOK, history
  <2>3. /\ at' \in [Consumers -> 1 .. NumHandlers + 1]
        /\ failed' \in [Consumers -> BOOLEAN]
    BY <1>9 DEF HandlerError, Running, TypeOK
  <2> QED BY <1>9, <2>2, <2>3 DEF HandlerError, TypeOK, redis, cleanup
<1>10. ASSUME NEW c \in Consumers, AckForRetry(c) PROVE TypeOK'
  <2>1. AckJob(c)
    BY <1>10 DEF AckForRetry
  <2> QED BY <1>10, <2>1, AckType DEF AckForRetry, HandlersDone, TypeOK, cleanup, history
<1>11. ASSUME NEW c \in Consumers, Requeue(c) PROVE TypeOK'
  <2> DEFINE p == MarshalBytes(MarshalJob(raw[c].job, Attempts(c)))
  <2>1. Idle(c)
    BY <1>11 DEF Requeue
  <2>2. CASE \E n \in Sends : LPush(Sym(c), p, n) /\ Sent(n)
    <3>1. PICK n \in Sends : LPush(Sym(c), p, n) /\ Sent(n)
      BY <2>2
    <3>2. raw[c].job \in Jobs /\ Attempts(c) \in Nat
      BY <1>11 DEF Requeue, TypeOK, Payload, Attempts
    <3>3. p \in Payload
      BY <3>2, MarshalTypes
    <3> QED BY <3>1, <3>3, <1>11, <2>1, IdleType, ConsumerParts, LPushType, SentType, FaultType
            DEF Requeue, TypeOK, cleanup, history
  <2>3. CASE Fault /\ UNCHANGED queue
    BY <2>3, <1>11, <2>1, IdleType, FaultType DEF Requeue, TypeOK, cleanup, history
  <2> QED BY <1>11, <2>2, <2>3 DEF Requeue
<1>12. ASSUME NEW c \in Consumers, MoveToDeadLetter(c) PROVE TypeOK'
  <2>1. raw[c] \in Payload
    BY <1>12 DEF MoveToDeadLetter, HandlersDone, TypeOK
  <2>2. /\ processing' \in [Symbols -> Seq(Payload)]
        /\ deadLetter' \subseteq Payload
        /\ faults' \in 0 .. MaxFaults
    <3>1. CASE \E n \in Sends :
                  /\ LRem(Sym(c), raw[c], n)
                  /\ deadLetter' = deadLetter \cup {raw[c]}
                  /\ Sent(n)
      BY <3>1, <2>1, ConsumerParts, LRemType, SentType, FaultType DEF TypeOK
    <3>2. CASE Refused(c) /\ UNCHANGED <<processing, deadLetter>>
      BY <3>2, FaultType DEF Refused, TypeOK
    <3>3. CASE Fault /\ LRem(Sym(c), raw[c], 1) /\ UNCHANGED deadLetter
      BY <3>3, ConsumerParts, LRemType, FaultType DEF TypeOK
    <3> QED BY <1>12, <3>1, <3>2, <3>3 DEF MoveToDeadLetter
  <2> QED BY <1>12, <2>1, <2>2 DEF MoveToDeadLetter, TypeOK, cleanup, history
<1>13. ASSUME NEW c \in Consumers, InsertDeadLetter(c) PROVE TypeOK'
  <2>1. Idle(c)
    BY <1>13 DEF InsertDeadLetter
  <2>2. raw[c].job \in Jobs
    BY <1>13 DEF InsertDeadLetter, TypeOK, Payload
  <2>3. deadRows' \subseteq Jobs /\ faults' \in 0 .. MaxFaults
    BY <1>13, <2>2, FaultType DEF InsertDeadLetter, Refused, TypeOK
  <2> QED BY <1>13, <2>1, <2>3, IdleType DEF InsertDeadLetter, TypeOK, redis, cleanup, history
<1>14. ASSUME NEW w \in Workers, Crash(w) PROVE TypeOK'
  <2>1. <<>> \in Seq(Payload)
    OBVIOUS
  <2>2. /\ pc' \in [Consumers -> {"off", "polling", "handling", "backoff", "record"}]
        /\ live' \in [Consumers -> BOOLEAN]
        /\ raw' \in [Consumers -> Payload \cup {NoRaw}]
        /\ at' \in [Consumers -> 1 .. NumHandlers + 1]
        /\ failed' \in [Consumers -> BOOLEAN]
        /\ \A d \in Consumers :
              pc'[d] \in {"handling", "backoff", "record"} => raw'[d] \in Payload
    BY <1>14 DEF Crash, TypeOK
  <2>3. /\ known' \in [Workers -> SUBSET Symbols]
        /\ scan' \in [Workers -> Seq(Payload)]
        /\ faults' \in 0 .. MaxFaults
    BY <1>14, <2>1, FaultType DEF Crash, TypeOK
  <2> QED BY <1>14, <2>2, <2>3 DEF Crash, TypeOK, redis, history
<1>15. ASSUME NEW w \in Workers, NEW s \in Symbols, CleanupScan(w, s) PROVE TypeOK'
  BY <1>15 DEF CleanupScan, TypeOK, redis, goroutine, history
<1>16. ASSUME NEW w \in Workers, SkipFresh(w) PROVE TypeOK'
  <2>1. Tail(scan[w]) \in Seq(Payload)
    BY <1>16, MovedProperties DEF SkipFresh, TypeOK
  <2> QED BY <1>16, <2>1 DEF SkipFresh, TypeOK, redis, goroutine, history
<1>17. ASSUME NEW w \in Workers, NackStale(w) PROVE TypeOK'
  <2> DEFINE p == Head(scan[w])
             s == p.job[1]
  <2>1. p \in Payload /\ p.job \in Jobs /\ Tail(scan[w]) \in Seq(Payload)
    BY <1>17, MovedProperties DEF NackStale, TypeOK, Payload
  <2>2. s \in Symbols
    BY <2>1, JobParts DEF Payload
  <2>3. /\ processing' \in [Symbols -> Seq(Payload)]
        /\ queue' \in [Symbols -> Seq(Payload)]
        /\ faults' \in 0 .. MaxFaults
        /\ dropped' \subseteq Jobs
    <3>1. CASE \E n \in Sends :
                  LRem(s, p, n) /\ LPush(s, p, n) /\ Sent(n) /\ UNCHANGED dropped
      BY <3>1, <2>1, <2>2, LRemType, LPushType, SentType, FaultType DEF TypeOK
    <3>2. CASE Fault /\ UNCHANGED <<processing, queue, dropped>>
      BY <3>2, FaultType DEF TypeOK
    <3>3. CASE Fault /\ LRem(s, p, 1) /\ UNCHANGED queue /\ dropped' = dropped \cup {p.job}
      BY <3>3, <2>1, <2>2, LRemType, FaultType DEF TypeOK
    <3> QED BY <1>17, <3>1, <3>2, <3>3 DEF NackStale
  <2>4. scan' \in [Workers -> Seq(Payload)]
    BY <1>17, <2>1 DEF NackStale, TypeOK
  <2> QED BY <1>17, <2>3, <2>4 DEF NackStale, TypeOK, goroutine, history
<1>18. ASSUME UNCHANGED vars PROVE TypeOK'
  BY <1>18 DEF TypeOK, vars, redis, goroutine, cleanup, history
<1> QED
  BY <1>1, <1>2, <1>3, <1>4, <1>5, <1>6, <1>7, <1>8, <1>9, <1>10, <1>11, <1>12,
     <1>13, <1>14, <1>15, <1>16, <1>17, <1>18 DEF Next, ConsumerStep, QueueStep, PollTimeout

(* Every variable of the queue stays in its type in every behaviour.       *)
THEOREM TypeCorrect == Spec => []TypeOK
<1>1. Init => TypeOK
  BY InitType
<1>2. TypeOK /\ [Next]_vars => TypeOK'
  BY NextType
<1> QED BY <1>1, <1>2, PTL DEF Spec
-----------------------------------------------------------------------------
(* No job is lost before it is delivered.                                  *)

(* An undecodable payload is the retry of a job a handler failed for.      *)
RetriesErred ==
    \A s \in Symbols : \A p \in Range(queue[s]) \cup Range(processing[s]) :
        p.form = "base64" => p.job \in erred

(* What a goroutine knows about the job it holds.                          *)
HandledOrErred ==
    \A c \in Consumers :
        /\ pc[c] \in {"off", "polling"} => at[c] = 1 /\ ~failed[c]
        /\ pc[c] = "backoff" => failed[c]
        /\ pc[c] \in {"handling", "backoff"} =>
              /\ raw[c].form = "base64" => raw[c].job \in erred
              /\ live[c] /\ failed[c] => raw[c].job \in erred
              /\ live[c] /\ ~failed[c] =>
                    \A h \in Handlers : h < at[c] => delivered[raw[c].job][h] > 0

OnlyCleanersScan == \A w \in Workers : scan[w] # <<>> => w \in Cleaners

Safe == TypeOK /\ RetriesErred /\ HandledOrErred /\ OnlyCleanersScan /\ NeverLost

(* LREM of p adds nothing and touches no other job.                        *)
LEMMA LRemKeeps ==
    ASSUME TypeOK, NEW s \in Symbols, NEW p, NEW n, LRem(s, p, n)
    PROVE  /\ \A t \in Symbols : Range(processing'[t]) \subseteq Range(processing[t])
           /\ \A j \in Jobs : InProcessing(j) /\ j # p.job => InProcessing(j)'
<1>1. /\ Range(Removed(processing[s], p, n)) \subseteq Range(processing[s])
      /\ \A x \in Range(processing[s]) :
            x # p => x \in Range(Removed(processing[s], p, n))
  BY RemovedProperties DEF TypeOK
<1>2. \A t \in Symbols :
         processing'[t] = IF t = s THEN Removed(processing[s], p, n) ELSE processing[t]
  BY DEF LRem, TypeOK
<1>3. ASSUME NEW j \in Jobs, InProcessing(j), j # p.job PROVE InProcessing(j)'
  <2>1. PICK q \in Range(processing[j[1]]) : q.job = j
    BY <1>3 DEF InProcessing
  <2>2. q # p
    BY <2>1, <1>3
  <2>3. q \in Range(processing'[j[1]])
    BY <2>1, <2>2, <1>1, <1>2, JobParts
  <2> QED BY <2>1, <2>3 DEF InProcessing
<1> QED BY <1>1, <1>2, <1>3

(* LPUSH of p removes nothing from any queue, and p's job is on it         *)
(* afterwards.                                                             *)
LEMMA LPushKeeps ==
    ASSUME TypeOK, NEW s \in Symbols, NEW p \in Payload, NEW n, LPush(s, p, n)
    PROVE  /\ \A t \in Symbols : Range(queue'[t]) \subseteq Range(queue[t]) \cup {p}
           /\ \A j \in Jobs : InQueue(j) => InQueue(j)'
           /\ p.job[1] = s => InQueue(p.job)'
<1>1. Range(Pushed(queue[s], p, n)) = Range(queue[s]) \cup {p}
  BY PushedProperties DEF TypeOK
<1>2. \A t \in Symbols :
         queue'[t] = IF t = s THEN Pushed(queue[s], p, n) ELSE queue[t]
  BY DEF LPush, TypeOK
<1>3. \A j \in Jobs : InQueue(j) => InQueue(j)'
  BY <1>1, <1>2, JobParts DEF InQueue
<1>4. p.job[1] = s => InQueue(p.job)'
  BY <1>1, <1>2 DEF InQueue
<1> QED BY <1>1, <1>2, <1>3, <1>4

(* A step that neither enqueues nor takes anything back keeps NeverLost    *)
(* when it leaves every undelivered job in a list.                         *)
LEMMA StillThere ==
    ASSUME NeverLost, sent' = sent, erred \subseteq erred', dropped \subseteq dropped',
           \A j \in Jobs, h \in Handlers : delivered[j][h] > 0 => delivered'[j][h] > 0,
           \A j \in Jobs : InQueue(j) \/ InProcessing(j) =>
               InQueue(j)' \/ InProcessing(j)' \/ FullyDelivered(j) \/ j \in erred \/ j \in dropped'
    PROVE  NeverLost'
BY DEF NeverLost, Enqueued, FullyDelivered

(* The same for a step that leaves the lists alone.                        *)
LEMMA ListsUntouched ==
    ASSUME NeverLost, sent' = sent, erred \subseteq erred', dropped \subseteq dropped',
           queue' = queue, processing' = processing,
           \A j \in Jobs, h \in Handlers : delivered[j][h] > 0 => delivered'[j][h] > 0
    PROVE  NeverLost'
BY StillThere DEF InQueue, InProcessing

(* A step that brings no new undecodable payload keeps RetriesErred.       *)
LEMMA RetriesErredKept ==
    ASSUME TypeOK, RetriesErred, erred \subseteq erred',
           \A s \in Symbols : \A p \in Range(queue'[s]) \cup Range(processing'[s]) :
              \/ \E t \in Symbols : p \in Range(queue[t]) \cup Range(processing[t])
              \/ p.form = "base64" => p.job \in erred
    PROVE  RetriesErred'
BY DEF RetriesErred

(* AckJob of a job that needs no further delivery.                         *)
LEMMA AckKeeps ==
    ASSUME TypeOK, RetriesErred, NeverLost, NEW c \in Consumers, AckJob(c),
           UNCHANGED <<queue, sent, delivered, erred, dropped>>,
           live[c] => raw[c].job \in erred \/ FullyDelivered(raw[c].job)
    PROVE  RetriesErred' /\ NeverLost'
<1>1. CASE UNCHANGED processing
  BY <1>1, ListsUntouched DEF RetriesErred
<1>2. CASE live[c] /\ \E n \in Sends : LRem(Sym(c), raw[c], n)
  <2>1. PICK n \in Sends : LRem(Sym(c), raw[c], n)
    BY <1>2
  <2>2. /\ \A t \in Symbols : Range(processing'[t]) \subseteq Range(processing[t])
        /\ \A j \in Jobs : InProcessing(j) /\ j # raw[c].job => InProcessing(j)'
    BY <2>1, LRemKeeps, ConsumerParts
  <2>3. RetriesErred'
    BY <2>2 DEF RetriesErred
  <2>4. \A j \in Jobs : InQueue(j) => InQueue(j)'
    BY DEF InQueue
  <2>5. NeverLost'
    BY <1>2, <2>2, <2>4, StillThere
  <2> QED BY <2>3, <2>5
<1> QED BY <1>1, <1>2 DEF AckJob

(* A step that is not about goroutine c's job leaves its facts true.       *)
LEMMA OthersHandled ==
    ASSUME HandledOrErred, erred \subseteq erred', NEW c \in Consumers,
           pc'[c] = pc[c], raw'[c] = raw[c], at'[c] = at[c], failed'[c] = failed[c],
           live'[c] => live[c],
           raw[c] \in Payload \/ pc[c] \in {"off", "polling", "record"},
           \A j \in Jobs, h \in Handlers : delivered[j][h] > 0 => delivered'[j][h] > 0
    PROVE  /\ pc'[c] \in {"off", "polling"} => at'[c] = 1 /\ ~failed'[c]
           /\ pc'[c] = "backoff" => failed'[c]
           /\ pc'[c] \in {"handling", "backoff"} =>
                 /\ raw'[c].form = "base64" => raw'[c].job \in erred'
                 /\ live'[c] /\ failed'[c] => raw'[c].job \in erred'
                 /\ live'[c] /\ ~failed'[c] =>
                       \A h \in Handlers : h < at'[c] => delivered'[raw'[c].job][h] > 0
BY DEF HandledOrErred, Payload

(* A goroutine that goes idle, or a step that changes no goroutine.        *)
LEMMA IdleHandled ==
    ASSUME TypeOK, HandledOrErred, NEW c \in Consumers, Idle(c), UNCHANGED history
    PROVE  HandledOrErred'
BY DEF TypeOK, HandledOrErred, Idle, history

(* Every step keeps what a goroutine knows about the job it holds.         *)
LEMMA NextHandled ==
    ASSUME Safe, [Next]_vars
    PROVE  HandledOrErred'
<1> USE DEF Safe
<1>1. ASSUME UNCHANGED <<goroutine, delivered, erred>> PROVE HandledOrErred'
  BY <1>1 DEF HandledOrErred, goroutine
<1>2. ASSUME NEW c \in Consumers, Start(c) PROVE HandledOrErred'
  BY <1>2 DEF Start, TypeOK, HandledOrErred, history
<1>3. ASSUME NEW c \in Consumers, Cancel(c) PROVE HandledOrErred'
  BY <1>3 DEF Cancel, TypeOK, HandledOrErred, history
<1>4. ASSUME NEW c \in Consumers, NEW reply \in BOOLEAN, Dequeue(c, reply)
      PROVE  HandledOrErred'
  <2>1. CASE ~reply
    BY <1>4, <2>1 DEF Dequeue, HandledOrErred, history
  <2>2. CASE reply
    <3> DEFINE p == Head(queue[Sym(c)])
    <3>1. p \in Range(queue[Sym(c)])
      BY <1>4, MovedProperties, ConsumerParts DEF Dequeue, TypeOK
    <3>2. p.form = "base64" => p.job \in erred
      BY <3>1, ConsumerParts DEF RetriesErred
    <3>3. at[c] = 1 /\ ~failed[c] /\ pc[c] = "polling"
      BY <1>4 DEF Dequeue, HandledOrErred
    <3>4. /\ pc' = [pc EXCEPT ![c] = "handling"]
          /\ raw' = [raw EXCEPT ![c] = p]
          /\ UNCHANGED <<live, at, failed, delivered, erred>>
      BY <1>4, <2>2 DEF Dequeue, history
    <3> HIDE DEF p
    <3> QED BY <3>2, <3>3, <3>4 DEF TypeOK, HandledOrErred, Handlers
  <2> QED BY <2>1, <2>2
<1>5. ASSUME NEW c \in Consumers, Idle(c), UNCHANGED history PROVE HandledOrErred'
  BY <1>5, IdleHandled
<1>6. ASSUME NEW c \in Consumers, HandlerOk(c) PROVE HandledOrErred'
  <2> DEFINE j == raw[c].job
  <2>1. j \in Jobs /\ at[c] \in Handlers /\ raw[c] \in Payload
    BY <1>6 DEF HandlerOk, Running, TypeOK, Payload, Handlers
  <2>2. /\ delivered'[j][at[c]] > 0
        /\ \A i \in Jobs, g \in Handlers : delivered[i][g] > 0 => delivered'[i][g] > 0
    BY <1>6, <2>1, ReachProperties DEF HandlerOk, TypeOK
  <2>3. ASSUME NEW h \in Handlers, h < at'[c], ~failed[c], live[c]
        PROVE  delivered'[j][h] > 0
    <3>1. at'[c] = at[c] + 1
      BY <1>6 DEF HandlerOk, TypeOK
    <3>2. h = at[c] \/ h < at[c]
      BY <2>1, <2>3, <3>1 DEF Handlers
    <3>3. h < at[c] => delivered[j][h] > 0
      BY <1>6, <2>3 DEF HandlerOk, Running, HandledOrErred
    <3> QED BY <2>1, <2>2, <3>2, <3>3
  <2>4. ASSUME NEW d \in Consumers, d # c
        PROVE  pc'[d] = pc[d] /\ raw'[d] = raw[d] /\ at'[d] = at[d]
               /\ failed'[d] = failed[d] /\ live'[d] = live[d]
               /\ (raw[d] \in Payload \/ pc[d] \in {"off", "polling", "record"})
    BY <1>6, <2>4 DEF HandlerOk, TypeOK
  <2>5. erred' = erred /\ pc' = pc /\ raw' = raw /\ failed' = failed /\ live' = live
        /\ pc[c] = "handling"
    BY <1>6 DEF HandlerOk, Running
  <2>6. raw[c].form = "base64" => j \in erred
    BY <2>5 DEF HandledOrErred
  <2>7. live[c] /\ failed[c] => j \in erred
    BY <2>5 DEF HandledOrErred
  <2>8. ASSUME NEW d \in Consumers, d # c
        PROVE  /\ pc'[d] \in {"off", "polling"} => at'[d] = 1 /\ ~failed'[d]
               /\ pc'[d] = "backoff" => failed'[d]
               /\ pc'[d] \in {"handling", "backoff"} =>
                     /\ raw'[d].form = "base64" => raw'[d].job \in erred'
                     /\ live'[d] /\ failed'[d] => raw'[d].job \in erred'
                     /\ live'[d] /\ ~failed'[d] =>
                         \A h \in Handlers : h < at'[d] => delivered'[raw'[d].job][h] > 0
    BY <2>2, <2>4, <2>5, <2>8, OthersHandled
  <2> QED BY <2>3, <2>5, <2>6, <2>7, <2>8 DEF HandledOrErred
<1>7. ASSUME NEW c \in Consumers, HandlerError(c) PROVE HandledOrErred'
  <2> DEFINE j == raw[c].job
  <2>1. j \in Jobs /\ at[c] \in Handlers /\ raw[c] \in Payload
    BY <1>7 DEF HandlerError, Running, TypeOK, Payload, Handlers
  <2>2. \A i \in Jobs, g \in Handlers : delivered[i][g] > 0 => delivered'[i][g] > 0
    BY <1>7, <2>1, ReachProperties DEF HandlerError, TypeOK, history
  <2>3. /\ erred \subseteq erred'
        /\ live[c] => j \in erred'
        /\ pc[c] = "handling" /\ failed'[c] = TRUE
        /\ pc' = pc /\ raw' = raw /\ live' = live
    BY <1>7 DEF HandlerError, Running, TypeOK, history
  <2>4. ASSUME NEW d \in Consumers, d # c
        PROVE  pc'[d] = pc[d] /\ raw'[d] = raw[d] /\ at'[d] = at[d]
               /\ failed'[d] = failed[d] /\ live'[d] = live[d]
               /\ (raw[d] \in Payload \/ pc[d] \in {"off", "polling", "record"})
    BY <1>7, <2>4 DEF HandlerError, TypeOK
  <2>5. raw[c].form = "base64" => j \in erred'
    BY <2>3 DEF HandledOrErred
  <2>6. ASSUME NEW d \in Consumers, d # c
        PROVE  /\ pc'[d] \in {"off", "polling"} => at'[d] = 1 /\ ~failed'[d]
               /\ pc'[d] = "backoff" => failed'[d]
               /\ pc'[d] \in {"handling", "backoff"} =>
                     /\ raw'[d].form = "base64" => raw'[d].job \in erred'
                     /\ live'[d] /\ failed'[d] => raw'[d].job \in erred'
                     /\ live'[d] /\ ~failed'[d] =>
                         \A h \in Handlers : h < at'[d] => delivered'[raw'[d].job][h] > 0
    BY <2>2, <2>3, <2>4, <2>6, OthersHandled
  <2> QED BY <2>3, <2>5, <2>6 DEF HandledOrErred
<1>8. ASSUME NEW c \in Consumers, AckForRetry(c) PROVE HandledOrErred'
  BY <1>8 DEF AckForRetry, HandlersDone, TypeOK, HandledOrErred, history
<1>9. ASSUME NEW c \in Consumers, MoveToDeadLetter(c) PROVE HandledOrErred'
  BY <1>9 DEF MoveToDeadLetter, HandlersDone, TypeOK, HandledOrErred, history
<1>10. ASSUME NEW w \in Workers, Crash(w) PROVE HandledOrErred'
  BY <1>10 DEF Crash, TypeOK, HandledOrErred, history
<1> QED
  BY <1>1, <1>2, <1>3, <1>4, <1>5, <1>6, <1>7, <1>8, <1>9, <1>10
  DEF Next, ConsumerStep, QueueStep, vars, history, Enqueue, Age, Return, PollTimeout, DiscardMalformed,
      AckDelivered, AbandonRetry, Requeue, InsertDeadLetter, CleanupScan, SkipFresh,
      NackStale

(* Only a cleaner ever has a snapshot to walk through.                     *)
LEMMA NextScan ==
    ASSUME Safe, [Next]_vars
    PROVE  OnlyCleanersScan'
<1> USE DEF Safe
<1>1. ASSUME UNCHANGED scan PROVE OnlyCleanersScan'
  BY <1>1 DEF OnlyCleanersScan
<1>2. ASSUME NEW w \in Workers, Crash(w) PROVE OnlyCleanersScan'
  BY <1>2 DEF Crash, TypeOK, OnlyCleanersScan
<1>3. ASSUME NEW w \in Workers, NEW s \in Symbols, CleanupScan(w, s)
      PROVE  OnlyCleanersScan'
  BY <1>3 DEF CleanupScan, TypeOK, OnlyCleanersScan
<1>4. ASSUME NEW w \in Workers, SkipFresh(w) \/ NackStale(w) PROVE OnlyCleanersScan'
  BY <1>4 DEF SkipFresh, NackStale, TypeOK, OnlyCleanersScan
<1> QED
  BY <1>1, <1>2, <1>3, <1>4
  DEF Next, ConsumerStep, QueueStep, vars, cleanup, Enqueue, Age, Start, Cancel, Return, Dequeue,
      PollTimeout, DiscardMalformed, HandlerOk, HandlerError, AckDelivered, AckForRetry,
      AbandonRetry, Requeue, MoveToDeadLetter, InsertDeadLetter

(* No step makes an undelivered job leave the lists, unless a handler has  *)
(* failed for it.                                                          *)
LEMMA NextKept ==
    ASSUME Safe, [Next]_vars
    PROVE  RetriesErred' /\ NeverLost'
<1> USE DEF Safe
<1>1. ASSUME NEW s \in Symbols, Enqueue(s) PROVE RetriesErred' /\ NeverLost'
  <2>1. sent[s] + 1 \in 1 .. MaxJobs /\ sent[s] \in Nat
    BY <1>1, QueueAssumption DEF Enqueue, TypeOK
  <2>2. PICK j \in Jobs : j = <<s, sent[s] + 1>>
    BY <2>1, JobParts
  <2>3. PICK p \in Payload :
           /\ p = MarshalJob(<<s, sent[s] + 1>>, 0)
           /\ p.job = j /\ j[1] = s /\ p.form = "object"
    <3>1. MarshalJob(j, 0) \in Payload
      BY MarshalTypes
    <3>2. j[1] = s
      BY <2>1, <2>2, JobParts
    <3> QED BY <2>2, <3>1, <3>2 DEF MarshalJob
  <2>4. /\ \A t \in Symbols : Range(queue'[t]) \subseteq Range(queue[t]) \cup {p}
        /\ \A i \in Jobs : InQueue(i) => InQueue(i)'
        /\ InQueue(j)'
    <3>1. PICK n \in Sends : LPush(s, p, n)
      BY <1>1, <2>3 DEF Enqueue
    <3>2. /\ \A t \in Symbols : Range(queue'[t]) \subseteq Range(queue[t]) \cup {p}
          /\ \A i \in Jobs : InQueue(i) => InQueue(i)'
          /\ p.job[1] = s => InQueue(p.job)'
      BY <3>1, LPushKeeps
    <3> QED BY <3>2, <2>3
  <2>5. UNCHANGED <<processing, delivered, erred, dropped>> /\ sent' = [sent EXCEPT ![s] = @ + 1]
    BY <1>1 DEF Enqueue, history
  <2>6. RetriesErred'
    BY <2>3, <2>4, <2>5 DEF RetriesErred
  <2>7. ASSUME NEW i \in Jobs, Enqueued(i)'
        PROVE  FullyDelivered(i)' \/ i \in erred' \/ i \in dropped' \/ InQueue(i)' \/ InProcessing(i)'
    <3>1. CASE Enqueued(i)
      BY <3>1, <2>4, <2>5 DEF NeverLost, FullyDelivered, InProcessing
    <3>2. CASE ~Enqueued(i)
      <4>1. i[1] = s /\ i[2] = sent[s] + 1
        BY <2>7, <3>2, <2>1, <2>5, JobParts DEF Enqueued, TypeOK
      <4>2. i = j
        BY <4>1, <2>2 DEF Jobs
      <4> QED BY <4>2, <2>4
    <3> QED BY <3>1, <3>2
  <2> QED BY <2>6, <2>7 DEF NeverLost
<1>2. ASSUME UNCHANGED <<queue, processing, sent, delivered, dropped>>, erred \subseteq erred'
      PROVE  RetriesErred' /\ NeverLost'
  BY <1>2, ListsUntouched DEF RetriesErred
<1>3. ASSUME NEW c \in Consumers, NEW reply \in BOOLEAN, Dequeue(c, reply)
      PROVE  RetriesErred' /\ NeverLost'
  <2> DEFINE s == Sym(c)
             p == Head(queue[s])
  <2>1. s \in Symbols /\ queue[s] # <<>>
    BY <1>3, ConsumerParts DEF Dequeue
  <2>2. /\ Range(queue[s]) = {p} \cup Range(Tail(queue[s]))
        /\ Range(<<p>> \o processing[s]) = {p} \cup Range(processing[s])
    BY <2>1, MovedProperties DEF TypeOK
  <2>3. /\ queue' = [queue EXCEPT ![s] = Tail(queue[s])]
        /\ processing' = [processing EXCEPT ![s] = <<p>> \o processing[s]]
        /\ UNCHANGED <<sent, delivered, erred, dropped>>
    BY <1>3 DEF Dequeue, history
  <2> HIDE DEF p, s
  <2>4. \A t \in Symbols :
           /\ Range(queue[t]) \cup Range(processing[t])
                = Range(queue'[t]) \cup Range(processing'[t])
    BY <2>1, <2>2, <2>3 DEF TypeOK
  <2>5. RetriesErred'
    BY <2>3, <2>4 DEF RetriesErred
  <2>6. ASSUME NEW j \in Jobs, InQueue(j) \/ InProcessing(j)
        PROVE  InQueue(j)' \/ InProcessing(j)'
    BY <2>4, <2>6, JobParts DEF InQueue, InProcessing
  <2>7. NeverLost'
    BY <2>3, <2>6, StillThere
  <2> QED BY <2>5, <2>7
<1>4. ASSUME NEW c \in Consumers, DiscardMalformed(c) PROVE RetriesErred' /\ NeverLost'
  <2>1. raw[c].job \in erred
    BY <1>4 DEF DiscardMalformed, HandledOrErred
  <2> QED BY <1>4, <2>1, AckKeeps DEF DiscardMalformed, history
<1>5. ASSUME NEW c \in Consumers, HandlerOk(c) \/ HandlerError(c)
      PROVE  RetriesErred' /\ NeverLost'
  <2>1. raw[c].job \in Jobs /\ at[c] \in Handlers
    BY <1>5 DEF HandlerOk, HandlerError, Running, TypeOK, Payload, Handlers
  <2>2. \A i \in Jobs, g \in Handlers : delivered[i][g] > 0 => delivered'[i][g] > 0
    BY <1>5, <2>1, ReachProperties DEF HandlerOk, HandlerError, TypeOK, history
  <2>3. UNCHANGED <<queue, processing, sent, dropped>> /\ erred \subseteq erred'
    BY <1>5 DEF HandlerOk, HandlerError, redis, history
  <2> QED BY <2>2, <2>3, ListsUntouched DEF RetriesErred
<1>6. ASSUME NEW c \in Consumers, AckDelivered(c) PROVE RetriesErred' /\ NeverLost'
  <2>1. ASSUME live[c] PROVE FullyDelivered(raw[c].job)
    <3>1. \A h \in Handlers : h < at[c]
      BY <1>6, QueueAssumption DEF AckDelivered, HandlersDone, Handlers, TypeOK
    <3> QED BY <1>6, <2>1, <3>1 DEF AckDelivered, HandlersDone, HandledOrErred, FullyDelivered
  <2> QED BY <1>6, <2>1, AckKeeps DEF AckDelivered, history
<1>7. ASSUME NEW c \in Consumers, AckForRetry(c) PROVE RetriesErred' /\ NeverLost'
  <2>1. live[c] => raw[c].job \in erred
    BY <1>7 DEF AckForRetry, HandlersDone, HandledOrErred
  <2> QED BY <1>7, <2>1, AckKeeps DEF AckForRetry, history
<1>8. ASSUME NEW c \in Consumers, Requeue(c) PROVE RetriesErred' /\ NeverLost'
  <2> DEFINE p == MarshalBytes(MarshalJob(raw[c].job, Attempts(c)))
  <2>1. UNCHANGED <<processing, sent, delivered, erred, dropped>>
    BY <1>8 DEF Requeue, history
  <2>2. CASE UNCHANGED queue
    BY <2>1, <2>2, <1>2
  <2>3. CASE \E n \in Sends : LPush(Sym(c), p, n)
    <3>1. PICK n \in Sends : LPush(Sym(c), p, n)
      BY <2>3
    <3>2. raw[c].job \in Jobs /\ Attempts(c) \in Nat /\ raw[c].job \in erred
      BY <1>8 DEF Requeue, TypeOK, Payload, Attempts, HandledOrErred
    <3>3. p \in Payload /\ p.job \in erred
      BY <3>2, MarshalTypes DEF MarshalJob
    <3> HIDE DEF p
    <3>4. /\ \A t \in Symbols : Range(queue'[t]) \subseteq Range(queue[t]) \cup {p}
          /\ \A j \in Jobs : InQueue(j) => InQueue(j)'
      BY <3>1, <3>3, LPushKeeps, ConsumerParts
    <3>5. RetriesErred'
      BY <2>1, <3>3, <3>4 DEF RetriesErred
    <3>6. NeverLost'
      BY <2>1, <3>4, StillThere DEF InProcessing
    <3> QED BY <3>5, <3>6
  <2> QED BY <1>8, <2>2, <2>3 DEF Requeue
<1>9. ASSUME NEW c \in Consumers, MoveToDeadLetter(c) PROVE RetriesErred' /\ NeverLost'
  <2>1. UNCHANGED <<queue, sent, delivered, erred, dropped>>
    BY <1>9 DEF MoveToDeadLetter, history
  <2>2. CASE UNCHANGED processing
    BY <2>1, <2>2, <1>2
  <2>3. CASE live[c] /\ \E n \in {1, 2} : LRem(Sym(c), raw[c], n)
    <3>1. PICK n \in {1, 2} : LRem(Sym(c), raw[c], n)
      BY <2>3
    <3>2. raw[c].job \in erred
      BY <1>9, <2>3 DEF MoveToDeadLetter, HandlersDone, HandledOrErred
    <3>3. /\ \A t \in Symbols : Range(processing'[t]) \subseteq Range(processing[t])
          /\ \A j \in Jobs : InProcessing(j) /\ j # raw[c].job => InProcessing(j)'
      BY <3>1, LRemKeeps, ConsumerParts
    <3>4. RetriesErred'
      BY <2>1, <3>3 DEF RetriesErred
    <3>5. NeverLost'
      BY <2>1, <3>2, <3>3, StillThere DEF InQueue
    <3> QED BY <3>4, <3>5
  <2> QED BY <1>9, <2>2, <2>3 DEF MoveToDeadLetter, Sends
<1>10. ASSUME NEW w \in Workers, NackStale(w) PROVE RetriesErred' /\ NeverLost'
  <2>1. PICK p \in Payload :
           /\ p = Head(scan[w]) /\ p.form = "object"
           /\ p.job[1] \in Symbols
           /\ UNCHANGED <<sent, delivered, erred>>
    BY <1>10, MovedProperties, JobParts DEF NackStale, TypeOK, Payload
  <2> DEFINE s == p.job[1]
  <2>2. CASE UNCHANGED <<processing, queue, dropped>>
    BY <2>1, <2>2, <1>2
  <2>3. CASE \E n \in Sends : LRem(s, p, n) /\ LPush(s, p, n) /\ UNCHANGED dropped
    <3>1. PICK n \in Sends : LRem(s, p, n) /\ LPush(s, p, n) /\ UNCHANGED dropped
      BY <2>3
    <3>2. /\ \A t \in Symbols : Range(queue'[t]) \subseteq Range(queue[t]) \cup {p}
          /\ \A j \in Jobs : InQueue(j) => InQueue(j)'
          /\ InQueue(p.job)'
      BY <2>1, <3>1, LPushKeeps
    <3>3. /\ \A t \in Symbols : Range(processing'[t]) \subseteq Range(processing[t])
          /\ \A j \in Jobs : InProcessing(j) /\ j # p.job => InProcessing(j)'
      BY <2>1, <3>1, LRemKeeps
    <3>4. RetriesErred'
      BY <2>1, <3>2, <3>3 DEF RetriesErred
    <3>5. NeverLost'
      BY <2>1, <3>1, <3>2, <3>3, StillThere
    <3> QED BY <3>4, <3>5
  <2>4. CASE LRem(s, p, 1) /\ UNCHANGED queue /\ dropped' = dropped \cup {p.job}
    <3>1. /\ \A t \in Symbols : Range(processing'[t]) \subseteq Range(processing[t])
          /\ \A j \in Jobs : InProcessing(j) /\ j # p.job => InProcessing(j)'
      BY <2>1, <2>4, LRemKeeps
    <3>2. RetriesErred'
      BY <2>1, <2>4, <3>1 DEF RetriesErred
    <3>3. \A j \in Jobs : InQueue(j) => InQueue(j)'
      BY <2>4 DEF InQueue
    <3>4. NeverLost'
      BY <2>1, <2>4, <3>1, <3>3, StillThere
    <3> QED BY <3>2, <3>4
  <2> QED BY <1>10, <2>1, <2>2, <2>3, <2>4 DEF NackStale
<1> QED
  BY <1>1, <1>2, <1>3, <1>4, <1>5, <1>6, <1>7, <1>8, <1>9, <1>10
  DEF Next, ConsumerStep, QueueStep, vars, redis, history, Age, Start, Cancel, Return, PollTimeout,
      AbandonRetry, InsertDeadLetter, CleanupScan, SkipFresh, Crash

(* The initial state satisfies the inductive invariant.                    *)
LEMMA InitSafe == Init => Safe
<1>1. ASSUME Init PROVE RetriesErred
  BY <1>1 DEF Init, RetriesErred, Range
<1>2. ASSUME Init PROVE HandledOrErred /\ OnlyCleanersScan
  BY <1>2 DEF Init, HandledOrErred, OnlyCleanersScan
<1>3. ASSUME Init PROVE NeverLost
  BY <1>3, JobParts DEF Init, NeverLost, Enqueued
<1> QED BY <1>1, <1>2, <1>3, InitType DEF Safe

(* Whatever crashes, is cancelled or is refused, and in whatever order the *)
(* goroutines of any number of workers run: a job no handler failed for is *)
(* delivered by every handler or still on a list of its symbol, unless the *)
(* cleanup met a full Redis when it pushed that job back.                  *)
THEOREM NothingLost == Spec => []NeverLost
<1>1. Init => Safe
  BY InitSafe
<1>2. Safe /\ [Next]_vars => Safe'
  BY NextType, NextHandled, NextScan, NextKept DEF Safe
<1>3. Safe => NeverLost
  BY DEF Safe
<1> QED BY <1>1, <1>2, <1>3, PTL DEF Spec
-----------------------------------------------------------------------------
(* The queue implements JobLifecycle: every step of SignalQueue moves one  *)
(* job along its life, or none, and no step loses a job.                   *)

SentJobs == {j \in Jobs : Enqueued(j)}
Holding(c) == pc[c] \in {"handling", "backoff", "record"}

(* Whatever is on a list, in a snapshot or in a goroutine's hands was      *)
(* enqueued, and nothing was done for a job before it was.                 *)
NothingInvented ==
    /\ \A s \in Symbols : \A p \in Range(queue[s]) \cup Range(processing[s]) :
          p.job \in SentJobs
    /\ \A c \in Consumers : Holding(c) => raw[c].job \in SentJobs
    /\ \A w \in Workers : \A p \in Range(scan[w]) : p.job \in SentJobs
    /\ erred \cup dropped \subseteq SentJobs
    /\ \A j \in Jobs, h \in Handlers : delivered[j][h] > 0 => j \in SentJobs

LifecycleInv == Safe /\ NothingInvented

(* The life of a job when no job is lost.                                  *)
SafeLife(j) ==
    IF ~Enqueued(j) THEN "unsent"
    ELSE IF FullyDelivered(j) THEN "delivered"
    ELSE IF j \in erred THEN "failed"
    ELSE IF j \in dropped THEN "exposed"
    ELSE "kept"

Lives == [j \in Jobs |-> Life(j)]

-----------------------------------------------------------------------------
(* A step keeps NothingInvented when what it adds was enqueued.            *)
LEMMA InventedKept ==
    ASSUME NothingInvented,
           SentJobs \subseteq SentJobs',
           \A s \in Symbols : \A p \in Range(queue'[s]) \cup Range(processing'[s]) :
              p \in Range(queue[s]) \cup Range(processing[s]) \/ p.job \in SentJobs',
           \A c \in Consumers : Holding(c)' =>
              \/ Holding(c) /\ raw'[c] = raw[c]
              \/ raw'[c].job \in SentJobs',
           \A w \in Workers : \A p \in Range(scan'[w]) :
              p \in Range(scan[w]) \/ p.job \in SentJobs',
           erred' \subseteq erred \cup SentJobs',
           dropped' \subseteq dropped \cup SentJobs',
           \A j \in Jobs, h \in Handlers :
              delivered'[j][h] > 0 => delivered[j][h] > 0 \/ j \in SentJobs'
    PROVE  NothingInvented'
<1>1. \A s \in Symbols : \A p \in Range(queue'[s]) \cup Range(processing'[s]) :
         p.job \in SentJobs'
  BY DEF NothingInvented
<1>2. \A c \in Consumers : Holding(c)' => raw'[c].job \in SentJobs'
  BY DEF NothingInvented
<1>3. \A w \in Workers : \A p \in Range(scan'[w]) : p.job \in SentJobs'
  BY DEF NothingInvented
<1>4. erred' \cup dropped' \subseteq SentJobs'
  BY DEF NothingInvented
<1>5. \A j \in Jobs, h \in Handlers : delivered'[j][h] > 0 => j \in SentJobs'
  BY DEF NothingInvented
<1> QED BY <1>1, <1>2, <1>3, <1>4, <1>5 DEF NothingInvented

(* A step that enqueues nothing.                                           *)
LEMMA SentJobsKept == ASSUME sent' = sent PROVE SentJobs' = SentJobs
BY DEF SentJobs, Enqueued

(* What a delivery changes.                                                *)
LEMMA ReachOnly ==
    ASSUME delivered \in [Jobs -> [Handlers -> 0 .. 2]],
           NEW j \in Jobs, NEW h \in Handlers, Reach(j, h) \/ UNCHANGED delivered
    PROVE  \A i \in Jobs : i # j => delivered'[i] = delivered[i]
BY DEF Reach

(* Every step keeps NothingInvented.                                       *)
LEMMA NextInvented ==
    ASSUME TypeOK, NothingInvented, [Next]_vars
    PROVE  NothingInvented'
<1>1. ASSUME NEW s \in Symbols, Enqueue(s) PROVE NothingInvented'
  <2>1. sent' = [sent EXCEPT ![s] = @ + 1] /\ sent[s] \in Nat /\ sent[s] + 1 \in 1 .. MaxJobs
    BY <1>1, QueueAssumption DEF Enqueue, TypeOK
  <2>2. PICK j \in Jobs : j = <<s, sent[s] + 1>> /\ j[1] = s /\ j[2] = sent[s] + 1
    <3> DEFINE k == <<s, sent[s] + 1>>
    <3>1. k \in Jobs /\ k[1] = s /\ k[2] = sent[s] + 1
      BY <2>1, JobParts
    <3> HIDE DEF k
    <3>2. \E j \in Jobs : j = k /\ j[1] = s /\ j[2] = sent[s] + 1
      BY <3>1
    <3> QED BY <3>2 DEF k
  <2>3. SentJobs \subseteq SentJobs' /\ j \in SentJobs'
    <3>1. sent'[s] = sent[s] + 1 /\ \A t \in Symbols : t # s => sent'[t] = sent[t]
      BY <2>1 DEF TypeOK
    <3>2. ASSUME NEW i \in Jobs, Enqueued(i) PROVE Enqueued(i)'
      <4>1. i[1] \in Symbols /\ i[2] \in Nat /\ i[2] <= sent[i[1]]
        BY <3>2, JobParts DEF Enqueued
      <4>2. CASE i[1] = s
        BY <2>1, <3>1, <4>1, <4>2 DEF Enqueued
      <4>3. CASE i[1] # s
        BY <3>1, <4>1, <4>3 DEF Enqueued
      <4> QED BY <4>2, <4>3
    <3>3. Enqueued(j)'
      BY <2>1, <2>2, <3>1 DEF Enqueued
    <3> QED BY <3>2, <3>3 DEF SentJobs
  <2>4. PICK n \in Sends : LPush(s, MarshalJob(j, 0), n)
    BY <1>1, <2>2 DEF Enqueue
  <2>5. MarshalJob(j, 0) \in Payload /\ MarshalJob(j, 0).job = j
    BY MarshalTypes DEF MarshalJob
  <2>6. \A t \in Symbols : Range(queue'[t]) \subseteq Range(queue[t]) \cup {MarshalJob(j, 0)}
    BY <2>4, <2>5, LPushKeeps
  <2>7. UNCHANGED <<processing, pc, raw, scan, erred, dropped, delivered>>
    BY <1>1 DEF Enqueue, goroutine, cleanup, history
  <2> QED BY <2>3, <2>5, <2>6, <2>7, InventedKept DEF Holding
<1>2. ASSUME UNCHANGED <<queue, sent, scan, erred, dropped, delivered>>,
             \A t \in Symbols : Range(processing'[t]) \subseteq Range(processing[t]),
             \A c \in Consumers : Holding(c)' => Holding(c) /\ raw'[c] = raw[c]
      PROVE  NothingInvented'
  BY <1>2, SentJobsKept, InventedKept
<1>3. ASSUME NEW c \in Consumers, NEW reply \in BOOLEAN, Dequeue(c, reply)
      PROVE  NothingInvented'
  <2> DEFINE s == Sym(c)
             p == Head(queue[s])
  <2>1. s \in Symbols /\ queue[s] # <<>>
    BY <1>3, ConsumerParts DEF Dequeue
  <2>2. /\ Range(queue[s]) = {p} \cup Range(Tail(queue[s]))
        /\ Range(<<p>> \o processing[s]) = {p} \cup Range(processing[s])
    BY <2>1, MovedProperties DEF TypeOK
  <2>3. /\ queue' = [queue EXCEPT ![s] = Tail(queue[s])]
        /\ processing' = [processing EXCEPT ![s] = <<p>> \o processing[s]]
        /\ UNCHANGED <<sent, scan, delivered, erred, dropped>>
        /\ \/ pc' = [pc EXCEPT ![c] = "handling"] /\ raw' = [raw EXCEPT ![c] = p]
           \/ UNCHANGED <<pc, raw>>
    BY <1>3 DEF Dequeue, history, cleanup
  <2> HIDE DEF p, s
  <2>4. p.job \in SentJobs
    BY <2>1, <2>2 DEF NothingInvented
  <2>5. \A t \in Symbols : \A q \in Range(queue'[t]) \cup Range(processing'[t]) :
           q \in Range(queue[t]) \cup Range(processing[t])
    BY <2>1, <2>2, <2>3 DEF TypeOK
  <2>6. \A d \in Consumers : Holding(d)' =>
           (Holding(d) /\ raw'[d] = raw[d]) \/ raw'[d].job \in SentJobs
    BY <2>3, <2>4 DEF Holding, TypeOK
  <2> QED BY <2>3, <2>5, <2>6, SentJobsKept, InventedKept
<1>4. ASSUME NEW c \in Consumers, HandlerOk(c) \/ HandlerError(c) PROVE NothingInvented'
  <2> DEFINE j == raw[c].job
  <2>1. j \in Jobs /\ at[c] \in Handlers /\ j \in SentJobs
    BY <1>4 DEF HandlerOk, HandlerError, Running, TypeOK, Payload, Handlers,
                NothingInvented, Holding
  <2>2. \A i \in Jobs : i # j => delivered'[i] = delivered[i]
    BY <1>4, <2>1, ReachOnly DEF HandlerOk, HandlerError, TypeOK
  <2>3. /\ UNCHANGED <<queue, processing, sent, pc, raw, scan, dropped>>
        /\ erred' \subseteq erred \cup {j}
    BY <1>4 DEF HandlerOk, HandlerError, redis, cleanup
  <2>4. erred' \subseteq erred \cup SentJobs
    BY <2>1, <2>3
  <2>5. \A i \in Jobs, h \in Handlers :
           delivered'[i][h] > 0 => delivered[i][h] > 0 \/ i \in SentJobs
    BY <2>1, <2>2
  <2> HIDE DEF j
  <2> QED BY <2>3, <2>4, <2>5, SentJobsKept, InventedKept DEF Holding
<1>5. ASSUME NEW c \in Consumers, AckJob(c) \/ UNCHANGED processing,
             UNCHANGED <<queue, sent, scan, erred, dropped, delivered>>,
             Idle(c) \/ (Holding(c) /\ UNCHANGED raw /\ pc' = [pc EXCEPT ![c] = "backoff"])
      PROVE  NothingInvented'
  <2>1. \A t \in Symbols : Range(processing'[t]) \subseteq Range(processing[t])
    <3>1. CASE UNCHANGED processing
      BY <3>1
    <3>2. CASE \E n \in Sends : LRem(Sym(c), raw[c], n)
      BY <3>2, LRemKeeps, ConsumerParts
    <3> QED BY <1>5, <3>1, <3>2 DEF AckJob
  <2>2. \A d \in Consumers : Holding(d)' => Holding(d) /\ raw'[d] = raw[d]
    BY <1>5 DEF Idle, Holding, TypeOK
  <2> QED BY <1>5, <2>1, <2>2, <1>2
<1>6. ASSUME NEW c \in Consumers, MoveToDeadLetter(c) PROVE NothingInvented'
  <2>1. \A t \in Symbols : Range(processing'[t]) \subseteq Range(processing[t])
    <3>1. CASE UNCHANGED processing
      BY <3>1
    <3>2. CASE \E n \in {1, 2} : LRem(Sym(c), raw[c], n)
      BY <3>2, LRemKeeps, ConsumerParts
    <3> QED BY <1>6, <3>1, <3>2 DEF MoveToDeadLetter, Sends
  <2>2. \A d \in Consumers : Holding(d)' => Holding(d) /\ raw'[d] = raw[d]
    BY <1>6 DEF MoveToDeadLetter, HandlersDone, Holding, TypeOK
  <2> QED BY <1>6, <2>1, <2>2, <1>2 DEF MoveToDeadLetter, cleanup, history
<1>7. ASSUME NEW c \in Consumers, Requeue(c) PROVE NothingInvented'
  <2> DEFINE p == MarshalBytes(MarshalJob(raw[c].job, Attempts(c)))
  <2>1. raw[c].job \in Jobs /\ Attempts(c) \in Nat /\ raw[c].job \in SentJobs
    BY <1>7 DEF Requeue, TypeOK, Payload, Attempts, NothingInvented, Holding
  <2>2. p \in Payload /\ p.job \in SentJobs
    BY <2>1, MarshalTypes DEF MarshalJob
  <2>3. \A t \in Symbols : Range(queue'[t]) \subseteq Range(queue[t]) \cup {p}
    <3>1. CASE UNCHANGED queue
      BY <3>1
    <3>2. CASE \E n \in Sends : LPush(Sym(c), p, n)
      BY <3>2, <2>2, LPushKeeps, ConsumerParts
    <3> QED BY <1>7, <3>1, <3>2 DEF Requeue
  <2> HIDE DEF p
  <2>4. \A d \in Consumers : Holding(d)' => Holding(d) /\ raw'[d] = raw[d]
    BY <1>7 DEF Requeue, Idle, Holding, TypeOK
  <2>5. UNCHANGED <<processing, sent, scan, erred, dropped, delivered>>
    BY <1>7 DEF Requeue, cleanup, history
  <2> QED BY <2>2, <2>3, <2>4, <2>5, SentJobsKept, InventedKept
<1>8. ASSUME NEW w \in Workers,
             UNCHANGED <<sent, pc, raw, erred, delivered>>,
             \A t \in Symbols : \A q \in Range(queue'[t]) \cup Range(processing'[t]) :
                q \in Range(queue[t]) \cup Range(processing[t]) \/ q.job \in SentJobs,
             \A v \in Workers : \A p \in Range(scan'[v]) :
                p \in Range(scan[v]) \/ p.job \in SentJobs,
             dropped' \subseteq dropped \cup SentJobs
      PROVE  NothingInvented'
  BY <1>8, SentJobsKept, InventedKept DEF Holding
<1>9. ASSUME NEW w \in Workers, NEW s \in Symbols, CleanupScan(w, s) PROVE NothingInvented'
  <2>1. /\ UNCHANGED <<queue, processing, sent, pc, raw, erred, dropped, delivered>>
        /\ scan' = [scan EXCEPT ![w] = processing[s]]
    BY <1>9 DEF CleanupScan, redis, goroutine, history
  <2>2. \A v \in Workers : \A p \in Range(scan'[v]) :
           p \in Range(scan[v]) \/ p.job \in SentJobs
    BY <2>1 DEF TypeOK, NothingInvented
  <2> QED BY <2>1, <2>2, <1>8
<1>10. ASSUME NEW w \in Workers, SkipFresh(w) \/ NackStale(w) PROVE NothingInvented'
  <2>1. /\ scan[w] # <<>> /\ scan' = [scan EXCEPT ![w] = Tail(@)]
        /\ UNCHANGED <<sent, pc, raw, erred, delivered>>
    BY <1>10 DEF SkipFresh, NackStale, goroutine, history
  <2>2. /\ Head(scan[w]) \in Payload
        /\ Range(scan[w]) = {Head(scan[w])} \cup Range(Tail(scan[w]))
    BY <2>1, MovedProperties DEF TypeOK
  <2>3. PICK p \in Payload : p = Head(scan[w]) /\ p.job \in SentJobs /\ p.job[1] \in Symbols
    BY <2>2, JobParts DEF NothingInvented, Payload
  <2>4. \A v \in Workers : \A q \in Range(scan'[v]) : q \in Range(scan[v])
    BY <2>1, <2>2 DEF TypeOK
  <2>5. dropped' \subseteq dropped \cup SentJobs
    BY <1>10, <2>3 DEF SkipFresh, NackStale, history
  <2>6. \A t \in Symbols : Range(processing'[t]) \subseteq Range(processing[t])
    <3>1. CASE UNCHANGED processing
      BY <3>1
    <3>2. CASE \E n \in {1, 2} : LRem(p.job[1], p, n)
      BY <3>2, <2>3, LRemKeeps
    <3> QED BY <1>10, <2>3, <3>1, <3>2 DEF SkipFresh, NackStale, redis, Sends
  <2>7. \A t \in Symbols : Range(queue'[t]) \subseteq Range(queue[t]) \cup {p}
    <3>1. CASE UNCHANGED queue
      BY <3>1
    <3>2. CASE \E n \in Sends : LPush(p.job[1], p, n)
      BY <3>2, <2>3, LPushKeeps
    <3> QED BY <1>10, <2>3, <3>1, <3>2 DEF SkipFresh, NackStale, redis
  <2> QED BY <2>1, <2>3, <2>4, <2>5, <2>6, <2>7, <1>8
<1>11. ASSUME NEW w \in Workers, Crash(w) PROVE NothingInvented'
  <2>1. /\ UNCHANGED <<queue, processing, sent, erred, dropped, delivered>>
        /\ scan' = [scan EXCEPT ![w] = <<>>]
        /\ \A d \in Consumers : Holding(d)' => Holding(d) /\ raw'[d] = raw[d]
    BY <1>11 DEF Crash, TypeOK, Holding, redis, history
  <2>2. \A v \in Workers : \A p \in Range(scan'[v]) : p \in Range(scan[v])
    BY <2>1 DEF TypeOK, Range
  <2> QED BY <2>1, <2>2, SentJobsKept, InventedKept
<1>12. ASSUME NEW c \in Consumers, Start(c) \/ Cancel(c) PROVE NothingInvented'
  <2>1. \A d \in Consumers : Holding(d)' => Holding(d) /\ raw'[d] = raw[d]
    BY <1>12 DEF Start, Cancel, Holding, TypeOK
  <2> QED BY <1>12, <2>1, <1>2 DEF Start, Cancel, redis, cleanup, history
<1>13. ASSUME UNCHANGED <<queue, processing, sent, pc, raw, scan, erred, dropped, delivered>>
       PROVE  NothingInvented'
  BY <1>13, SentJobsKept, InventedKept DEF Holding
<1>14. ASSUME NEW c \in Consumers, ConsumerStep(c) PROVE NothingInvented'
  <2>1. CASE Return(c) \/ AbandonRetry(c)
    BY <2>1, <1>5 DEF Return, AbandonRetry, redis, cleanup, history
  <2>2. CASE DiscardMalformed(c) \/ AckDelivered(c)
    BY <2>2, <1>5 DEF DiscardMalformed, AckDelivered, cleanup, history
  <2>3. CASE AckForRetry(c)
    BY <2>3, <1>5 DEF AckForRetry, HandlersDone, Holding, cleanup, history
  <2>4. CASE InsertDeadLetter(c)
    BY <2>4, <1>5 DEF InsertDeadLetter, redis, cleanup, history
  <2>5. CASE PollTimeout(c)
    BY <2>5, <1>13 DEF PollTimeout, vars, redis, goroutine, cleanup, history
  <2> QED BY <1>14, <2>1, <2>2, <2>3, <2>4, <2>5, <1>3, <1>4, <1>6, <1>7 DEF ConsumerStep, QueueStep
<1>15. ASSUME NEW j \in Jobs, Age(j) PROVE NothingInvented'
  BY <1>15, <1>13 DEF Age, redis, goroutine, history
<1>16. CASE UNCHANGED vars
  BY <1>16, <1>13 DEF vars, redis, goroutine, cleanup, history
<1> QED
  BY <1>1, <1>3, <1>9, <1>10, <1>11, <1>12, <1>14, <1>15, <1>16 DEF Next

-----------------------------------------------------------------------------
(* A step on the life of one job at most.                                  *)
LEMMA OneJob ==
    ASSUME NeverLost, NeverLost', NEW j \in Jobs, Enqueued(j), sent' = sent,
           \A i \in Jobs : i # j =>
              /\ delivered'[i] = delivered[i]
              /\ i \in erred' <=> i \in erred
              /\ i \in dropped' <=> i \in dropped,
           \A h \in Handlers : delivered[j][h] > 0 => delivered'[j][h] > 0,
           j \in erred => j \in erred',
           j \in dropped => j \in dropped',
           j \in dropped' => j \in dropped \/ (RedisFull /\ Cleaners # {})
    PROVE  Lifecycle!Next \/ UNCHANGED Lives
<1>1. \A i \in Jobs : Life(i) = SafeLife(i) /\ Life(i)' = SafeLife(i)'
  BY DEF NeverLost, Life, SafeLife
<1>2. \A i \in Jobs : i # j => Life(i)' = Life(i)
  BY <1>1 DEF SafeLife, Enqueued, FullyDelivered
<1>3. /\ Life(j) \in {"kept", "exposed", "failed", "delivered"}
      /\ \/ Life(j)' = Life(j)
         \/ Life(j) \in {"kept", "exposed", "failed"} /\ Life(j)' = "delivered"
         \/ Life(j) \in {"kept", "exposed"} /\ Life(j)' = "failed"
         \/ Life(j) = "kept" /\ Life(j)' = "exposed" /\ RedisFull /\ Cleaners # {}
  BY <1>1 DEF SafeLife, Enqueued, FullyDelivered
<1>4. Lives' = [Lives EXCEPT ![j] = Life(j)']
  BY <1>2 DEF Lives
<1>5. Lives[j] = Life(j)
  BY DEF Lives
<1>6. Lives = [i \in Lifecycle!Jobs |-> Life(i)] /\ j \in Lifecycle!Jobs
  BY DEF Lives, Jobs, Lifecycle!Jobs
<1>7. CASE Life(j)' = Life(j)
  BY <1>2, <1>7 DEF Lives
<1>8. CASE Life(j) \in {"kept", "exposed", "failed"} /\ Life(j)' = "delivered"
  BY <1>4, <1>5, <1>6, <1>8 DEF Lives, Lifecycle!Next, Lifecycle!Deliver, Lifecycle!Becomes
<1>9. CASE Life(j) \in {"kept", "exposed"} /\ Life(j)' = "failed"
  BY <1>4, <1>5, <1>6, <1>9 DEF Lives, Lifecycle!Next, Lifecycle!Fail, Lifecycle!Becomes
<1>10. CASE Life(j) = "kept" /\ Life(j)' = "exposed" /\ RedisFull /\ Cleaners # {}
  BY <1>4, <1>5, <1>6, <1>10 DEF Lives, Lifecycle!Next, Lifecycle!Expose, Lifecycle!Becomes
<1> QED BY <1>3, <1>7, <1>8, <1>9, <1>10

(* Every step of the queue is a step of JobLifecycle or a stutter.         *)
LEMMA NextLifecycle ==
    ASSUME LifecycleInv, LifecycleInv', [Next]_vars
    PROVE  Lifecycle!Next \/ UNCHANGED Lives
<1> USE DEF LifecycleInv, Safe
<1>1. ASSUME UNCHANGED <<sent, delivered, erred, dropped>> PROVE UNCHANGED Lives
  <2>1. \A i \in Jobs : Life(i) = SafeLife(i) /\ Life(i)' = SafeLife(i)'
    BY DEF NeverLost, Life, SafeLife
  <2>2. \A i \in Jobs : Life(i)' = Life(i)
    BY <1>1, <2>1 DEF SafeLife, Enqueued, FullyDelivered
  <2> QED BY <2>2 DEF Lives
<1>2. ASSUME NEW s \in Symbols, Enqueue(s) PROVE Lifecycle!Next
  <2>1. /\ sent' = [sent EXCEPT ![s] = @ + 1] /\ sent[s] \in Nat /\ sent[s] + 1 \in 1 .. MaxJobs
        /\ UNCHANGED <<delivered, erred, dropped>>
    BY <1>2, QueueAssumption DEF Enqueue, TypeOK, history
  <2>2. PICK j \in Jobs : j = <<s, sent[s] + 1>> /\ j[1] = s /\ j[2] = sent[s] + 1
    <3> DEFINE k == <<s, sent[s] + 1>>
    <3>1. k \in Jobs /\ k[1] = s /\ k[2] = sent[s] + 1
      BY <2>1, JobParts
    <3> HIDE DEF k
    <3>2. \E j \in Jobs : j = k /\ j[1] = s /\ j[2] = sent[s] + 1
      BY <3>1
    <3> QED BY <3>2 DEF k
  <2>3. \A i \in Jobs : Life(i) = SafeLife(i) /\ Life(i)' = SafeLife(i)'
    BY DEF NeverLost, Life, SafeLife
  <2>4. \A i \in Jobs : i # j => (Enqueued(i)' <=> Enqueued(i))
    <3>1. ASSUME NEW i \in Jobs, i # j, i[1] = s PROVE Enqueued(i)' <=> Enqueued(i)
      <4>1. i[2] # sent[s] + 1 /\ i[2] \in Nat
        BY <2>2, <3>1 DEF Jobs
      <4>2. sent'[i[1]] = sent[s] + 1
        BY <2>1, <3>1 DEF TypeOK
      <4> QED BY <2>1, <3>1, <4>1, <4>2 DEF Enqueued
    <3>2. ASSUME NEW i \in Jobs, i[1] # s PROVE Enqueued(i)' <=> Enqueued(i)
      BY <2>1, <3>2, JobParts DEF Enqueued, TypeOK
    <3> QED BY <3>1, <3>2
  <2>5. \A i \in Jobs : i # j => Life(i)' = Life(i)
    BY <2>1, <2>3, <2>4 DEF SafeLife, FullyDelivered
  <2>6. ~Enqueued(j) /\ Enqueued(j)'
    BY <2>1, <2>2 DEF Enqueued, TypeOK
  <2>7. j \notin erred \cup dropped /\ ~FullyDelivered(j)
    <3>1. 1 \in Handlers
      BY QueueAssumption DEF Handlers
    <3> QED BY <2>6, <3>1 DEF NothingInvented, SentJobs, FullyDelivered
  <2>8. Life(j) = "unsent" /\ Life(j)' = "kept"
    BY <2>1, <2>3, <2>6, <2>7 DEF SafeLife, FullyDelivered
  <2>9. \A n \in 1 .. j[2] - 1 : <<j[1], n>> \in Jobs /\ Life(<<j[1], n>>) # "unsent"
    <3>1. ASSUME NEW n \in 1 .. j[2] - 1
          PROVE  <<j[1], n>> \in Jobs /\ Life(<<j[1], n>>) # "unsent"
      <4>1. n \in 1 .. MaxJobs /\ n <= sent[s]
        BY <2>1, <2>2, QueueAssumption
      <4>2. <<s, n>> \in Jobs /\ <<s, n>>[1] = s /\ <<s, n>>[2] = n
        BY <4>1, JobParts
      <4>3. Enqueued(<<s, n>>)
        BY <4>1, <4>2 DEF Enqueued
      <4> QED BY <2>2, <4>2, <4>3 DEF Life
    <3> QED BY <3>1
  <2>10. Lives' = [Lives EXCEPT ![j] = "kept"]
    BY <2>5, <2>8 DEF Lives
  <2>11. Lives = [i \in Lifecycle!Jobs |-> Life(i)] /\ j \in Lifecycle!Jobs
    BY DEF Lives, Jobs, Lifecycle!Jobs
  <2> QED BY <2>8, <2>9, <2>10, <2>11
          DEF Lives, Lifecycle!Next, Lifecycle!Accept, Lifecycle!Becomes
<1>3. ASSUME NEW c \in Consumers, HandlerOk(c) \/ HandlerError(c)
      PROVE  Lifecycle!Next \/ UNCHANGED Lives
  <2>1. raw[c].job \in Jobs /\ at[c] \in Handlers /\ Enqueued(raw[c].job)
    BY <1>3 DEF HandlerOk, HandlerError, Running, TypeOK, Payload, Handlers,
                NothingInvented, Holding, SentJobs
  <2>2. /\ \A i \in Jobs : i # raw[c].job => delivered'[i] = delivered[i]
        /\ \A h \in Handlers : delivered[raw[c].job][h] > 0 => delivered'[raw[c].job][h] > 0
    BY <1>3, <2>1, ReachOnly, ReachProperties DEF HandlerOk, HandlerError, TypeOK
  <2>3. /\ UNCHANGED <<sent, dropped>>
        /\ erred' = erred \/ erred' = erred \cup {raw[c].job}
    BY <1>3 DEF HandlerOk, HandlerError
  <2> QED BY <2>1, <2>2, <2>3, OneJob
<1>4. ASSUME NEW w \in Workers, NackStale(w) PROVE Lifecycle!Next \/ UNCHANGED Lives
  <2>1. PICK p \in Payload :
           /\ p = Head(scan[w]) /\ p.job \in Jobs /\ Enqueued(p.job)
           /\ UNCHANGED <<sent, delivered, erred>>
    <3>1. /\ Head(scan[w]) \in Payload
          /\ Range(scan[w]) = {Head(scan[w])} \cup Range(Tail(scan[w]))
      <4>1. scan[w] \in Seq(Payload) /\ scan[w] # <<>>
        BY <1>4 DEF NackStale, TypeOK
      <4> QED BY <4>1, MovedProperties
    <3> QED BY <1>4, <3>1 DEF NackStale, Payload, NothingInvented, SentJobs
  <2>2. UNCHANGED dropped \/ (RedisFull /\ dropped' = dropped \cup {p.job})
    BY <1>4, <2>1 DEF NackStale
  <2>3. Cleaners # {}
    BY <1>4 DEF NackStale, OnlyCleanersScan
  <2> QED BY <2>1, <2>2, <2>3, OneJob
<1> QED
  BY <1>1, <1>2, <1>3, <1>4
  DEF Next, ConsumerStep, QueueStep, vars, history, Age, Start, Cancel, Return, Dequeue, PollTimeout,
      DiscardMalformed, AckDelivered, AckForRetry, AbandonRetry, Requeue, MoveToDeadLetter,
      InsertDeadLetter, Crash, CleanupScan, SkipFresh

(* The initial state satisfies the invariant, and maps to one in which     *)
(* every job is unsent.                                                    *)
LEMMA InitLifecycle == Init => LifecycleInv /\ Lifecycle!Init
<1>1. ASSUME Init PROVE NothingInvented
  BY <1>1 DEF Init, NothingInvented, Holding, Range
<1>2. ASSUME Init PROVE Lifecycle!Init
  <2>1. \A j \in Jobs : ~Enqueued(j)
    BY <1>2, JobParts DEF Init, Enqueued
  <2> QED BY <2>1 DEF Lifecycle!Init, Life, Jobs, Lifecycle!Jobs
<1> QED BY <1>1, <1>2, InitSafe DEF LifecycleInv

(* The queue implements JobLifecycle for any number of workers, symbols,   *)
(* goroutines, handlers, jobs and faults, with or without a cleanup, and   *)
(* also when the Redis client carries out a command twice.                 *)
THEOREM QueueImplementsLifecycle == Spec => ImplementsLifecycle
<1>1. Init => LifecycleInv /\ Lifecycle!Init
  BY InitLifecycle
<1>2. LifecycleInv /\ [Next]_vars => LifecycleInv'
  BY NextType, NextHandled, NextScan, NextKept, NextInvented DEF LifecycleInv, Safe
<1>3. LifecycleInv /\ LifecycleInv' /\ [Next]_vars =>
         [Lifecycle!Next]_([j \in Jobs |-> Life(j)])
  BY NextLifecycle DEF Lives
<1> QED BY <1>1, <1>2, <1>3, PTL DEF Spec, ImplementsLifecycle, Lifecycle!Spec
-----------------------------------------------------------------------------
(* Who holds what.                                                         *)

Handles(c) == pc[c] = "handling" /\ raw[c].form = "object"

(* A job stays with its symbol, on the queue and in a goroutine's hands.   *)
OwnSymbol ==
    /\ \A s \in Symbols : \A p \in Range(queue[s]) : p.job[1] = s
    /\ \A c \in Consumers : Holding(c) => raw[c].job[1] = Sym(c)

(* A process has one goroutine of a symbol whose context is not cancelled. *)
OneLive ==
    \A c, d \in Consumers :
        live[c] /\ live[d] /\ c[1] = d[1] /\ Sym(c) = Sym(d) => c = d

(* No goroutine gets a payload, and none takes its payload up again.       *)
HandsKept ==
    \A c \in Consumers : Holding(c)' =>
        Holding(c) /\ raw'[c] = raw[c] /\ (Handles(c)' => Handles(c))

(* What LPUSH is given: the next signal, the retry of a job, or - only in  *)
(* a cleanup - a job of the past.                                          *)
Pushes(s, p, n) ==
    /\ LPush(s, p, n)
    /\ p.job[1] = s
    /\ p.form = "object" => Cleaners # {} \/ p.job[2] = sent[s] + 1

(* What a step does to the queues and to what the goroutines hold.         *)
LEMMA QueueEffect ==
    ASSUME TypeOK, OwnSymbol, OnlyCleanersScan, [Next]_vars
    PROVE  \/ UNCHANGED queue /\ HandsKept
           \/ /\ \E s \in Symbols, p \in Payload, n \in Sends : Pushes(s, p, n)
              /\ HandsKept
           \/ \E c \in Consumers, reply \in BOOLEAN : Dequeue(c, reply)
<1> DEFINE Goal ==
      \/ UNCHANGED queue /\ HandsKept
      \/ (\E s \in Symbols, p \in Payload, n \in Sends : Pushes(s, p, n)) /\ HandsKept
      \/ \E c \in Consumers, reply \in BOOLEAN : Dequeue(c, reply)
<1>1. ASSUME UNCHANGED <<pc, raw>> PROVE HandsKept
  BY <1>1 DEF HandsKept, Holding, Handles
<1>2. ASSUME NEW c \in Consumers, Idle(c) PROVE HandsKept
  BY <1>2 DEF Idle, HandsKept, Holding, Handles, TypeOK
<1>3. ASSUME NEW s \in Symbols, Enqueue(s) PROVE Goal
  <2> DEFINE p == MarshalJob(<<s, sent[s] + 1>>, 0)
  <2>1. sent[s] + 1 \in 1 .. MaxJobs /\ sent[s] \in Nat
    BY <1>3, QueueAssumption DEF Enqueue, TypeOK
  <2>2. /\ <<s, sent[s] + 1>> \in Jobs
        /\ <<s, sent[s] + 1>>[1] = s /\ <<s, sent[s] + 1>>[2] = sent[s] + 1
    BY <2>1, JobParts
  <2>3. p \in Payload /\ p.job[1] = s /\ p.job[2] = sent[s] + 1
    BY <2>2, MarshalTypes DEF MarshalJob
  <2>4. (\E n \in Sends : LPush(s, p, n)) /\ UNCHANGED <<pc, raw>>
    BY <1>3 DEF Enqueue, goroutine
  <2> HIDE DEF p
  <2> QED BY <1>1, <2>3, <2>4 DEF Pushes
<1>4. ASSUME NEW c \in Consumers, Requeue(c) PROVE Goal
  <2> DEFINE p == MarshalBytes(MarshalJob(raw[c].job, Attempts(c)))
  <2>1. raw[c].job \in Jobs /\ Attempts(c) \in Nat /\ raw[c].job[1] = Sym(c)
    BY <1>4 DEF Requeue, TypeOK, Payload, Attempts, OwnSymbol, Holding
  <2>2. p \in Payload /\ p.job[1] = Sym(c)
    BY <2>1, MarshalTypes DEF MarshalJob
  <2>3. p.form = "base64"
    BY <2>1, MarshalTypes DEF MarshalBytes, Payload
  <2>4. UNCHANGED queue \/ \E n \in Sends : LPush(Sym(c), p, n)
    BY <1>4 DEF Requeue
  <2>5. Idle(c)
    BY <1>4 DEF Requeue
  <2> HIDE DEF p
  <2> QED BY <1>2, <2>2, <2>3, <2>4, <2>5, ConsumerParts DEF Pushes
<1>5. ASSUME NEW w \in Workers, NackStale(w) PROVE Goal
  <2> DEFINE p == Head(scan[w])
  <2>1. scan[w] # <<>> /\ Cleaners # {} /\ p \in Payload
    BY <1>5, HeadTailProperties DEF NackStale, OnlyCleanersScan, TypeOK
  <2>2. p.job[1] \in Symbols
    BY <2>1, JobParts DEF Payload
  <2>3. UNCHANGED queue \/ \E n \in Sends : LPush(p.job[1], p, n)
    BY <1>5 DEF NackStale
  <2>4. UNCHANGED <<pc, raw>>
    BY <1>5 DEF NackStale, goroutine
  <2> HIDE DEF p
  <2> QED BY <1>1, <2>1, <2>2, <2>3, <2>4 DEF Pushes
<1>6. ASSUME NEW c \in Consumers, ConsumerStep(c) PROVE Goal
  <2>1. CASE Return(c) \/ DiscardMalformed(c) \/ AckDelivered(c) \/ AbandonRetry(c)
             \/ InsertDeadLetter(c)
    BY <1>2, <2>1 DEF Return, DiscardMalformed, AckDelivered, AbandonRetry, InsertDeadLetter, redis
  <2>2. CASE PollTimeout(c) \/ HandlerOk(c) \/ HandlerError(c)
    BY <1>1, <2>2 DEF PollTimeout, HandlerOk, HandlerError, vars, redis, goroutine
  <2>3. CASE AckForRetry(c) \/ MoveToDeadLetter(c)
    <3>1. HandsKept
      BY <2>3 DEF AckForRetry, MoveToDeadLetter, HandlersDone, HandsKept, Holding, Handles, TypeOK
    <3> QED BY <2>3, <3>1 DEF AckForRetry, MoveToDeadLetter
  <2> QED BY <1>4, <1>6, <2>1, <2>2, <2>3 DEF ConsumerStep, QueueStep
<1>7. ASSUME NEW c \in Consumers, Start(c) \/ Cancel(c) PROVE Goal
  <2>1. HandsKept
    BY <1>7 DEF Start, Cancel, HandsKept, Holding, Handles, TypeOK
  <2> QED BY <1>7, <2>1 DEF Start, Cancel, redis
<1>8. ASSUME NEW w \in Workers, Crash(w) PROVE Goal
  <2>1. HandsKept
    BY <1>8 DEF Crash, HandsKept, Holding, Handles, TypeOK
  <2> QED BY <1>8, <2>1 DEF Crash, redis
<1>9. ASSUME (\E j \in Jobs : Age(j)) \/ (\E w \in Workers : SkipFresh(w))
             \/ (\E w \in Workers, s \in Symbols : CleanupScan(w, s)) \/ UNCHANGED vars
      PROVE  Goal
  BY <1>1, <1>9 DEF Age, SkipFresh, CleanupScan, vars, redis, goroutine
<1> QED BY <1>3, <1>5, <1>6, <1>7, <1>8, <1>9 DEF Next

(* Every step keeps a job with its symbol.                                 *)
LEMMA NextOwn ==
    ASSUME TypeOK, OwnSymbol, OnlyCleanersScan, [Next]_vars
    PROVE  OwnSymbol'
<1>1. ASSUME HandsKept,
             \A t \in Symbols : \A q \in Range(queue'[t]) :
                q \in Range(queue[t]) \/ q.job[1] = t
      PROVE  OwnSymbol'
  BY <1>1 DEF HandsKept, OwnSymbol
<1>2. ASSUME NEW s \in Symbols, NEW p \in Payload, NEW n \in Sends, Pushes(s, p, n), HandsKept
      PROVE  OwnSymbol'
  <2>1. Range(Pushed(queue[s], p, n)) = Range(queue[s]) \cup {p}
    BY PushedProperties DEF TypeOK
  <2>2. \A t \in Symbols :
           queue'[t] = IF t = s THEN Pushed(queue[s], p, n) ELSE queue[t]
    BY <1>2 DEF Pushes, LPush, TypeOK
  <2> QED BY <1>1, <1>2, <2>1, <2>2 DEF Pushes
<1>3. ASSUME NEW c \in Consumers, NEW reply \in BOOLEAN, Dequeue(c, reply)
      PROVE  OwnSymbol'
  <2> DEFINE s == Sym(c)
             p == Head(queue[s])
  <2>1. s \in Symbols /\ queue[s] # <<>>
    BY <1>3, ConsumerParts DEF Dequeue
  <2>2. /\ Range(queue[s]) = {p} \cup Range(Tail(queue[s]))
        /\ Range(<<p>> \o processing[s]) = {p} \cup Range(processing[s])
    BY <2>1, MovedProperties DEF TypeOK
  <2>3. /\ queue' = [queue EXCEPT ![s] = Tail(queue[s])]
        /\ \/ pc' = [pc EXCEPT ![c] = "handling"] /\ raw' = [raw EXCEPT ![c] = p]
           \/ UNCHANGED <<pc, raw>>
    BY <1>3 DEF Dequeue
  <2>4. p.job[1] = s
    BY <2>1, <2>2 DEF OwnSymbol
  <2> HIDE DEF p
  <2>5. \A t \in Symbols : \A q \in Range(queue'[t]) : q.job[1] = t
    BY <2>1, <2>2, <2>3 DEF TypeOK, OwnSymbol
  <2>6. \A d \in Consumers : Holding(d)' => raw'[d].job[1] = Sym(d)
    <3>1. CASE UNCHANGED <<pc, raw>>
      BY <3>1 DEF Holding, OwnSymbol
    <3>2. CASE pc' = [pc EXCEPT ![c] = "handling"] /\ raw' = [raw EXCEPT ![c] = p]
      <4>1. raw'[c] = p /\ \A d \in Consumers \ {c} : pc'[d] = pc[d] /\ raw'[d] = raw[d]
        BY <3>2 DEF TypeOK
      <4> QED BY <2>4, <4>1 DEF Holding, OwnSymbol
    <3> QED BY <2>3, <3>1, <3>2
  <2> QED BY <2>5, <2>6 DEF OwnSymbol
<1>4. CASE UNCHANGED queue /\ HandsKept
  BY <1>1, <1>4
<1> QED BY <1>2, <1>3, <1>4, QueueEffect

(* A context is not cancelled only by startLocked, which looks for a live  *)
(* goroutine of the symbol first.                                          *)
LEMMA LiveEffect ==
    ASSUME TypeOK, [Next]_vars
    PROVE  \/ \A c \in Consumers : live'[c] => live[c]
           \/ \E c \in Consumers : Start(c)
<1>1. ASSUME UNCHANGED live PROVE \A c \in Consumers : live'[c] => live[c]
  BY <1>1
<1>2. ASSUME NEW c \in Consumers, Cancel(c) PROVE \A d \in Consumers : live'[d] => live[d]
  BY <1>2 DEF Cancel, TypeOK
<1>3. ASSUME NEW w \in Workers, Crash(w) PROVE \A d \in Consumers : live'[d] => live[d]
  BY <1>3 DEF Crash
<1>4. ASSUME NEW c \in Consumers, ConsumerStep(c) PROVE UNCHANGED live
  BY <1>4 DEF ConsumerStep, QueueStep, vars, goroutine, Return, Dequeue, PollTimeout,
      DiscardMalformed, HandlerOk, HandlerError, AckDelivered, AckForRetry, AbandonRetry, Requeue,
      MoveToDeadLetter, InsertDeadLetter, Idle
<1>5. ASSUME \/ (\E s \in Symbols : Enqueue(s)) \/ (\E j \in Jobs : Age(j)) \/ UNCHANGED vars
             \/ \E c \in Consumers : Dequeue(c, FALSE)
             \/ \E w \in Workers : SkipFresh(w) \/ NackStale(w) \/ \E s \in Symbols : CleanupScan(w, s)
      PROVE  UNCHANGED live
  BY <1>5 DEF vars, goroutine, Enqueue, Age, Dequeue, CleanupScan, SkipFresh, NackStale
<1> QED BY <1>1, <1>2, <1>3, <1>4, <1>5 DEF Next

LEMMA NextOneLive ==
    ASSUME TypeOK, OneLive, [Next]_vars
    PROVE  OneLive'
<1>1. ASSUME NEW c \in Consumers, Start(c) PROVE OneLive'
  <2>1. /\ \A d \in Consumers : d[1] = c[1] /\ Sym(d) = Sym(c) => ~live[d]
        /\ live' = [live EXCEPT ![c] = TRUE]
    BY <1>1 DEF Start, LiveSiblings, Sym
  <2> QED BY <2>1 DEF OneLive, TypeOK, Sym
<1>2. ASSUME \A c \in Consumers : live'[c] => live[c] PROVE OneLive'
  BY <1>2 DEF OneLive, Sym
<1> QED BY <1>1, <1>2, LiveEffect

(* What holds of the queue in every state.                                 *)
QueueInv == LifecycleInv /\ OwnSymbol /\ OneLive

LEMMA NextQueue == ASSUME QueueInv, [Next]_vars PROVE QueueInv'
BY NextType, NextHandled, NextScan, NextKept, NextInvented, NextOwn, NextOneLive
   DEF QueueInv, LifecycleInv, Safe

LEMMA QueueInvariant == Spec => []QueueInv
<1>1. Init => OwnSymbol /\ OneLive
  BY DEF Init, OwnSymbol, OneLive, Holding, Range
<1>2. Init => QueueInv
  BY <1>1, InitLifecycle DEF QueueInv
<1>3. QueueInv /\ [Next]_vars => QueueInv'
  BY NextQueue
<1> QED BY <1>2, <1>3, PTL DEF Spec

-----------------------------------------------------------------------------
(* The order of a queue, while no cleanup pushes jobs of the past.         *)

(* A job comes before another one; when LPUSH may be carried out twice,    *)
(* a job may also come next to itself.                                     *)
Before(m, n) == IF Resends THEN m <= n ELSE m < n

Ascends(q) ==
    \A i, k \in DOMAIN q :
        i < k /\ q[i].form = "object" /\ q[k].form = "object"
           => Before(q[i].job[2], q[k].job[2])

(* The jobs on list q come after the m-th.                                 *)
Above(q, m) == \A p \in Range(q) : p.form = "object" => Before(m, p.job[2])

(* The jobs of a queue wait in the order of their signals, a job that is   *)
(* worked on comes before them, and it is worked on by one goroutine.      *)
QueueOrder ==
    /\ \A s \in Symbols : Ascends(queue[s])
    /\ \A c \in Consumers : Handles(c) => Above(queue[Sym(c)], raw[c].job[2])
    /\ ~Resends =>
          \A c, d \in Consumers :
             Handles(c) /\ Handles(d) /\ raw[c].job = raw[d].job => c = d

LEMMA PushAscends ==
    ASSUME NEW q \in Seq(Payload), NEW p \in Payload, NEW n \in Sends, Ascends(q),
           p.form = "object" => \A e \in Range(q) : e.form = "object" => e.job[2] < p.job[2]
    PROVE  Ascends(Pushed(q, p, n))
<1>0. \A e \in Payload : e.job[2] \in Nat
  BY JobParts DEF Payload
<1>1. Len(q) \in Nat /\ DOMAIN q = 1 .. Len(q) /\ \A i \in 1 .. Len(q) : q[i] \in Payload
  BY LenProperties
<1>2. \A i \in 1 .. Len(q) : q[i] \in Range(q)
  BY <1>1 DEF Range
<1>3. CASE n = 1
  <2> DEFINE r == Append(q, p)
  <2>1. DOMAIN r = 1 .. Len(q) + 1
    BY AppendProperties, LenProperties
  <2>2. \A i \in 1 .. Len(q) : r[i] = q[i]
    BY <1>1, AppendProperties
  <2>3. r[Len(q) + 1] = p /\ Pushed(q, p, n) = r
    BY <1>3, AppendProperties DEF Pushed
  <2> HIDE DEF r
  <2>4. ASSUME NEW i \in DOMAIN r, NEW k \in DOMAIN r, i < k,
               r[i].form = "object", r[k].form = "object"
        PROVE  Before(r[i].job[2], r[k].job[2])
    <3>1. i \in 1 .. Len(q) /\ r[i] = q[i]
      BY <1>1, <2>1, <2>2, <2>4
    <3>2. CASE k \in 1 .. Len(q)
      BY <1>1, <2>2, <2>4, <3>1, <3>2 DEF Ascends
    <3>3. CASE k = Len(q) + 1
      <4>1. r[i].job[2] < r[k].job[2]
        BY <1>2, <2>3, <2>4, <3>1, <3>3
      <4> QED BY <1>0, <1>1, <2>3, <3>1, <3>3, <4>1 DEF Before
    <3> QED BY <1>1, <2>1, <3>2, <3>3
  <2> QED BY <2>3, <2>4 DEF Ascends
<1>4. CASE n # 1
  <2> DEFINE r == q \o <<p, p>>
  <2>0. <<p, p>> \in Seq(Payload) /\ Len(<<p, p>>) = 2 /\ <<p, p>>[1] = p /\ <<p, p>>[2] = p
    OBVIOUS
  <2>1. /\ DOMAIN r = 1 .. Len(q) + 2
        /\ \A i \in 1 .. Len(q) + 2 : r[i] = IF i <= Len(q) THEN q[i] ELSE p
    BY <2>0, ConcatProperties, LenProperties
  <2>2. Resends /\ Pushed(q, p, n) = r
    BY <1>4 DEF Pushed, Sends
  <2> HIDE DEF r
  <2>4. ASSUME NEW i \in DOMAIN r, NEW k \in DOMAIN r, i < k,
               r[i].form = "object", r[k].form = "object"
        PROVE  Before(r[i].job[2], r[k].job[2])
    <3>1. CASE k \in 1 .. Len(q)
      <4>1. i \in 1 .. Len(q) /\ r[i] = q[i] /\ r[k] = q[k]
        BY <1>1, <2>1, <2>4, <3>1
      <4> QED BY <1>1, <2>4, <3>1, <4>1 DEF Ascends
    <3>2. CASE k \notin 1 .. Len(q) /\ i \in 1 .. Len(q)
      <4>1. r[i] = q[i] /\ r[k] = p
        BY <1>1, <2>1, <3>2
      <4>2. r[i].job[2] < r[k].job[2]
        BY <1>2, <2>4, <3>2, <4>1
      <4> QED BY <1>0, <1>1, <3>2, <4>1, <4>2 DEF Before
    <3>3. CASE k \notin 1 .. Len(q) /\ i \notin 1 .. Len(q)
      <4>1. r[i] = p /\ r[k] = p
        BY <1>1, <2>1, <3>3
      <4> QED BY <1>0, <2>2, <4>1 DEF Before
    <3> QED BY <3>1, <3>2, <3>3
  <2> QED BY <2>2, <2>4 DEF Ascends
<1> QED BY <1>3, <1>4

(* The head comes before the rest.                                         *)
LEMMA TailAscends ==
    ASSUME NEW q \in Seq(Payload), q # <<>>, Ascends(q)
    PROVE  /\ Ascends(Tail(q))
           /\ Range(Tail(q)) \subseteq Range(q)
           /\ Head(q) \in Range(q) /\ Head(q) \in Payload
           /\ Head(q).form = "object" => Above(Tail(q), Head(q).job[2])
<1>1. /\ Len(q) \in Nat \ {0} /\ DOMAIN q = 1 .. Len(q)
      /\ DOMAIN Tail(q) = 1 .. Len(q) - 1
      /\ \A i \in 1 .. Len(q) - 1 : Tail(q)[i] = q[i + 1]
      /\ Head(q) = q[1] /\ Head(q) \in Payload
  BY HeadTailProperties, LenProperties, EmptySeq
<1>2. \A i \in DOMAIN Tail(q) : i + 1 \in DOMAIN q /\ 1 \in DOMAIN q /\ 1 < i + 1
  BY <1>1
<1>3. Ascends(Tail(q))
  <2>1. ASSUME NEW i \in DOMAIN Tail(q), NEW k \in DOMAIN Tail(q), i < k
        PROVE  i + 1 < k + 1
    BY <1>1, <2>1
  <2> QED BY <1>1, <1>2, <2>1 DEF Ascends
<1>4. Range(Tail(q)) \subseteq Range(q) /\ Head(q) \in Range(q)
  BY <1>1, <1>2 DEF Range
<1>5. Head(q).form = "object" => Above(Tail(q), Head(q).job[2])
  BY <1>1, <1>2 DEF Ascends, Above, Range
<1> QED BY <1>1, <1>3, <1>4, <1>5

(* The next signal comes after all that were enqueued.                     *)
LEMMA NextSignal ==
    ASSUME QueueInv, Cleaners = {}, NEW s \in Symbols, NEW p \in Payload, NEW n \in Sends,
           Pushes(s, p, n)
    PROVE  /\ \A t \in Symbols : queue'[t] = IF t = s THEN Pushed(queue[s], p, n) ELSE queue[t]
           /\ Range(Pushed(queue[s], p, n)) = Range(queue[s]) \cup {p}
           /\ p.form = "object" => \A j \in SentJobs : j[1] = s => j[2] < p.job[2]
<1>1. TypeOK
  BY DEF QueueInv, LifecycleInv, Safe
<1>2. \A t \in Symbols : queue'[t] = IF t = s THEN Pushed(queue[s], p, n) ELSE queue[t]
  BY <1>1 DEF Pushes, LPush, TypeOK
<1>3. Range(Pushed(queue[s], p, n)) = Range(queue[s]) \cup {p}
  BY <1>1, PushedProperties DEF TypeOK
<1>4. sent[s] \in Nat /\ \A j \in SentJobs : j[2] \in Nat /\ (j[1] = s => j[2] <= sent[s])
  BY <1>1, JobParts DEF TypeOK, SentJobs, Enqueued
<1> QED BY <1>2, <1>3, <1>4 DEF Pushes

(* What is behind the queue stays behind it.                               *)
LEMMA AboveKept ==
    ASSUME QueueInv, QueueOrder, Cleaners = {}, [Next]_vars,
           NEW j \in SentJobs, Above(queue[j[1]], j[2])
    PROVE  Above(queue'[j[1]], j[2])
<1>1. TypeOK /\ OwnSymbol /\ OnlyCleanersScan
  BY DEF QueueInv, LifecycleInv, Safe
<1>2. j[1] \in Symbols /\ j[2] \in Nat
  BY JobParts DEF SentJobs
<1>3. CASE UNCHANGED queue
  BY <1>3
<1>4. ASSUME NEW s \in Symbols, NEW p \in Payload, NEW n \in Sends, Pushes(s, p, n)
      PROVE  Above(queue'[j[1]], j[2])
  <2>1. p.job[2] \in Nat
    BY JobParts DEF Payload
  <2> QED BY <1>2, <1>4, <2>1, NextSignal DEF Above, Before
<1>5. ASSUME NEW c \in Consumers, NEW reply \in BOOLEAN, Dequeue(c, reply)
      PROVE  Above(queue'[j[1]], j[2])
  <2>1. /\ queue' = [queue EXCEPT ![Sym(c)] = Tail(queue[Sym(c)])]
        /\ queue[Sym(c)] # <<>> /\ Sym(c) \in Symbols
    BY <1>5, ConsumerParts DEF Dequeue
  <2>2. Range(Tail(queue[Sym(c)])) \subseteq Range(queue[Sym(c)])
    BY <1>1, <2>1, TailAscends DEF TypeOK, QueueOrder
  <2> QED BY <1>1, <1>2, <2>1, <2>2 DEF Above, TypeOK
<1> QED BY <1>1, <1>3, <1>4, <1>5, QueueEffect

(* What a goroutine handles was enqueued, for its symbol.                  *)
LEMMA HandledJob ==
    ASSUME QueueInv, NEW c \in Consumers, Handles(c)
    PROVE  /\ raw[c] \in Payload /\ raw[c].job \in Jobs /\ raw[c].job \in SentJobs
           /\ raw[c].job[1] = Sym(c) /\ raw[c].job[2] \in Nat /\ Sym(c) \in Symbols
<1>1. Holding(c) /\ raw[c] \in Payload
  BY DEF Handles, Holding, QueueInv, LifecycleInv, Safe, TypeOK
<1>2. raw[c].job \in SentJobs /\ raw[c].job[1] = Sym(c)
  BY <1>1 DEF QueueInv, LifecycleInv, NothingInvented, OwnSymbol
<1> QED BY <1>1, <1>2, JobParts, ConsumerParts DEF SentJobs

LEMMA NextOrder ==
    ASSUME QueueInv, QueueOrder, Cleaners = {}, [Next]_vars
    PROVE  QueueOrder'
<1>1. TypeOK /\ OwnSymbol /\ OnlyCleanersScan
  BY DEF QueueInv, LifecycleInv, Safe
<1>2. ASSUME NEW c \in Consumers, Handles(c), raw'[c] = raw[c]
      PROVE  Above(queue'[Sym(c)], raw'[c].job[2])
  <2>1. raw[c].job \in SentJobs /\ raw[c].job[1] = Sym(c)
    BY <1>2, HandledJob
  <2>2. ASSUME NEW j \in SentJobs, j = raw[c].job PROVE Above(queue'[Sym(c)], j[2])
    BY <1>2, <2>1, <2>2, AboveKept DEF QueueOrder
  <2> QED BY <1>2, <2>1, <2>2
<1>3. ASSUME HandsKept, \A s \in Symbols : Ascends(queue'[s]) PROVE QueueOrder'
  <2>1. \A c \in Consumers : Handles(c)' => Handles(c) /\ raw'[c] = raw[c]
    BY <1>3 DEF HandsKept, Handles, Holding
  <2> QED BY <1>2, <1>3, <2>1 DEF QueueOrder, Sym
<1>4. ASSUME NEW s \in Symbols, NEW p \in Payload, NEW n \in Sends, Pushes(s, p, n), HandsKept
      PROVE  QueueOrder'
  <2>1. \A e \in Range(queue[s]) : e.job \in SentJobs /\ e.job[1] = s
    BY <1>1 DEF QueueInv, LifecycleInv, NothingInvented, OwnSymbol
  <2>2. p.form = "object" => \A e \in Range(queue[s]) : e.job[2] < p.job[2]
    BY <1>4, <2>1, NextSignal
  <2>3. Ascends(Pushed(queue[s], p, n))
    BY <1>1, <2>2, PushAscends DEF TypeOK, QueueOrder
  <2>4. \A t \in Symbols : Ascends(queue'[t])
    BY <1>4, <2>3, NextSignal DEF QueueOrder
  <2> QED BY <1>3, <1>4, <2>4
<1>5. ASSUME NEW c \in Consumers, NEW reply \in BOOLEAN, Dequeue(c, reply)
      PROVE  QueueOrder'
  <2> DEFINE s == Sym(c)
  <2>1. PICK p : p = Head(queue[s])
    OBVIOUS
  <2>2. /\ queue' = [queue EXCEPT ![s] = Tail(queue[s])]
        /\ queue[s] # <<>> /\ s \in Symbols
        /\ \/ pc' = [pc EXCEPT ![c] = "handling"] /\ raw' = [raw EXCEPT ![c] = p]
           \/ UNCHANGED <<pc, raw>>
    BY <1>5, <2>1, ConsumerParts DEF Dequeue
  <2>3. /\ Ascends(Tail(queue[s])) /\ p \in Range(queue[s]) /\ p \in Payload
        /\ p.form = "object" => Above(Tail(queue[s]), p.job[2])
    BY <1>1, <2>1, <2>2, TailAscends DEF TypeOK, QueueOrder
  <2>4. \A t \in Symbols : Ascends(queue'[t])
    BY <1>1, <2>2, <2>3 DEF TypeOK, QueueOrder
  <2>5. CASE UNCHANGED <<pc, raw>>
    BY <1>3, <2>4, <2>5 DEF HandsKept, Holding, Handles
  <2>6. CASE pc' = [pc EXCEPT ![c] = "handling"] /\ raw' = [raw EXCEPT ![c] = p]
    <3>1. /\ raw'[c] = p /\ pc'[c] = "handling"
          /\ \A d \in Consumers \ {c} : (Handles(d)' <=> Handles(d)) /\ raw'[d] = raw[d]
      BY <1>1, <2>6 DEF TypeOK, Handles
    <3>2. Handles(c)' => Above(queue'[s], p.job[2])
      BY <1>1, <2>2, <2>3, <3>1 DEF Handles, TypeOK
    <3>3. \A d \in Consumers : Handles(d)' => Above(queue'[Sym(d)], raw'[d].job[2])
      BY <1>2, <3>1, <3>2
    <3>4. ASSUME NEW d \in Consumers \ {c}, ~Resends, Handles(c)', Handles(d)', raw'[d].job = raw'[c].job
          PROVE  FALSE
      <4>1. Handles(d) /\ raw[d].job = p.job
        BY <3>1, <3>4
      <4>2. p.job[1] = s /\ raw[d].job[1] = Sym(d) /\ raw[d].job[2] \in Nat
        BY <1>1, <2>2, <2>3, <4>1, HandledJob DEF OwnSymbol
      <4>3. Before(raw[d].job[2], p.job[2])
        BY <2>3, <3>1, <3>4, <4>1, <4>2 DEF QueueOrder, Above, Handles
      <4> QED BY <3>4, <4>1, <4>2, <4>3 DEF Before
    <3>5. ~Resends => \A a, b \in Consumers :
             Handles(a)' /\ Handles(b)' /\ raw'[a].job = raw'[b].job => a = b
      BY <3>1, <3>4 DEF QueueOrder
    <3> QED BY <2>4, <3>3, <3>5 DEF QueueOrder, Sym
  <2> QED BY <2>2, <2>5, <2>6
<1>6. CASE UNCHANGED queue /\ HandsKept
  BY <1>3, <1>6 DEF QueueOrder
<1> QED BY <1>1, <1>4, <1>5, <1>6, QueueEffect

LEMMA OrderInvariant ==
    ASSUME Cleaners = {}
    PROVE  Spec => []QueueOrder
<1>1. Init => QueueOrder
  BY DEF Init, QueueOrder, Ascends, Handles, Above
<1>2. QueueInv /\ QueueOrder /\ [Next]_vars => QueueOrder'
  BY NextOrder
<1> QED BY <1>1, <1>2, QueueInvariant, PTL DEF Spec

-----------------------------------------------------------------------------
(* One copy of a job that can be decoded, while a client that does not     *)
(* send again and one cleanup at most are at work.                         *)

OneCleaner == \A v, w \in Cleaners : v = w

Objects(q) == {p \in Range(q) : p.form = "object"}

Distinct(q) ==
    \A i, k \in DOMAIN q :
        q[i].form = "object" /\ q[k].form = "object" /\ q[i].job = q[k].job => i = k

(* No object on the first list is of a job of an object on the second.     *)
Apart(q, r) == \A x \in Objects(q), y \in Objects(r) : x.job # y.job

(* A retry is base64, so an object is the one that the server pushed: two  *)
(* of one job are equal.  A snapshot is stale only in that the job may be  *)
(* acknowledged by now; it is never of a job that is back on the queue.    *)
SingleInv ==
    /\ \A s \in Symbols :
          /\ Distinct(queue[s]) /\ Distinct(processing[s])
          /\ Apart(queue[s], processing[s])
          /\ \A p \in Objects(queue[s]) \cup Objects(processing[s]) :
                p.attempts = 0 /\ p.job[1] = s
    /\ \A w \in Workers :
          /\ Distinct(scan[w])
          /\ \A p \in Objects(scan[w]) : p.attempts = 0
          /\ \A s \in Symbols : Apart(scan[w], queue[s])

(* A list with elements taken out.                                         *)
Reduces(u, q) == Objects(u) \subseteq Objects(q) /\ (Distinct(q) => Distinct(u))

LEMMA RemovedReduces ==
    ASSUME NEW q \in Seq(Payload), NEW e
    PROVE  /\ Reduces(RemoveFirst(q, e), q)
           /\ e.form = "object" /\ Distinct(q)
              /\ (\A x \in Objects(q) : x.job = e.job => x = e)
                 => \A x \in Objects(RemoveFirst(q, e)) : x.job # e.job
<1> DEFINE u == RemoveFirst(q, e)
<1>1. DOMAIN q = 1 .. Len(q) /\ Len(q) \in Nat
  BY LenProperties
<1>2. (e \notin Range(q) /\ u = q) \/ \E k \in 1 .. Len(q) : Without(u, q, k, e)
  BY RemoveFirstShape
<1> HIDE DEF u
<1>3. CASE e \notin Range(q) /\ u = q
  BY <1>3 DEF Reduces, Objects, u
<1>4. ASSUME NEW k \in 1 .. Len(q), Without(u, q, k, e)
      PROVE  /\ Reduces(u, q)
             /\ e.form = "object" /\ Distinct(q)
                /\ (\A x \in Objects(q) : x.job = e.job => x = e)
                   => \A x \in Objects(u) : x.job # e.job
  <2> DEFINE f(i) == IF i <= k - 1 THEN i ELSE i + 1
  <2>1. /\ \A i \in DOMAIN u : f(i) \in DOMAIN q /\ u[i] = q[f(i)] /\ f(i) # k
        /\ \A i, m \in DOMAIN u : f(i) = f(m) => i = m
        /\ k \in DOMAIN q /\ q[k] = e
    BY <1>1, <1>4 DEF Without
  <2> HIDE DEF f
  <2>2. Range(u) \subseteq Range(q)
    BY <2>1 DEF Range
  <2>3. Reduces(u, q)
    BY <2>1, <2>2 DEF Reduces, Objects, Distinct
  <2>4. ASSUME e.form = "object", Distinct(q), \A x \in Objects(q) : x.job = e.job => x = e,
               NEW x \in Objects(u)
        PROVE  x.job # e.job
    <3>1. PICK i \in DOMAIN u : u[i] = x /\ x.form = "object"
      BY DEF Objects, Range
    <3> QED BY <2>1, <2>4, <3>1 DEF Distinct
  <2> QED BY <2>3, <2>4
<1> QED BY <1>2, <1>3, <1>4 DEF u

LEMMA TailReduces ==
    ASSUME NEW q \in Seq(Payload), q # <<>>
    PROVE  /\ Reduces(Tail(q), q)
           /\ Head(q) \in Range(q) /\ Head(q) \in Payload
           /\ Head(q).form = "object" => Head(q) \in Objects(q)
           /\ Head(q).form = "object" /\ Distinct(q)
                => \A x \in Objects(Tail(q)) : x.job # Head(q).job
<1>1. /\ Len(q) \in Nat \ {0} /\ DOMAIN q = 1 .. Len(q)
      /\ DOMAIN Tail(q) = 1 .. Len(q) - 1
      /\ \A i \in 1 .. Len(q) - 1 : Tail(q)[i] = q[i + 1]
      /\ Head(q) = q[1] /\ Head(q) \in Payload
  BY HeadTailProperties, LenProperties, EmptySeq
<1> DEFINE u == Tail(q)
<1>2. /\ \A i \in DOMAIN u : i + 1 \in DOMAIN q /\ u[i] = q[i + 1] /\ i + 1 # 1
      /\ \A i, m \in DOMAIN u : i + 1 = m + 1 => i = m
      /\ 1 \in DOMAIN q
  BY <1>1
<1> HIDE DEF u
<1>3. Range(u) \subseteq Range(q) /\ Head(q) \in Range(q)
  BY <1>1, <1>2 DEF Range
<1>4. Reduces(u, q)
  BY <1>2, <1>3 DEF Reduces, Objects, Distinct
<1>5. ASSUME Head(q).form = "object", Distinct(q), NEW x \in Objects(u)
      PROVE  x.job # Head(q).job
  <2>1. PICK i \in DOMAIN u : u[i] = x /\ x.form = "object"
    BY DEF Objects, Range
  <2> QED BY <1>1, <1>2, <1>5, <2>1 DEF Distinct
<1> QED BY <1>1, <1>3, <1>4, <1>5 DEF Objects, u

(* A job that is not on the list is added at one end of it.                *)
LEMMA AddedDistinct ==
    ASSUME NEW q \in Seq(Payload), NEW p \in Payload, Distinct(q),
           p.form = "object" => \A x \in Objects(q) : x.job # p.job
    PROVE  /\ Distinct(Append(q, p)) /\ Distinct(<<p>> \o q)
           /\ Range(Append(q, p)) = Range(q) \cup {p}
           /\ Range(<<p>> \o q) = Range(q) \cup {p}
<1>1. DOMAIN q = 1 .. Len(q) /\ Len(q) \in Nat
  BY LenProperties
<1>2. \A i \in DOMAIN q : q[i] \in Range(q)
  BY DEF Range
<1>3. p.form = "object" => \A i \in DOMAIN q : q[i].form = "object" => q[i].job # p.job
  BY <1>2 DEF Objects
<1>4. ASSUME NEW u, NEW f, NEW k,
             k \in DOMAIN u, u[k] = p,
             \A i \in DOMAIN u : i # k => f[i] \in DOMAIN q /\ u[i] = q[f[i]],
             \A i, m \in DOMAIN u : f[i] = f[m] => i = m
      PROVE  Distinct(u)
  <2>2. ASSUME NEW i \in DOMAIN u, NEW m \in DOMAIN u, u[i].form = "object", u[m].form = "object",
               u[i].job = u[m].job
        PROVE  i = m
    <3>1. CASE i = k \/ m = k
      BY <1>3, <1>4, <2>2, <3>1
    <3>2. CASE i # k /\ m # k
      <4>1. PICK a \in DOMAIN q, b \in DOMAIN q : a = f[i] /\ b = f[m] /\ u[i] = q[a] /\ u[m] = q[b]
        BY <1>4, <3>2
      <4>2. a = b
        BY <2>2, <4>1 DEF Distinct
      <4> QED BY <1>4, <4>1, <4>2
    <3> QED BY <3>1, <3>2
  <2> QED BY <2>2 DEF Distinct
<1>5. Distinct(Append(q, p))
  <2> DEFINE u == Append(q, p)
  <2>1. /\ DOMAIN u = 1 .. Len(q) + 1 /\ u[Len(q) + 1] = p
        /\ \A i \in 1 .. Len(q) : u[i] = q[i]
    BY <1>1, AppendProperties, LenProperties
  <2> HIDE DEF u
  <2>2. PICK f : f = [i \in DOMAIN u |-> i]
    OBVIOUS
  <2>3. PICK k : k = Len(q) + 1
    OBVIOUS
  <2>4. /\ k \in DOMAIN u /\ u[k] = p
        /\ \A i \in DOMAIN u : i # k => f[i] \in DOMAIN q /\ u[i] = q[f[i]]
        /\ \A i, m \in DOMAIN u : f[i] = f[m] => i = m
    BY <1>1, <2>1, <2>2, <2>3
  <2>5. Distinct(u)
    BY <1>4, <2>4
  <2> QED BY <2>5 DEF u
<1>6. Distinct(<<p>> \o q)
  <2> DEFINE u == <<p>> \o q
  <2>1. <<p>> \in Seq(Payload) /\ Len(<<p>>) = 1 /\ <<p>>[1] = p
    OBVIOUS
  <2>2. /\ DOMAIN u = 1 .. Len(q) + 1
        /\ \A i \in 1 .. Len(q) + 1 : u[i] = IF i = 1 THEN p ELSE q[i - 1]
    BY <1>1, <2>1, ConcatProperties, LenProperties
  <2> HIDE DEF u
  <2>3. PICK f : f = [i \in DOMAIN u |-> i - 1]
    OBVIOUS
  <2>4. /\ 1 \in DOMAIN u /\ u[1] = p
        /\ \A i \in DOMAIN u : i # 1 => f[i] \in DOMAIN q /\ u[i] = q[f[i]]
        /\ \A i, m \in DOMAIN u : f[i] = f[m] => i = m
    BY <1>1, <2>2, <2>3
  <2>5. Distinct(u)
    BY <1>4, <2>4
  <2> QED BY <2>5 DEF u
<1>7. Range(Append(q, p)) = Range(q) \cup {p}
  <2>1. Append(q, p) = Pushed(q, p, 1)
    BY DEF Pushed
  <2>2. Range(Pushed(q, p, 1)) = Range(q) \cup {p}
    BY PushedProperties
  <2> QED BY <2>1, <2>2
<1>8. Range(<<p>> \o q) = Range(q) \cup {p}
  <2>1. ASSUME NEW s \in Seq(Payload), s # <<>>
        PROVE  Range(<<Head(s)>> \o q) = {Head(s)} \cup Range(q)
    BY <2>1, MovedProperties
  <2>2. <<p>> \in Seq(Payload) /\ <<p>> # <<>> /\ Head(<<p>>) = p
    OBVIOUS
  <2> QED BY <2>1, <2>2
<1> QED BY <1>5, <1>6, <1>7, <1>8

(* What a step does to the lists and the snapshots.                        *)
ListsKept ==
    /\ \A s \in Symbols :
          Reduces(queue'[s], queue[s]) /\ Reduces(processing'[s], processing[s])
    /\ \A w \in Workers : Reduces(scan'[w], scan[w])

LEMMA SameReduces ==
    \A q : Reduces(q, q)
BY DEF Reduces

LEMMA SingleKept == ASSUME SingleInv, ListsKept PROVE SingleInv'
<1>1. ASSUME NEW s \in Symbols
      PROVE  /\ Distinct(queue'[s]) /\ Distinct(processing'[s])
             /\ Apart(queue'[s], processing'[s])
             /\ \A p \in Objects(queue'[s]) \cup Objects(processing'[s]) :
                   p.attempts = 0 /\ p.job[1] = s
  BY DEF SingleInv, ListsKept, Reduces, Apart
<1>2. ASSUME NEW w \in Workers
      PROVE  /\ Distinct(scan'[w])
             /\ \A p \in Objects(scan'[w]) : p.attempts = 0
             /\ \A s \in Symbols : Apart(scan'[w], queue'[s])
  BY DEF SingleInv, ListsKept, Reduces, Apart
<1> QED BY <1>1, <1>2 DEF SingleInv

(* LREM takes elements out of one list.                                    *)
LEMMA LRemReduces ==
    ASSUME TypeOK, ~Resends, NEW s \in Symbols, NEW e, NEW n \in Sends, LRem(s, e, n)
    PROVE  \A t \in Symbols :
              /\ Reduces(processing'[t], processing[t])
              /\ processing'[t] = IF t = s THEN RemoveFirst(processing[s], e) ELSE processing[t]
<1>1. n = 1
  BY DEF Sends
<1>2. \A t \in Symbols :
         processing'[t] = IF t = s THEN RemoveFirst(processing[s], e) ELSE processing[t]
  BY <1>1 DEF LRem, Removed, TypeOK
<1> QED BY <1>2, RemovedReduces, SameReduces DEF TypeOK

LEMMA AckReduces ==
    ASSUME TypeOK, ~Resends, NEW c \in Consumers, AckJob(c)
    PROVE  \A t \in Symbols : Reduces(processing'[t], processing[t])
BY LRemReduces, SameReduces, ConsumerParts DEF AckJob

(* A push of what is no object, or is one of a job on no list.             *)
LEMMA LPushSingle ==
    ASSUME TypeOK, SingleInv, ~Resends, NEW s \in Symbols, NEW p \in Payload, NEW n \in Sends,
           LPush(s, p, n), UNCHANGED scan,
           \A t \in Symbols : Reduces(processing'[t], processing[t]),
           p.form = "object" =>
              /\ p.attempts = 0 /\ p.job[1] = s
              /\ \A x \in Objects(queue[s]) \cup Objects(processing'[s]) : x.job # p.job
              /\ \A w \in Workers : \A x \in Objects(scan[w]) : x.job # p.job
    PROVE  SingleInv'
<1>0. Pushed(queue[s], p, n) = Append(queue[s], p)
  BY DEF Sends, Pushed
<1>1. \A t \in Symbols : queue'[t] = IF t = s THEN Append(queue[s], p) ELSE queue[t]
  BY <1>0 DEF LPush, TypeOK
<1>2. /\ Distinct(Append(queue[s], p))
      /\ Range(Append(queue[s], p)) = Range(queue[s]) \cup {p}
  <2>1. queue[s] \in Seq(Payload) /\ Distinct(queue[s])
    BY DEF SingleInv, TypeOK
  <2> QED BY <2>1, AddedDistinct
<1>3. ASSUME NEW t \in Symbols
      PROVE  /\ Distinct(queue'[t])
             /\ \A x \in Objects(queue'[t]) :
                   x \in Objects(queue[t]) \/ (t = s /\ x = p /\ p.form = "object")
  BY <1>1, <1>2 DEF Objects, SingleInv
<1>4. ASSUME NEW t \in Symbols
      PROVE  /\ Distinct(queue'[t]) /\ Distinct(processing'[t])
             /\ Apart(queue'[t], processing'[t])
             /\ \A x \in Objects(queue'[t]) \cup Objects(processing'[t]) :
                   x.attempts = 0 /\ x.job[1] = t
  BY <1>3 DEF SingleInv, Reduces, Apart
<1>5. ASSUME NEW w \in Workers
      PROVE  /\ Distinct(scan'[w])
             /\ \A x \in Objects(scan'[w]) : x.attempts = 0
             /\ \A t \in Symbols : Apart(scan'[w], queue'[t])
  BY <1>3 DEF SingleInv, Apart
<1> QED BY <1>4, <1>5 DEF SingleInv

LEMMA DequeueSingle ==
    ASSUME TypeOK, SingleInv, NEW c \in Consumers, NEW reply \in BOOLEAN, Dequeue(c, reply)
    PROVE  SingleInv'
<1> DEFINE s == Sym(c)
<1>1. PICK p : p = Head(queue[s])
  OBVIOUS
<1>2. /\ s \in Symbols /\ queue[s] # <<>>
      /\ queue' = [queue EXCEPT ![s] = Tail(queue[s])]
      /\ processing' = [processing EXCEPT ![s] = <<p>> \o processing[s]]
      /\ UNCHANGED scan
  BY <1>1, ConsumerParts DEF Dequeue, cleanup
<1> HIDE DEF s
<1>3. /\ p \in Payload /\ Reduces(Tail(queue[s]), queue[s])
      /\ p.form = "object" =>
            p \in Objects(queue[s]) /\ \A x \in Objects(Tail(queue[s])) : x.job # p.job
  BY <1>1, <1>2, TailReduces DEF TypeOK, SingleInv
<1>4. p.form = "object" => \A x \in Objects(processing[s]) : x.job # p.job
  BY <1>2, <1>3 DEF SingleInv, Apart
<1>5. /\ Distinct(<<p>> \o processing[s])
      /\ Range(<<p>> \o processing[s]) = Range(processing[s]) \cup {p}
  BY <1>2, <1>3, <1>4, AddedDistinct DEF SingleInv, TypeOK
<1>6. ASSUME NEW t \in Symbols
      PROVE  /\ Reduces(queue'[t], queue[t])
             /\ Distinct(processing'[t])
             /\ \A x \in Objects(processing'[t]) :
                   x \in Objects(processing[t]) \/ (t = s /\ x = p /\ p.form = "object")
  BY <1>2, <1>3, <1>5, SameReduces DEF Objects, SingleInv, TypeOK
<1>7. queue'[s] = Tail(queue[s])
  BY <1>2 DEF TypeOK
<1>8. ASSUME NEW t \in Symbols
      PROVE  /\ Distinct(queue'[t]) /\ Distinct(processing'[t])
             /\ Apart(queue'[t], processing'[t])
             /\ \A x \in Objects(queue'[t]) \cup Objects(processing'[t]) :
                   x.attempts = 0 /\ x.job[1] = t
  BY <1>3, <1>6, <1>7 DEF SingleInv, Reduces, Apart
<1>9. ASSUME NEW w \in Workers
      PROVE  /\ Distinct(scan'[w])
             /\ \A x \in Objects(scan'[w]) : x.attempts = 0
             /\ \A t \in Symbols : Apart(scan'[w], queue'[t])
  <2>1. Distinct(scan[w]) /\ \A x \in Objects(scan[w]) : x.attempts = 0
    BY DEF SingleInv
  <2>2. ASSUME NEW t \in Symbols PROVE Apart(scan[w], queue'[t])
    BY <1>6 DEF SingleInv, Apart, Reduces
  <2> QED BY <1>2, <2>1, <2>2
<1> QED BY <1>8, <1>9 DEF SingleInv

(* The snapshot of a cleanup, and what it pushes back: the job is not on   *)
(* the queue, its copy in the processing list - if the goroutine has not   *)
(* acknowledged it by now - is the one LREM takes away, and there is no    *)
(* other cleanup to push it a second time.                                 *)
LEMMA CleanupSingle ==
    ASSUME TypeOK, SingleInv, OwnSymbol, OnlyCleanersScan, ~Resends, OneCleaner,
           NEW w \in Workers,
           NackStale(w) \/ SkipFresh(w) \/ Crash(w) \/ \E s \in Symbols : CleanupScan(w, s)
    PROVE  SingleInv'
<1>1. CASE Crash(w)
  <2>1. UNCHANGED <<queue, processing>> /\ scan' = [scan EXCEPT ![w] = <<>>]
    BY <1>1 DEF Crash, redis
  <2>2. Reduces(<<>>, scan[w])
    BY DEF Reduces, Objects, Range, Distinct
  <2> QED BY <2>1, <2>2, SameReduces, SingleKept DEF ListsKept, TypeOK
<1>2. ASSUME NEW s \in Symbols, CleanupScan(w, s) PROVE SingleInv'
  <2>1. UNCHANGED <<queue, processing>> /\ scan' = [scan EXCEPT ![w] = processing[s]]
    BY <1>2 DEF CleanupScan, redis
  <2>2. \A t \in Symbols : Apart(processing[s], queue[t])
    BY DEF SingleInv, Apart
  <2>3. \A v \in Workers : scan'[v] = IF v = w THEN processing[s] ELSE scan[v]
    BY <2>1 DEF TypeOK
  <2> QED BY <2>1, <2>2, <2>3 DEF SingleInv
<1>3. ASSUME NackStale(w) \/ SkipFresh(w) PROVE SingleInv'
  <2>1. /\ scan[w] # <<>> /\ w \in Cleaners
        /\ \A v \in Workers : scan'[v] = IF v = w THEN Tail(scan[w]) ELSE scan[v]
    BY <1>3 DEF NackStale, SkipFresh, OnlyCleanersScan, TypeOK
  <2>2. PICK p \in Payload : p = Head(scan[w])
    BY <2>1, TailReduces DEF TypeOK
  <2>3. /\ Reduces(Tail(scan[w]), scan[w])
        /\ p.form = "object" =>
              p \in Objects(scan[w]) /\ \A x \in Objects(Tail(scan[w])) : x.job # p.job
    BY <2>1, <2>2, TailReduces DEF TypeOK, SingleInv
  <2>4. \A v \in Workers : Reduces(scan'[v], scan[v])
    BY <2>1, <2>3, SameReduces
  <2>5. CASE UNCHANGED <<queue, processing>>
    BY <2>4, <2>5, SameReduces, SingleKept DEF ListsKept
  <2>6. p.job[1] \in Symbols
    BY JobParts DEF Payload
  <2>7. CASE UNCHANGED queue /\ LRem(p.job[1], p, 1)
    <3>1. \A t \in Symbols : Reduces(processing'[t], processing[t])
      BY <2>6, <2>7, LRemReduces DEF Sends
    <3> QED BY <2>4, <2>7, <3>1, SameReduces, SingleKept DEF ListsKept
  <2>8. ASSUME NEW n \in Sends, p.form = "object", LRem(p.job[1], p, n), LPush(p.job[1], p, n)
        PROVE  SingleInv'
    <3>1. PICK s \in Symbols : s = p.job[1]
      BY <2>6
    <3>2. /\ \A t \in Symbols : Reduces(processing'[t], processing[t])
          /\ processing'[s] = RemoveFirst(processing[s], p)
      BY <2>8, <3>1, LRemReduces
    <3>3. p.attempts = 0 /\ \A x \in Objects(queue[s]) : x.job # p.job
      BY <2>3, <2>8 DEF SingleInv, Apart
    <3>4. ASSUME NEW x \in Objects(processing[s]), x.job = p.job PROVE x = p
      <4>1. x \in Payload /\ x.form = "object" /\ x.attempts = 0
        <5>1. x \in Range(processing[s]) /\ processing[s] \in Seq(Payload)
          BY DEF Objects, TypeOK
        <5>2. x \in Payload
          BY <5>1, LenProperties DEF Range
        <5> QED BY <5>2 DEF Objects, SingleInv
      <4> QED BY <2>8, <3>3, <3>4, <4>1 DEF Payload
    <3>5. \A x \in Objects(processing'[s]) : x.job # p.job
      <4>1. processing[s] \in Seq(Payload) /\ Distinct(processing[s])
        BY DEF SingleInv, TypeOK
      <4>2. \A x \in Objects(RemoveFirst(processing[s], p)) : x.job # p.job
        BY <2>8, <3>4, <4>1, RemovedReduces
      <4> QED BY <3>2, <4>2
    <3>6. ASSUME NEW v \in Workers, NEW x \in Objects(scan'[v]) PROVE x.job # p.job
      <4>1. CASE v = w
        BY <2>1, <2>3, <2>8, <3>6, <4>1
      <4>2. CASE v # w
        <5>1. v \notin Cleaners
          BY <2>1, <4>2 DEF OneCleaner
        <5>2. scan'[v] = <<>>
          BY <2>1, <4>2, <5>1 DEF OnlyCleanersScan
        <5> QED BY <3>6, <5>2 DEF Objects, Range
      <4> QED BY <4>1, <4>2
    <3>7. \A t \in Symbols : queue'[t] = IF t = s THEN Append(queue[s], p) ELSE queue[t]
      <4>1. Pushed(queue[s], p, n) = Append(queue[s], p)
        BY DEF Sends, Pushed
      <4> QED BY <2>8, <3>1, <4>1 DEF LPush, TypeOK
    <3>8. /\ Distinct(Append(queue[s], p))
          /\ Range(Append(queue[s], p)) = Range(queue[s]) \cup {p}
      BY <3>3, AddedDistinct DEF SingleInv, TypeOK
    <3>9. ASSUME NEW t \in Symbols
          PROVE  /\ Distinct(queue'[t])
                 /\ \A x \in Objects(queue'[t]) : x \in Objects(queue[t]) \/ (t = s /\ x = p)
      BY <3>7, <3>8 DEF Objects, SingleInv
    <3>10. ASSUME NEW t \in Symbols
           PROVE  /\ Distinct(queue'[t]) /\ Distinct(processing'[t])
                  /\ Apart(queue'[t], processing'[t])
                  /\ \A x \in Objects(queue'[t]) \cup Objects(processing'[t]) :
                        x.attempts = 0 /\ x.job[1] = t
      <4>1. /\ Distinct(processing'[t]) /\ Objects(processing'[t]) \subseteq Objects(processing[t])
            /\ Distinct(queue'[t])
        BY <3>2, <3>9 DEF SingleInv, Reduces
      <4>2. \A x \in Objects(queue'[t]) \cup Objects(processing'[t]) :
               x.attempts = 0 /\ x.job[1] = t
        BY <3>1, <3>3, <3>9, <4>1 DEF SingleInv
      <4>3. Apart(queue'[t], processing'[t])
        BY <3>5, <3>9, <4>1 DEF SingleInv, Apart
      <4> QED BY <4>1, <4>2, <4>3
    <3>11. ASSUME NEW v \in Workers
           PROVE  /\ Distinct(scan'[v])
                  /\ \A x \in Objects(scan'[v]) : x.attempts = 0
                  /\ \A t \in Symbols : Apart(scan'[v], queue'[t])
      <4>1. /\ Distinct(scan'[v]) /\ Objects(scan'[v]) \subseteq Objects(scan[v])
            /\ \A x \in Objects(scan[v]) : x.attempts = 0
        BY <2>4 DEF SingleInv, Reduces
      <4>2. ASSUME NEW t \in Symbols PROVE Apart(scan'[v], queue'[t])
        BY <3>6, <3>9, <4>1 DEF SingleInv, Apart
      <4> QED BY <4>1, <4>2
    <3> QED BY <3>10, <3>11 DEF SingleInv
  <2> QED BY <1>3, <2>2, <2>5, <2>7, <2>8 DEF NackStale, SkipFresh, redis
<1> QED BY <1>1, <1>2, <1>3

LEMMA NextSingle ==
    ASSUME QueueInv, SingleInv, ~Resends, OneCleaner, [Next]_vars
    PROVE  SingleInv'
<1>1. TypeOK /\ OwnSymbol /\ OnlyCleanersScan /\ NothingInvented
  BY DEF QueueInv, LifecycleInv, Safe
<1>2. ASSUME NEW s \in Symbols, Enqueue(s) PROVE SingleInv'
  <2>1. sent[s] \in Nat /\ sent[s] + 1 \in 1 .. MaxJobs
    BY <1>1, <1>2, QueueAssumption DEF Enqueue, TypeOK
  <2>2. PICK j \in Jobs : j = <<s, sent[s] + 1>> /\ j[1] = s /\ j[2] = sent[s] + 1
    <3> DEFINE n == sent[s] + 1
    <3>1. <<s, n>> \in Jobs /\ <<s, n>>[1] = s /\ <<s, n>>[2] = n
      BY <2>1, JobParts
    <3> QED BY <3>1
  <2>3. j \notin SentJobs
    BY <2>1, <2>2 DEF SentJobs, Enqueued
  <2>4. PICK p \in Payload : /\ p = MarshalJob(j, 0)
                             /\ p.job = j /\ p.attempts = 0
    <3> DEFINE p == MarshalJob(j, 0)
    <3>1. p \in Payload /\ p.job = j /\ p.attempts = 0
      BY MarshalTypes DEF MarshalJob
    <3> QED BY <3>1
  <2>5. /\ \E n \in Sends : LPush(s, p, n)
        /\ UNCHANGED <<processing, scan>>
    BY <1>2, <2>2, <2>4 DEF Enqueue, cleanup
  <2>6. /\ \A x \in Objects(queue[s]) \cup Objects(processing[s]) : x.job # p.job
        /\ \A w \in Workers : \A x \in Objects(scan[w]) : x.job # p.job
    BY <1>1, <2>3, <2>4 DEF NothingInvented, Objects
  <2> QED BY <1>1, <2>2, <2>4, <2>5, <2>6, LPushSingle, SameReduces
<1>3. ASSUME NEW c \in Consumers, Requeue(c) PROVE SingleInv'
  <2>1. raw[c].job \in Jobs /\ Attempts(c) \in Nat
    BY <1>1, <1>3 DEF Requeue, TypeOK, Payload, Attempts
  <2>2. PICK p \in Payload : /\ p = MarshalBytes(MarshalJob(raw[c].job, Attempts(c)))
                             /\ p.form = "base64"
    <3> DEFINE p == MarshalBytes(MarshalJob(raw[c].job, Attempts(c)))
    <3>1. p \in Payload /\ p.form = "base64"
      BY <2>1, MarshalTypes DEF MarshalBytes, Payload
    <3> QED BY <3>1
  <2>3. /\ UNCHANGED queue \/ \E n \in Sends : LPush(Sym(c), p, n)
        /\ UNCHANGED <<processing, scan>>
    BY <1>3, <2>2 DEF Requeue, cleanup
  <2>4. CASE UNCHANGED queue
    BY <2>3, <2>4, SingleKept, SameReduces DEF ListsKept
  <2> QED BY <1>1, <2>2, <2>3, <2>4, LPushSingle, SameReduces, ConsumerParts
<1>4. ASSUME UNCHANGED <<queue, scan>>,
             \A t \in Symbols : Reduces(processing'[t], processing[t])
      PROVE  SingleInv'
  BY <1>4, SingleKept, SameReduces DEF ListsKept
<1>5. ASSUME UNCHANGED <<queue, processing, scan>> PROVE SingleInv'
  BY <1>4, <1>5, SameReduces
<1>6. ASSUME NEW c \in Consumers, ConsumerStep(c) PROVE SingleInv'
  <2>1. CASE Return(c) \/ PollTimeout(c) \/ HandlerOk(c) \/ HandlerError(c)
             \/ AbandonRetry(c) \/ InsertDeadLetter(c)
    BY <1>5, <2>1 DEF Return, PollTimeout, HandlerOk, HandlerError, AbandonRetry,
                      InsertDeadLetter, vars, redis, cleanup
  <2>2. CASE DiscardMalformed(c) \/ AckDelivered(c) \/ AckForRetry(c)
    <3>1. AckJob(c) /\ UNCHANGED <<queue, scan>>
      BY <2>2 DEF DiscardMalformed, AckDelivered, AckForRetry, cleanup
    <3> QED BY <1>1, <1>4, <3>1, AckReduces
  <2>3. CASE MoveToDeadLetter(c)
    <3>1. /\ UNCHANGED <<queue, scan>>
          /\ UNCHANGED processing \/ \E n \in Sends : LRem(Sym(c), raw[c], n)
      BY <2>3 DEF MoveToDeadLetter, cleanup, Sends
    <3>2. \A t \in Symbols : Reduces(processing'[t], processing[t])
      BY <1>1, <3>1, LRemReduces, SameReduces, ConsumerParts
    <3> QED BY <1>4, <3>1, <3>2
  <2>4. CASE Dequeue(c, TRUE)
    BY <1>1, <2>4, DequeueSingle
  <2> QED BY <1>3, <1>6, <2>1, <2>2, <2>3, <2>4 DEF ConsumerStep, QueueStep
<1>7. ASSUME NEW c \in Consumers, Start(c) \/ Cancel(c) \/ Dequeue(c, FALSE) PROVE SingleInv'
  BY <1>1, <1>5, <1>7, DequeueSingle DEF Start, Cancel, redis, cleanup
<1>8. CASE (\E j \in Jobs : Age(j)) \/ UNCHANGED vars
  BY <1>5, <1>8 DEF Age, vars, redis, cleanup
<1> QED BY <1>1, <1>2, <1>6, <1>7, <1>8, CleanupSingle DEF Next

(* At most one copy of a job that can be decoded is in the two lists, so   *)
(* that an LREM with count 1 takes away the copy that it is meant for:     *)
(* with one cleanup at most, also while it races with the goroutine that   *)
(* holds the job, as long as the client does not send a command again.     *)
THEOREM OneCopy ==
    ASSUME ~Resends, OneCleaner
    PROVE  Spec => []SingleCopy
<1>1. Init => SingleInv
  BY DEF Init, SingleInv, Objects, Distinct, Apart, Range
<1>2. QueueInv /\ SingleInv /\ [Next]_vars => SingleInv'
  BY NextSingle
<1>3. TypeOK /\ SingleInv => SingleCopy
  <2> SUFFICES ASSUME TypeOK, SingleInv, NEW j \in Jobs
               PROVE  Cardinality(Copies(queue[j[1]], j))
                         + Cardinality(Copies(processing[j[1]], j)) <= 1
    BY DEF SingleCopy
  <2> DEFINE A == Copies(queue[j[1]], j)
             B == Copies(processing[j[1]], j)
  <2>1. ASSUME NEW q, Distinct(q)
        PROVE  Copies(q, j) = {} \/ \E i : Copies(q, j) = {i}
    BY <2>1 DEF Copies, Distinct
  <2>2. A = {} \/ B = {}
    BY JobParts DEF SingleInv, Apart, Objects, Copies, Range
  <2>3. /\ A = {} \/ \E i : A = {i}
        /\ B = {} \/ \E i : B = {i}
    BY <2>1, JobParts DEF SingleInv
  <2> HIDE DEF A, B
  <2>4. /\ A = {} => Cardinality(A) = 0
        /\ B = {} => Cardinality(B) = 0
        /\ (\E i : A = {i}) => Cardinality(A) = 1
        /\ (\E i : B = {i}) => Cardinality(B) = 1
    BY FS_EmptySet, FS_Singleton
  <2>5. Cardinality(A) + Cardinality(B) <= 1
    BY <2>2, <2>3, <2>4
  <2> QED BY <2>5 DEF A, B
<1>4. QueueInv => TypeOK
  BY DEF QueueInv, LifecycleInv, Safe
<1> QED BY <1>1, <1>2, <1>3, <1>4, QueueInvariant, PTL DEF Spec

-----------------------------------------------------------------------------
(* The composition of the queue with the handlers' loops implements the    *)
(* queue.                                                                  *)

(* A step of a handler is a step of the queue or leaves the queue alone.   *)
LEMMA HandlerStepRefines ==
    ASSUME NEW c \in Consumers, HandlerStep(c)
    PROVE  HandlerOk(c) \/ HandlerError(c) \/ UNCHANGED vars
<1>1. CASE SkipUnset(c)
  BY <1>1 DEF SkipUnset
<1>2. CASE ListSubscribers(c)
  BY <1>2 DEF ListSubscribers
<1>3. CASE ListFails(c)
  BY <1>3 DEF ListFails
<1>4. CASE \E s \in Subs : InsertDeliveryLog(c, s)
  BY <1>4 DEF InsertDeliveryLog
<1>5. CASE Send(c)
  BY <1>5 DEF Send
<1>6. CASE MarkRow(c)
  BY <1>6 DEF MarkRow
<1>7. CASE HandlerReturns(c)
  BY <1>7 DEF HandlerReturns
<1> QED BY <1>1, <1>2, <1>3, <1>4, <1>5, <1>6, <1>7 DEF HandlerStep

(* Every step of the composition is a step of the queue or a stutter.      *)
LEMMA DeliveryStepRefines ==
    ASSUME [DeliveryNext]_allVars
    PROVE  [Next]_vars
<1>1. CASE QueueAction
  BY <1>1 DEF QueueAction, Next, ConsumerStep
<1>2. ASSUME NEW c \in Consumers, HandlerStep(c) PROVE [Next]_vars
  BY <1>2, HandlerStepRefines DEF Next, ConsumerStep
<1>3. ASSUME NEW s \in Subs, CreateSubscriber(s) \/ \E a \in BOOLEAN : SetSubscriberActive(s, a)
      PROVE  UNCHANGED vars
  BY <1>3 DEF CreateSubscriber, SetSubscriberActive
<1>4. ASSUME NEW w \in Workers, WorkerCrash(w) PROVE Next
  BY <1>4 DEF WorkerCrash, Next
<1>5. CASE UNCHANGED allVars
  BY <1>5 DEF allVars
<1> QED BY <1>1, <1>2, <1>3, <1>4, <1>5 DEF DeliveryNext

(* The handlers' loops, whatever fails in them and whatever the            *)
(* administrator does meanwhile, implement the queue's atomic handlers.    *)
THEOREM DeliveryImplementsQueue == DeliverySpec => Spec
<1>1. DeliveryInit => Init
  BY DEF DeliveryInit
<1>2. [DeliveryNext]_allVars => [Next]_vars
  BY DeliveryStepRefines
<1> QED BY <1>1, <1>2, PTL DEF DeliverySpec, Spec

(* With handlers that take many steps and can be interrupted at each of    *)
(* them, still no job is lost, and every job lives as JobLifecycle says.   *)
THEOREM DeliveryLosesNothing == DeliverySpec => []NeverLost /\ ImplementsLifecycle
BY DeliveryImplementsQueue, NothingLost, QueueImplementsLifecycle, PTL
-----------------------------------------------------------------------------
(* The loops: types, and what a goroutine in a handler serves.             *)

LoopTypes ==
    /\ status \in [Subs -> {"none", "active", "inactive"}]
    /\ log \in Seq(Row)
    /\ phase \in [Consumers -> {"start", "listed", "logged", "sent", "unsent"}]
    /\ todo \in [Consumers -> SUBSET Subs]
    /\ sub \in [Consumers -> Subs \cup {NoSub}]
    /\ row \in [Consumers -> Nat]
    /\ bad \in [Consumers -> BOOLEAN]
    /\ got \in [Jobs -> [Subs -> 0 .. 2]]
    /\ tried \in [Jobs -> SUBSET Subs]
    /\ owedFrom \in [Subs -> [Symbols -> 0 .. MaxJobs]]
    /\ late \in [Subs -> Nat]
    /\ edits \in 0 .. MaxEdits
    /\ mishaps \in 0 .. MaxMishaps

(* A goroutine is in a loop only while it runs the handler; it serves the  *)
(* subscribers of that handler, and its row is the one it inserted.        *)
Serving(c) ==
    /\ phase[c] = "start" => todo[c] = {} /\ sub[c] = NoSub /\ ~bad[c]
    /\ phase[c] # "start" => Running(c) /\ at[c] \notin Unset
    /\ row[c] <= Len(log)
    /\ phase[c] \in {"logged", "sent", "unsent"} =>
          /\ sub[c] \in Subs /\ ChannelOf[sub[c]] = at[c] /\ Sym(c) \in Follows[sub[c]]
          /\ row[c] # 0 => log[row[c]].job = raw[c].job /\ log[row[c]].sub = sub[c]
    /\ sub[c] \notin todo[c]
    /\ \A s \in todo[c] : ChannelOf[s] = at[c] /\ Sym(c) \in Follows[s]

LoopInv == LoopTypes /\ \A c \in Consumers : Serving(c)

(* A step that is not about goroutine c.                                   *)
SameLoop(c) ==
    /\ phase'[c] = phase[c] /\ todo'[c] = todo[c] /\ sub'[c] = sub[c]
    /\ row'[c] = row[c] /\ bad'[c] = bad[c]
KeepsRunning(c) ==
    Running(c) => /\ Running(c)' /\ raw'[c] = raw[c] /\ at'[c] = at[c]
                  /\ live'[c] => live[c]
(* A step that ends it.                                                    *)
Ends(c) ==
    /\ phase'[c] = "start" /\ todo'[c] = {} /\ sub'[c] = NoSub
    /\ row'[c] = 0 /\ ~bad'[c] /\ pc'[c] = "off" /\ ~live'[c] /\ at'[c] = 1

(* Rows are appended, and the UPDATE changes their status only.            *)
LogGrows ==
    /\ Len(log) <= Len(log')
    /\ \A i \in 1 .. Len(log) : log'[i].job = log[i].job /\ log'[i].sub = log[i].sub

(* A goroutine is in its handlers or done with them.                       *)
LEMMA NotBoth == ASSUME TypeOK, NEW c \in Consumers PROVE ~(Running(c) /\ HandlersDone(c))
BY QueueAssumption DEF TypeOK, Running, HandlersDone

(* The queue never touches a goroutine in its handlers but by cancelling   *)
(* its context.                                                            *)
LEMMA QueueActionEffect ==
    ASSUME TypeOK, QueueAction
    PROVE  UNCHANGED delivered /\ \A c \in Consumers : KeepsRunning(c)
<1>1. ASSUME UNCHANGED <<pc, raw, at, live>> PROVE \A c \in Consumers : KeepsRunning(c)
  BY <1>1 DEF KeepsRunning, Running
<1>2. ASSUME NEW d \in Consumers, ~Running(d), Idle(d)
      PROVE  \A c \in Consumers : KeepsRunning(c)
  BY <1>2 DEF Idle, KeepsRunning, Running, TypeOK
<1>3. ASSUME NEW d \in Consumers, Start(d) \/ Cancel(d)
      PROVE  UNCHANGED delivered /\ \A c \in Consumers : KeepsRunning(c)
  BY <1>3 DEF Start, Cancel, KeepsRunning, Running, TypeOK, history
<1>4. ASSUME NEW d \in Consumers, NEW reply \in BOOLEAN, Dequeue(d, reply)
      PROVE  UNCHANGED delivered /\ \A c \in Consumers : KeepsRunning(c)
  <2>1. /\ pc[d] = "polling" /\ UNCHANGED <<live, at, delivered>>
        /\ \/ /\ pc' = [pc EXCEPT ![d] = "handling"]
              /\ raw' = [raw EXCEPT ![d] = Head(queue[Sym(d)])]
           \/ UNCHANGED <<pc, raw>>
    BY <1>4 DEF Dequeue, history
  <2> QED BY <2>1 DEF KeepsRunning, Running, TypeOK
<1>5. ASSUME NEW d \in Consumers, QueueStep(d)
      PROVE  UNCHANGED delivered /\ \A c \in Consumers : KeepsRunning(c)
  <2>1. CASE \/ Return(d) \/ DiscardMalformed(d) \/ AckDelivered(d) \/ AbandonRetry(d)
             \/ Requeue(d) \/ InsertDeadLetter(d)
    <3>1. ~Running(d)
      BY <2>1, NotBoth DEF Running, Return, DiscardMalformed, AckDelivered, AbandonRetry,
                           Requeue, InsertDeadLetter
    <3>2. Idle(d) /\ UNCHANGED delivered
      BY <2>1 DEF Return, DiscardMalformed, AckDelivered, AbandonRetry, Requeue,
                  InsertDeadLetter, history
    <3> QED BY <1>2, <3>1, <3>2
  <2>2. CASE AckForRetry(d) \/ MoveToDeadLetter(d)
    <3>1. /\ ~Running(d) /\ UNCHANGED <<raw, at, live, delivered>>
          /\ \E s \in {"backoff", "record"} : pc' = [pc EXCEPT ![d] = s]
      BY <2>2, NotBoth DEF AckForRetry, MoveToDeadLetter, history
    <3> QED BY <3>1 DEF KeepsRunning, Running, TypeOK
  <2>3. CASE PollTimeout(d)
    BY <1>1, <2>3 DEF PollTimeout, vars, goroutine, history
  <2> QED BY <1>4, <1>5, <2>1, <2>2, <2>3 DEF QueueStep
<1>6. ASSUME \/ \E s \in Symbols : Enqueue(s)
             \/ \E j \in Jobs : Age(j)
             \/ \E w \in Workers : SkipFresh(w) \/ NackStale(w)
             \/ \E w \in Workers, s \in Symbols : CleanupScan(w, s)
      PROVE  UNCHANGED delivered /\ \A c \in Consumers : KeepsRunning(c)
  BY <1>1, <1>6 DEF Enqueue, Age, SkipFresh, NackStale, CleanupScan, goroutine, history
<1> QED BY <1>3, <1>4, <1>5, <1>6 DEF QueueAction

(* The process takes the loops of its goroutines along.                    *)
LEMMA CrashEffect ==
    ASSUME TypeOK, LoopInv, NEW w \in Workers, WorkerCrash(w)
    PROVE  /\ \A c \in Consumers : Ends(c) \/ (SameLoop(c) /\ KeepsRunning(c))
           /\ LoopTypes'
<1>1. Crash(w)
  BY DEF WorkerCrash
<1>2. ASSUME NEW c \in Consumers, c[1] = w PROVE Ends(c)
  BY <1>1, <1>2 DEF WorkerCrash, Crash, Ends, Running
<1>3. ASSUME NEW c \in Consumers, c[1] # w PROVE SameLoop(c) /\ KeepsRunning(c)
  BY <1>1, <1>3 DEF WorkerCrash, Crash, SameLoop, KeepsRunning, Running, LoopInv, LoopTypes, TypeOK
<1>4. LoopTypes'
  <2>1. /\ phase' \in [Consumers -> {"start", "listed", "logged", "sent", "unsent"}]
        /\ todo' \in [Consumers -> SUBSET Subs]
        /\ sub' \in [Consumers -> Subs \cup {NoSub}]
        /\ row' \in [Consumers -> Nat]
        /\ bad' \in [Consumers -> BOOLEAN]
    BY DEF WorkerCrash, LoopInv, LoopTypes
  <2> QED BY <2>1 DEF WorkerCrash, LoopInv, LoopTypes, tables, record
<1> QED BY <1>2, <1>3, <1>4

(* What a loop knows stays true while the step is about another one.       *)
LEMMA ServingKept ==
    ASSUME LoopInv, NEW c \in Consumers, Serving(c), SameLoop(c), KeepsRunning(c), LogGrows
    PROVE  Serving(c)'
<1>1. row[c] \in Nat /\ Len(log) \in Nat
  BY DEF LoopInv, LoopTypes
<1>2. row'[c] <= Len(log')
  <2>1. CASE Len(log') \in Nat
    BY <1>1, <2>1 DEF Serving, SameLoop, LogGrows
  <2> QED BY <1>1 DEF Serving, SameLoop, LogGrows
<1>3. ASSUME row[c] # 0
      PROVE  log'[row[c]].job = log[row[c]].job /\ log'[row[c]].sub = log[row[c]].sub
  BY <1>1, <1>3 DEF Serving, LogGrows
<1> QED BY <1>2, <1>3 DEF Serving, SameLoop, KeepsRunning, Sym

LEMMA EndsServing ==
    ASSUME NEW c \in Consumers, Ends(c), Len(log') \in Nat
    PROVE  Serving(c)'
BY DeliveryAssumption DEF Ends, Serving
-----------------------------------------------------------------------------
(* The steps of a handler.                                                 *)

LEMMA MishapType ==
    ASSUME LoopTypes, NoMishap \/ Mishap
    PROVE  mishaps' \in 0 .. MaxMishaps
BY DeliveryAssumption DEF LoopTypes, NoMishap, Mishap

(* A handler changes nothing of the other goroutines.                      *)
LEMMA HandlerLocal ==
    ASSUME TypeOK, LoopTypes, NEW c \in Consumers, HandlerStep(c)
    PROVE  /\ UNCHANGED <<pc, raw, live>>
           /\ \A d \in Consumers \ {c} : SameLoop(d) /\ KeepsRunning(d) /\ at'[d] = at[d]
           /\ mishaps' \in 0 .. MaxMishaps
<1>1. HandlerOk(c) \/ HandlerError(c) \/ UNCHANGED vars
  BY HandlerStepRefines
<1>2. UNCHANGED <<pc, raw, live>> /\ \A d \in Consumers \ {c} : KeepsRunning(d) /\ at'[d] = at[d]
  BY <1>1 DEF HandlerOk, HandlerError, vars, goroutine, KeepsRunning, Running, TypeOK
<1>3. CASE SkipUnset(c) \/ ListSubscribers(c) \/ ListFails(c) \/ HandlerReturns(c)
  <2>1. \A d \in Consumers \ {c} : SameLoop(d)
    BY <1>3 DEF SkipUnset, ListSubscribers, ListFails, HandlerReturns, Leave, SameLoop,
                LoopTypes, detail, loop
  <2>2. NoMishap \/ Mishap
    BY <1>3 DEF SkipUnset, ListSubscribers, ListFails, HandlerReturns, Done, Fails, detail, NoMishap
  <2> QED BY <1>2, <2>1, <2>2, MishapType
<1>4. CASE Send(c) \/ MarkRow(c) \/ \E s \in Subs : InsertDeliveryLog(c, s)
  <2>1. \A d \in Consumers \ {c} : SameLoop(d)
    BY <1>4 DEF InsertDeliveryLog, Send, MarkRow, SameLoop, LoopTypes
  <2>2. NoMishap \/ Mishap
    BY <1>4 DEF InsertDeliveryLog, Send, MarkRow, Done, Fails
  <2> QED BY <1>2, <2>1, <2>2, MishapType
<1> QED BY <1>3, <1>4 DEF HandlerStep

(* What a goroutine in its handlers works on.                              *)
LEMMA RunningJob ==
    ASSUME TypeOK, NEW c \in Consumers, Running(c)
    PROVE  /\ raw[c] \in Payload /\ raw[c].job \in Jobs /\ at[c] \in Handlers
           /\ Sym(c) \in Symbols
BY QueueAssumption, ConsumerParts DEF Running, TypeOK, Payload, Handlers

(* The id of a row, or 0 when there is none.                               *)
LEMMA RowIds == ASSUME LoopInv PROVE Len(log) \in Nat /\ \A c \in Consumers : row[c] \in Nat
BY DEF LoopInv, LoopTypes

(* The handler is over, or does not begin.                                 *)
LEMMA ReturnsServes ==
    ASSUME TypeOK, LoopInv, NEW c \in Consumers,
           SkipUnset(c) \/ ListFails(c) \/ HandlerReturns(c)
    PROVE  LoopTypes' /\ LogGrows /\ Serving(c)'
<1>1. /\ UNCHANGED <<status, log, got, tried, owedFrom, late, edits>>
      /\ todo' = todo /\ todo[c] = {}
  BY DEF SkipUnset, ListFails, HandlerReturns, Leave, LoopOver, LoopInv, Serving,
         detail, loop, tables, record
<1>2. /\ phase'[c] = "start" /\ sub'[c] = NoSub /\ ~bad'[c] /\ row'[c] <= Len(log)
      /\ phase' \in [Consumers -> {"start", "listed", "logged", "sent", "unsent"}]
      /\ sub' \in [Consumers -> Subs \cup {NoSub}]
      /\ row' \in [Consumers -> Nat]
      /\ bad' \in [Consumers -> BOOLEAN]
  <2>1. CASE SkipUnset(c) \/ ListFails(c)
    BY <2>1 DEF SkipUnset, ListFails, LoopInv, Serving, LoopTypes, detail, loop
  <2>2. CASE HandlerReturns(c)
    <3>1. /\ phase' = [phase EXCEPT ![c] = "start"] /\ sub' = [sub EXCEPT ![c] = NoSub]
          /\ row' = [row EXCEPT ![c] = 0] /\ bad' = [bad EXCEPT ![c] = FALSE]
      BY <2>2 DEF HandlerReturns, Leave
    <3>2. row'[c] = 0 /\ 0 <= Len(log)
      BY <3>1, RowIds DEF LoopInv, LoopTypes
    <3> QED BY <3>1, <3>2 DEF LoopInv, LoopTypes
  <2> QED BY <2>1, <2>2
<1>3. LoopTypes'
  BY <1>1, <1>2, HandlerLocal DEF HandlerStep, LoopInv, LoopTypes
<1> QED BY <1>1, <1>2, <1>3 DEF LogGrows, Serving, LoopInv, LoopTypes

(* The list of the handler.                                                *)
LEMMA ListServes ==
    ASSUME TypeOK, LoopInv, NEW c \in Consumers, ListSubscribers(c)
    PROVE  LoopTypes' /\ LogGrows /\ Serving(c)'
<1>1. /\ UNCHANGED <<pc, raw, at, sub, row, bad, status, log, got, tried, owedFrom, late, edits>>
      /\ phase' = [phase EXCEPT ![c] = "listed"]
      /\ todo' = [todo EXCEPT ![c] = Interested(c)]
      /\ Running(c) /\ at[c] \notin Unset /\ phase[c] = "start"
  BY DEF ListSubscribers, vars, goroutine, tables, record
<1>2. /\ phase'[c] = "listed" /\ todo'[c] = Interested(c) /\ sub'[c] = NoSub
      /\ Interested(c) \subseteq Subs /\ NoSub \notin Interested(c)
  BY <1>1, DeliveryAssumption DEF LoopInv, LoopTypes, Serving, Interested
<1>3. /\ phase' \in [Consumers -> {"start", "listed", "logged", "sent", "unsent"}]
      /\ todo' \in [Consumers -> SUBSET Subs]
  BY <1>1, <1>2 DEF LoopInv, LoopTypes
<1>4. LoopTypes'
  BY <1>1, <1>3, HandlerLocal DEF HandlerStep, LoopInv, LoopTypes
<1>5. Running(c)'
  BY <1>1 DEF Running
<1> QED BY <1>1, <1>2, <1>4, <1>5 DEF LogGrows, Serving, LoopInv, LoopTypes, Interested, Sym

(* INSERT appends a row, or no row.                                        *)
LEMMA InsertServes ==
    ASSUME TypeOK, LoopInv, NEW c \in Consumers, NEW s \in Subs, InsertDeliveryLog(c, s)
    PROVE  LoopTypes' /\ LogGrows /\ Serving(c)'
<1> DEFINE r == [job |-> raw[c].job, sub |-> s, status |-> "pending"]
           step == IF at[c] \in Polled THEN "sent" ELSE "logged"
<1>1. /\ UNCHANGED <<pc, raw, at, bad, status, got, owedFrom, late, edits>>
      /\ phase' = [phase EXCEPT ![c] = step]
      /\ todo' = [todo EXCEPT ![c] = @ \ {s}]
      /\ sub' = [sub EXCEPT ![c] = s]
      /\ tried' = [tried EXCEPT ![raw[c].job] = @ \cup {s}]
      /\ \/ log' = Append(log, r) /\ row' = [row EXCEPT ![c] = Len(log) + 1]
         \/ log' = log /\ row' = [row EXCEPT ![c] = 0]
      /\ Running(c) /\ s \in todo[c] /\ phase[c] = "listed"
  BY DEF InsertDeliveryLog, NewLogID, vars, goroutine
<1>2. raw[c].job \in Jobs /\ r \in Row /\ r.job = raw[c].job /\ r.sub = s
  BY <1>1, RunningJob DEF Row
<1> HIDE DEF r
<1>3. /\ log' \in Seq(Row) /\ LogGrows /\ row' \in [Consumers -> Nat]
      /\ row'[c] <= Len(log')
      /\ row'[c] # 0 => log'[row'[c]].job = raw[c].job /\ log'[row'[c]].sub = s
  <2>1. log \in Seq(Row) /\ Len(log) \in Nat /\ row \in [Consumers -> Nat]
    BY DEF LoopInv, LoopTypes
  <2>2. CASE log' = Append(log, r) /\ row' = [row EXCEPT ![c] = Len(log) + 1]
    <3>1. /\ log' \in Seq(Row) /\ Len(log') = Len(log) + 1
          /\ log'[Len(log) + 1] = r
          /\ \A i \in 1 .. Len(log) : log'[i] = log[i]
      BY <1>2, <2>1, <2>2, AppendProperties
    <3>2. row' \in [Consumers -> Nat] /\ row'[c] = Len(log) + 1
      BY <2>1, <2>2
    <3>3. LogGrows
      BY <2>1, <3>1 DEF LogGrows
    <3>4. row'[c] <= Len(log') /\ log'[row'[c]] = r
      BY <2>1, <3>1, <3>2
    <3> QED BY <1>2, <3>1, <3>2, <3>3, <3>4
  <2>3. CASE log' = log /\ row' = [row EXCEPT ![c] = 0]
    BY <2>1, <2>3 DEF LogGrows
  <2> QED BY <1>1, <2>2, <2>3
<1>4. /\ step \in {"sent", "logged"} /\ phase'[c] = step /\ sub'[c] = s
      /\ todo'[c] = todo[c] \ {s}
  BY <1>1 DEF LoopInv, LoopTypes
<1> HIDE DEF step
<1>5. /\ phase' \in [Consumers -> {"start", "listed", "logged", "sent", "unsent"}]
      /\ todo' \in [Consumers -> SUBSET Subs]
      /\ sub' \in [Consumers -> Subs \cup {NoSub}]
      /\ tried' \in [Jobs -> SUBSET Subs]
  BY <1>1, <1>4 DEF LoopInv, LoopTypes
<1>6. LoopTypes'
  BY <1>1, <1>3, <1>5, HandlerLocal DEF HandlerStep, LoopInv, LoopTypes
<1>7. /\ Running(c)' /\ at[c] \notin Unset
      /\ \A t \in todo[c] : ChannelOf[t] = at[c] /\ Sym(c) \in Follows[t]
  BY <1>1 DEF Running, LoopInv, Serving
<1> QED BY <1>1, <1>3, <1>4, <1>6, <1>7 DEF Serving, Sym

(* A message that reaches a subscriber is counted.                         *)
LEMMA ReceiveCounts ==
    ASSUME LoopTypes, NEW j \in Jobs, NEW s \in Subs, Receive(j, s)
    PROVE  /\ got' \in [Jobs -> [Subs -> 0 .. 2]] /\ late' \in [Subs -> Nat]
           /\ got'[j][s] > 0
           /\ \A i \in Jobs, t \in Subs :
                 got'[i][t] = IF i = j /\ t = s
                              THEN IF got[i][t] < 2 THEN got[i][t] + 1 ELSE got[i][t]
                              ELSE got[i][t]
           /\ \A t \in Subs :
                 late'[t] = IF t = s /\ ~Active(s) THEN late[t] + 1 ELSE late[t]
<1> DEFINE new == [got[j] EXCEPT ![s] = IF @ < 2 THEN @ + 1 ELSE @]
<1>1. got \in [Jobs -> [Subs -> 0 .. 2]] /\ got[j] \in [Subs -> 0 .. 2] /\ got[j][s] \in 0 .. 2
  BY DEF LoopTypes
<1>2. /\ new \in [Subs -> 0 .. 2] /\ new[s] > 0
      /\ \A t \in Subs : new[t] = IF t = s THEN IF got[j][t] < 2 THEN got[j][t] + 1 ELSE got[j][t]
                                  ELSE got[j][t]
  BY <1>1
<1>3. got' = [got EXCEPT ![j] = new]
  BY DEF Receive
<1> HIDE DEF new
<1>4. late' \in [Subs -> Nat]
      /\ \A t \in Subs : late'[t] = IF t = s /\ ~Active(s) THEN late[t] + 1 ELSE late[t]
  BY DEF Receive, LoopTypes
<1> QED BY <1>1, <1>2, <1>3, <1>4

LEMMA SendServes ==
    ASSUME TypeOK, LoopInv, NEW c \in Consumers, Send(c)
    PROVE  LoopTypes' /\ LogGrows /\ Serving(c)'
<1>1. /\ UNCHANGED <<pc, raw, at, todo, sub, row, bad, status, log, tried, owedFrom, edits>>
      /\ Running(c) /\ phase[c] = "logged"
      /\ Receive(raw[c].job, sub[c]) \/ UNCHANGED <<got, late>>
      /\ \E p \in {"sent", "unsent"} : phase' = [phase EXCEPT ![c] = p]
  BY DEF Send, vars, goroutine, tables
<1>2. raw[c].job \in Jobs /\ sub[c] \in Subs
  BY <1>1, RunningJob DEF LoopInv, Serving
<1>3. got' \in [Jobs -> [Subs -> 0 .. 2]] /\ late' \in [Subs -> Nat]
  BY <1>1, <1>2, ReceiveCounts DEF LoopInv, LoopTypes
<1>4. /\ phase' \in [Consumers -> {"start", "listed", "logged", "sent", "unsent"}]
      /\ phase'[c] \in {"sent", "unsent"}
  BY <1>1 DEF LoopInv, LoopTypes
<1>5. LoopTypes'
  BY <1>1, <1>3, <1>4, HandlerLocal DEF HandlerStep, LoopInv, LoopTypes
<1>6. Running(c)' /\ Len(log) \in Nat
  BY <1>1 DEF Running, LoopInv, LoopTypes
<1> QED BY <1>1, <1>4, <1>5, <1>6 DEF LogGrows, Serving, LoopInv, Sym

(* UPDATE changes the status of one row.                                   *)
LEMMA MarkedRow ==
    ASSUME LoopTypes, NEW c \in Consumers, row[c] <= Len(log)
    PROVE  /\ Marked(c) \in Seq(Row) /\ Len(Marked(c)) = Len(log)
           /\ \A i \in 1 .. Len(log) :
                 /\ Marked(c)[i].job = log[i].job /\ Marked(c)[i].sub = log[i].sub
                 /\ Marked(c)[i].status = IF i = row[c] THEN Verdict(c) ELSE log[i].status
<1>1. log \in Seq(Row) /\ Len(log) \in Nat /\ DOMAIN log = 1 .. Len(log) /\ row[c] \in Nat
  BY DEF LoopTypes
<1>2. CASE row[c] = 0
  BY <1>1, <1>2 DEF Marked
<1>3. CASE row[c] # 0
  <2> DEFINE r == [log[row[c]] EXCEPT !.status = Verdict(c)]
  <2>1. row[c] \in 1 .. Len(log) /\ Verdict(c) \in {"pending", "delivered", "failed"}
    BY <1>1, <1>3 DEF Verdict
  <2>2. log[row[c]] \in Row
    BY <1>1, <2>1
  <2>3. r \in Row /\ r.job = log[row[c]].job /\ r.sub = log[row[c]].sub /\ r.status = Verdict(c)
    BY <2>1, <2>2 DEF Row
  <2>4. Marked(c) = [log EXCEPT ![row[c]] = r]
    BY <1>3 DEF Marked
  <2> HIDE DEF r
  <2>5. /\ [log EXCEPT ![row[c]] = r] \in Seq(Row)
        /\ Len([log EXCEPT ![row[c]] = r]) = Len(log)
        /\ \A i \in 1 .. Len(log) : [log EXCEPT ![row[c]] = r][i] = IF i = row[c] THEN r ELSE log[i]
    BY <1>1, <2>1, <2>3, ExceptSeq
  <2> QED BY <2>3, <2>4, <2>5
<1> QED BY <1>2, <1>3

LEMMA MarkServes ==
    ASSUME TypeOK, LoopInv, NEW c \in Consumers, MarkRow(c)
    PROVE  LoopTypes' /\ LogGrows /\ Serving(c)'
<1>1. /\ UNCHANGED <<pc, raw, at, todo, sub, row, status, got, tried, owedFrom, late, edits>>
      /\ Running(c) /\ phase' = [phase EXCEPT ![c] = "listed"]
      /\ log' = log \/ log' = Marked(c)
      /\ \E b \in BOOLEAN : bad' = [bad EXCEPT ![c] = b]
      /\ phase[c] \in {"sent", "unsent"}
  <2>1. bad[c] \in BOOLEAN
    BY DEF LoopInv, LoopTypes
  <2> QED BY <2>1 DEF MarkRow, AnyErr, vars, goroutine, record
<1>2. log' \in Seq(Row) /\ LogGrows /\ Len(log') = Len(log) /\ Len(log) \in Nat
  BY <1>1, MarkedRow DEF LogGrows, LoopInv, LoopTypes, Serving
<1>3. /\ phase' \in [Consumers -> {"start", "listed", "logged", "sent", "unsent"}]
      /\ bad' \in [Consumers -> BOOLEAN] /\ phase'[c] = "listed"
  BY <1>1 DEF LoopInv, LoopTypes
<1>4. LoopTypes'
  BY <1>1, <1>2, <1>3, HandlerLocal DEF HandlerStep, LoopInv, LoopTypes
<1>5. Running(c)'
  BY <1>1 DEF Running
<1> QED BY <1>1, <1>2, <1>3, <1>4, <1>5 DEF Serving, LoopInv, Sym
-----------------------------------------------------------------------------
(* The loops keep their invariant.                                         *)

Edits == \E s \in Subs : CreateSubscriber(s) \/ \E a \in BOOLEAN : SetSubscriberActive(s, a)

(* A step outside the handlers: loops go on or end with their process.     *)
Outside == QueueAction \/ (\E w \in Workers : Crash(w)) \/ UNCHANGED vars
Quiet ==
    /\ Outside
    /\ UNCHANGED <<delivered, tables, record, edits, mishaps>>
    /\ \A c \in Consumers : Ends(c) \/ (SameLoop(c) /\ KeepsRunning(c))

LEMMA DeliverySteps ==
    ASSUME TypeOK, LoopInv, [DeliveryNext]_allVars
    PROVE  (Quiet /\ LoopTypes') \/ (\E c \in Consumers : HandlerStep(c)) \/ Edits
<1>1. ASSUME QueueAction, UNCHANGED detail PROVE Quiet /\ LoopTypes'
  <2>1. \A c \in Consumers : SameLoop(c)
    BY <1>1 DEF SameLoop, detail, loop
  <2>2. LoopTypes'
    BY <1>1 DEF LoopInv, LoopTypes, detail, loop, tables, record
  <2> QED BY <1>1, <2>1, <2>2, QueueActionEffect DEF Quiet, Outside, detail
<1>2. ASSUME NEW w \in Workers, WorkerCrash(w) PROVE Quiet /\ LoopTypes'
  <2>1. UNCHANGED <<delivered, tables, record, edits, mishaps>>
    BY <1>2 DEF WorkerCrash, Crash, history
  <2> QED BY <1>2, <2>1, CrashEffect DEF Quiet, Outside, WorkerCrash
<1>3. ASSUME UNCHANGED allVars PROVE Quiet /\ LoopTypes'
  <2>1. UNCHANGED <<vars, detail>>
    BY <1>3 DEF allVars
  <2>2. \A c \in Consumers : SameLoop(c)
    BY <2>1 DEF SameLoop, detail, loop
  <2>3. \A c \in Consumers : KeepsRunning(c)
    BY <2>1 DEF KeepsRunning, Running, vars, goroutine
  <2>4. LoopTypes'
    BY <2>1 DEF LoopInv, LoopTypes, detail, loop, tables, record
  <2> QED BY <2>1, <2>2, <2>3, <2>4 DEF Quiet, Outside, detail, vars, history
<1> QED BY <1>1, <1>2, <1>3 DEF DeliveryNext, Edits

(* The administrator touches the subscribers only.                         *)
LEMMA EditsEffect ==
    ASSUME TypeOK, LoopTypes, Edits
    PROVE  /\ UNCHANGED <<vars, loop, log, got, tried>>
           /\ LoopTypes'
           /\ \E s \in Subs : /\ owedFrom' = [owedFrom EXCEPT ![s] = sent]
                              /\ \A t \in Subs \ {s} : status'[t] = status[t]
<1>1. PICK s \in Subs : CreateSubscriber(s) \/ \E a \in BOOLEAN : SetSubscriberActive(s, a)
  BY DEF Edits
<1>2. /\ UNCHANGED <<vars, loop, log, got, tried, mishaps>> /\ Edit
      /\ owedFrom' = [owedFrom EXCEPT ![s] = sent]
      /\ \E v \in {"active", "inactive"} : status' = [status EXCEPT ![s] = v]
      /\ late' \in {late, [late EXCEPT ![s] = 0]}
  BY <1>1 DEF CreateSubscriber, SetSubscriberActive, InsertSubscriber, UpdateActive
<1>3. edits' \in 0 .. MaxEdits
  BY <1>2, DeliveryAssumption DEF Edit, LoopTypes
<1>4. sent \in [Symbols -> 0 .. MaxJobs]
  BY DEF TypeOK
<1>5. /\ status' \in [Subs -> {"none", "active", "inactive"}]
      /\ owedFrom' \in [Subs -> [Symbols -> 0 .. MaxJobs]] /\ late' \in [Subs -> Nat]
      /\ \A t \in Subs \ {s} : status'[t] = status[t]
  <2>1. owedFrom' \in [Subs -> [Symbols -> 0 .. MaxJobs]]
    BY <1>2, <1>4 DEF LoopTypes
  <2>2. late' \in [Subs -> Nat]
    BY <1>2 DEF LoopTypes
  <2> QED BY <1>2, <2>1, <2>2 DEF LoopTypes
<1>6. LoopTypes'
  BY <1>2, <1>3, <1>5 DEF LoopTypes, loop
<1> QED BY <1>2, <1>5, <1>6

LEMMA NextLoop ==
    ASSUME TypeOK, LoopInv, [DeliveryNext]_allVars
    PROVE  LoopInv'
<1>1. CASE Quiet /\ LoopTypes'
  <2>1. LogGrows /\ Len(log') \in Nat
    BY <1>1 DEF Quiet, tables, LogGrows, LoopTypes, LoopInv
  <2> QED BY <1>1, <2>1, ServingKept, EndsServing DEF Quiet, LoopInv
<1>2. ASSUME NEW c \in Consumers, HandlerStep(c) PROVE LoopInv'
  <2>1. LoopTypes' /\ LogGrows /\ Serving(c)'
    BY <1>2, ReturnsServes, ListServes, InsertServes, SendServes, MarkServes DEF HandlerStep
  <2>2. ASSUME NEW d \in Consumers \ {c} PROVE Serving(d)'
    BY <1>2, <2>1, HandlerLocal, ServingKept DEF LoopInv
  <2> QED BY <2>1, <2>2 DEF LoopInv
<1>3. CASE Edits
  <2>1. UNCHANGED <<vars, loop, log>> /\ LoopTypes'
    BY <1>3, EditsEffect DEF LoopInv
  <2>2. \A c \in Consumers : SameLoop(c) /\ KeepsRunning(c)
    BY <2>1 DEF SameLoop, KeepsRunning, Running, loop, vars, goroutine
  <2>3. LogGrows
    BY <2>1 DEF LogGrows, LoopInv, LoopTypes
  <2> QED BY <2>1, <2>2, <2>3, ServingKept DEF LoopInv
<1> QED BY <1>1, <1>2, <1>3, DeliverySteps

(* In the composition the queue keeps its invariant, and the loops theirs. *)
LEMMA ComposedInvariant == DeliverySpec => []QueueInv /\ []LoopInv
<1>1. DeliveryInit => LoopInv
  <2> SUFFICES ASSUME DeliveryInit PROVE LoopInv
    OBVIOUS
  <2>1. Init /\ sent \in [Symbols -> 0 .. MaxJobs]
    BY InitType DEF DeliveryInit, TypeOK
  <2>2. log \in Seq(Row) /\ Len(log) = 0
    BY DEF DeliveryInit
  <2>3. LoopTypes
    BY <2>1, <2>2, DeliveryAssumption DEF DeliveryInit, LoopTypes
  <2>4. \A c \in Consumers : Serving(c)
    BY <2>2, DeliveryAssumption DEF DeliveryInit, Serving
  <2> QED BY <2>3, <2>4 DEF LoopInv
<1>2. QueueInv => TypeOK
  BY DEF QueueInv, LifecycleInv, Safe
<1>3. TypeOK /\ LoopInv /\ [DeliveryNext]_allVars => LoopInv'
  BY NextLoop
<1> QED BY <1>1, <1>2, <1>3, DeliveryImplementsQueue, QueueInvariant, PTL DEF DeliverySpec

(* Every variable of the handlers keeps its type, and a handler serves     *)
(* subscribers of its own channel with rows of their own.                  *)
THEOREM DeliveryTyped == DeliverySpec => []DeliveryTypeOK
<1>1. LoopInv => DeliveryTypeOK
  <2> SUFFICES ASSUME LoopInv PROVE DeliveryTypeOK
    OBVIOUS
  <2>1. \A c \in Consumers : row[c] \in 0 .. Len(log)
    BY RowIds DEF LoopInv, Serving
  <2> QED BY <2>1 DEF LoopInv, LoopTypes, Serving, DeliveryTypeOK
<1> QED BY <1>1, ComposedInvariant, PTL

-----------------------------------------------------------------------------
(* The log.                                                                *)

(* What a goroutine is about to record as delivered is out.                *)
SentIsOut(c) ==
    phase[c] = "sent" => got[raw[c].job][sub[c]] > 0 \/ at[c] \in Polled

LogInv == LogTruthful /\ \A c \in Consumers : SentIsOut(c)

GotGrows == \A j \in Jobs, s \in Subs : got[j][s] > 0 => got'[j][s] > 0

LEMMA HandlerGot ==
    ASSUME TypeOK, LoopInv, NEW c \in Consumers, HandlerStep(c)
    PROVE  GotGrows
<1>1. CASE Send(c)
  <2>1. raw[c].job \in Jobs /\ sub[c] \in Subs
    BY <1>1, RunningJob DEF Send, LoopInv, Serving
  <2>2. Receive(raw[c].job, sub[c]) \/ UNCHANGED got
    BY <1>1 DEF Send
  <2>3. \A j \in Jobs, s \in Subs : got[j][s] \in 0 .. 2
    BY DEF LoopInv, LoopTypes
  <2> QED BY <2>1, <2>2, <2>3, ReceiveCounts DEF GotGrows, LoopInv
<1>2. CASE ~Send(c)
  <2>1. UNCHANGED got
    BY <1>2 DEF HandlerStep, SkipUnset, ListSubscribers, ListFails, InsertDeliveryLog, MarkRow,
                HandlerReturns, Leave, detail, record
  <2> QED BY <2>1 DEF GotGrows
<1> QED BY <1>1, <1>2

LEMMA NextLog ==
    ASSUME TypeOK, LoopInv, LoopInv', LogInv, [DeliveryNext]_allVars
    PROVE  LogInv'
<1>0. \A i \in DOMAIN log : log[i].job \in Jobs /\ log[i].sub \in Subs
  <2>1. \A i \in DOMAIN log : log[i] \in Row
    BY DEF LoopInv, LoopTypes
  <2> QED BY <2>1 DEF Row
<1>1. ASSUME UNCHANGED log, GotGrows PROVE LogTruthful'
  BY <1>0, <1>1 DEF LogInv, LogTruthful, GotGrows
<1>2. ASSUME NEW d \in Consumers, SameLoop(d), KeepsRunning(d), GotGrows PROVE SentIsOut(d)'
  <2>1. ASSUME phase[d] = "sent"
        PROVE  /\ raw[d].job \in Jobs /\ sub[d] \in Subs
               /\ raw'[d] = raw[d] /\ at'[d] = at[d]
    BY <1>2, <2>1, RunningJob DEF LoopInv, Serving, KeepsRunning
  <2> QED BY <1>2, <2>1 DEF LogInv, SentIsOut, SameLoop, GotGrows
<1>3. CASE Quiet
  <2>1. UNCHANGED log /\ GotGrows
    BY <1>3 DEF Quiet, tables, record, GotGrows
  <2>2. ASSUME NEW d \in Consumers, Ends(d) PROVE SentIsOut(d)'
    BY <2>2 DEF Ends, SentIsOut
  <2> QED BY <1>1, <1>2, <1>3, <2>1, <2>2 DEF Quiet, LogInv
<1>4. CASE Edits
  <2>1. UNCHANGED <<vars, loop, log, got>>
    BY <1>4, EditsEffect DEF LoopInv
  <2>2. GotGrows /\ \A d \in Consumers : SameLoop(d) /\ KeepsRunning(d)
    BY <2>1 DEF GotGrows, SameLoop, KeepsRunning, Running, loop, vars, goroutine
  <2> QED BY <1>1, <1>2, <2>1, <2>2 DEF LogInv
<1>5. ASSUME NEW c \in Consumers, HandlerStep(c) PROVE LogInv'
  <2>1. GotGrows
    BY <1>5, HandlerGot
  <2>2. \A d \in Consumers \ {c} : SentIsOut(d)'
    BY <1>2, <1>5, <2>1, HandlerLocal DEF LoopInv
  <2>3. CASE SkipUnset(c) \/ ListFails(c) \/ HandlerReturns(c) \/ ListSubscribers(c)
    <3>1. UNCHANGED log /\ phase'[c] # "sent"
      BY <2>3 DEF SkipUnset, ListFails, HandlerReturns, ListSubscribers, Leave, detail, loop, tables,
                  LoopInv, LoopTypes
    <3> QED BY <1>1, <2>1, <2>2, <3>1 DEF LogInv, SentIsOut
  <2>4. CASE \E s \in Subs : InsertDeliveryLog(c, s)
    <3>1. /\ phase'[c] = "sent" => at[c] \in Polled
          /\ UNCHANGED at
      BY <2>4 DEF InsertDeliveryLog, vars, goroutine, LoopInv, LoopTypes
    <3>2. LogTruthful'
      <4>1. CASE UNCHANGED log
        BY <1>1, <2>1, <4>1
      <4>2. ASSUME NEW r, log' = Append(log, r), r.status = "pending" PROVE LogTruthful'
        <5>1. log \in Seq(Row) /\ Len(log) \in Nat /\ DOMAIN log = 1 .. Len(log)
              /\ log' \in Seq(Row)
          BY DEF LoopInv, LoopTypes
        <5>2. /\ DOMAIN log' = 1 .. Len(log) + 1
              /\ \A i \in 1 .. Len(log) : log'[i] = log[i]
              /\ log'[Len(log) + 1] = r
          BY <4>2, <5>1
        <5> QED BY <1>0, <2>1, <4>2, <5>1, <5>2 DEF LogInv, LogTruthful, GotGrows
      <4>3. PICK s \in Subs : InsertDeliveryLog(c, s)
        BY <2>4
      <4>4. [job |-> raw[c].job, sub |-> s, status |-> "pending"].status = "pending"
        OBVIOUS
      <4> QED BY <4>1, <4>2, <4>3, <4>4 DEF InsertDeliveryLog
    <3> QED BY <2>2, <3>1, <3>2 DEF LogInv, SentIsOut
  <2>5. CASE Send(c)
    <3>1. UNCHANGED <<log, raw, at, sub>>
      BY <2>5 DEF Send, vars, goroutine, tables
    <3>2. raw[c].job \in Jobs /\ sub[c] \in Subs
      BY <2>5, RunningJob DEF Send, LoopInv, Serving
    <3>3. phase'[c] = "sent" => Receive(raw[c].job, sub[c])
      BY <2>5 DEF Send, LoopInv, LoopTypes
    <3>4. phase'[c] = "sent" => got'[raw[c].job][sub[c]] > 0
      BY <3>2, <3>3, ReceiveCounts DEF LoopInv
    <3> QED BY <1>1, <2>1, <2>2, <3>1, <3>4 DEF LogInv, SentIsOut
  <2>6. CASE MarkRow(c)
    <3>1. /\ phase'[c] = "listed"
          /\ log' = log \/ log' = Marked(c)
          /\ UNCHANGED <<got, raw, at, sub>> /\ phase[c] \in {"sent", "unsent"}
      BY <2>6 DEF MarkRow, LoopInv, LoopTypes, record, vars, goroutine
    <3>2. ASSUME log' = Marked(c) PROVE LogTruthful'
      <4>1. /\ log \in Seq(Row) /\ Len(log) \in Nat /\ DOMAIN log = 1 .. Len(log)
            /\ row[c] \in Nat /\ row[c] <= Len(log)
        BY DEF LoopInv, LoopTypes, Serving
      <4>2. /\ DOMAIN log' = 1 .. Len(log)
            /\ \A i \in 1 .. Len(log) :
                  /\ log'[i].job = log[i].job /\ log'[i].sub = log[i].sub
                  /\ log'[i].status = IF i = row[c] THEN Verdict(c) ELSE log[i].status
        <5>1. Marked(c) \in Seq(Row) /\ Len(Marked(c)) = Len(log)
          BY <4>1, MarkedRow DEF LoopInv
        <5>2. DOMAIN Marked(c) = 1 .. Len(log)
          BY <5>1
        <5> QED BY <3>2, <4>1, <5>2, MarkedRow DEF LoopInv
      <4>3. ASSUME row[c] # 0, Verdict(c) = "delivered"
            PROVE  got[log[row[c]].job][log[row[c]].sub] > 0 \/ ChannelOf[log[row[c]].sub] \in Polled
        <5>1. phase[c] = "sent"
          BY <4>3 DEF Verdict
        <5>2. /\ log[row[c]].job = raw[c].job /\ log[row[c]].sub = sub[c]
              /\ ChannelOf[sub[c]] = at[c]
          BY <4>3, <5>1 DEF LoopInv, Serving
        <5> QED BY <5>1, <5>2 DEF LogInv, SentIsOut
      <4> QED BY <3>1, <4>1, <4>2, <4>3 DEF LogInv, LogTruthful
    <3>3. LogTruthful'
      BY <1>1, <2>1, <3>1, <3>2
    <3> QED BY <2>2, <3>1, <3>3 DEF LogInv, SentIsOut
  <2> QED BY <1>5, <2>3, <2>4, <2>5, <2>6 DEF HandlerStep
<1> QED BY <1>3, <1>4, <1>5, DeliverySteps

(* Whatever crashes or fails between the INSERT, the request and the       *)
(* UPDATE, for any number of goroutines and subscribers: a row says        *)
(* "delivered" only of a message that reached its subscriber.              *)
THEOREM LogTellsTheTruth == DeliverySpec => []LogTruthful
<1>1. DeliveryInit => LogInv
  BY DEF DeliveryInit, LogInv, LogTruthful, SentIsOut
<1>2. QueueInv => TypeOK
  BY DEF QueueInv, LifecycleInv, Safe
<1>3. TypeOK /\ LoopInv /\ LoopInv' /\ LogInv /\ [DeliveryNext]_allVars => LogInv'
  BY NextLog
<1>4. LogInv => LogTruthful
  BY DEF LogInv
<1> QED BY <1>1, <1>2, <1>3, <1>4, ComposedInvariant, PTL DEF DeliverySpec

-----------------------------------------------------------------------------
(* What a handler owes.                                                    *)

(* Still to be sent a message, or to be recorded as failed.                *)
ToCome(c, s) == s \in todo[c] \/ (sub[c] = s /\ phase[c] \in {"logged", "unsent"})

(* A loop has every subscriber it owes the job to behind it or before it;  *)
(* and as long as it remembers no error, those behind it got the job.      *)
OwedServed(c) ==
    phase[c] # "start" =>
        /\ Owed(raw[c].job, at[c]) \subseteq tried[raw[c].job] \cup todo[c]
        /\ ~bad[c] /\ at[c] \notin Polled =>
              \A s \in Owed(raw[c].job, at[c]) : ToCome(c, s) \/ got[raw[c].job][s] > 0

OwedInv == NilMeansReached /\ \A c \in Consumers : OwedServed(c)

TriedGrows == \A j \in Jobs : tried[j] \subseteq tried'[j]
OwedShrinks == \A j \in SentJobs, h \in Handlers : Owed(j, h)' \subseteq Owed(j, h)

(* Nobody is owed a job that was enqueued before the edit.                 *)
LEMMA EditsOwe ==
    ASSUME TypeOK, LoopTypes, Edits
    PROVE  OwedShrinks
<1>1. PICK s \in Subs : /\ owedFrom' = [owedFrom EXCEPT ![s] = sent]
                        /\ \A t \in Subs \ {s} : status'[t] = status[t]
  BY EditsEffect
<1>2. SUFFICES ASSUME NEW j \in SentJobs, NEW h \in Handlers, NEW t \in Owed(j, h)'
               PROVE  t \in Owed(j, h)
  BY DEF OwedShrinks
<1>3. j[1] \in Symbols /\ j[2] \in Nat /\ sent[j[1]] \in Nat /\ j[2] <= sent[j[1]]
  BY JobParts DEF SentJobs, Enqueued, TypeOK
<1>4. t \in Subs /\ j[2] > owedFrom'[t][j[1]]
  BY <1>2 DEF Owed
<1>5. t # s
  <2>1. CASE t = s
    <3>1. owedFrom'[t][j[1]] = sent[j[1]]
      BY <1>1, <1>4, <2>1 DEF LoopTypes
    <3> QED BY <1>3, <1>4, <3>1
  <2> QED BY <2>1
<1> QED BY <1>1, <1>2, <1>4, <1>5 DEF Owed, Active, LoopTypes

(* A loop the step is not about.                                           *)
LEMMA OwedServedKept ==
    ASSUME QueueInv, LoopInv, NEW c \in Consumers, OwedServed(c), SameLoop(c), KeepsRunning(c),
           GotGrows, TriedGrows, OwedShrinks
    PROVE  OwedServed(c)'
<1> SUFFICES ASSUME phase'[c] # "start" PROVE OwedServed(c)'
  BY DEF OwedServed
<1>1. Running(c) /\ raw'[c] = raw[c] /\ at'[c] = at[c]
  BY DEF SameLoop, LoopInv, Serving, KeepsRunning
<1>2. raw[c].job \in SentJobs /\ at[c] \in Handlers /\ raw[c].job \in Jobs
  BY <1>1, RunningJob DEF QueueInv, LifecycleInv, Safe, NothingInvented, Holding, Running
<1>3. Owed(raw[c].job, at[c])' \subseteq Owed(raw[c].job, at[c])
  <2>1. ASSUME NEW j \in SentJobs, NEW h \in Handlers, j = raw'[c].job, h = at'[c]
        PROVE  Owed(raw[c].job, at[c])' \subseteq Owed(raw[c].job, at[c])
    <3>1. Owed(j, h)' \subseteq Owed(j, h)
      BY DEF OwedShrinks
    <3> QED BY <1>1, <2>1, <3>1 DEF Owed
  <2> QED BY <1>1, <1>2, <2>1
<1>4. Owed(raw[c].job, at[c]) \subseteq Subs
  BY DEF Owed
<1> QED BY <1>1, <1>2, <1>3, <1>4 DEF OwedServed, ToCome, SameLoop, GotGrows, TriedGrows

(* NilMeansReached while no handler returns.                               *)
LEMMA NilKept ==
    ASSUME QueueInv, NilMeansReached, UNCHANGED delivered, GotGrows, OwedShrinks
    PROVE  NilMeansReached'
<1> SUFFICES ASSUME NEW j \in Jobs, NEW h \in Handlers \ (Polled \cup Unset),
                    delivered[j][h] > 0, NEW s \in Owed(j, h)'
             PROVE  got'[j][s] > 0
  BY DEF NilMeansReached
<1>1. j \in SentJobs
  BY DEF QueueInv, LifecycleInv, NothingInvented
<1>2. s \in Owed(j, h) /\ s \in Subs
  BY <1>1 DEF OwedShrinks, Owed
<1> QED BY <1>2 DEF NilMeansReached, GotGrows

(* Which deliveries a handler that returned is counted with.               *)
LEMMA ReachNew ==
    ASSUME delivered \in [Jobs -> [Handlers -> 0 .. 2]],
           NEW j \in Jobs, NEW h \in Handlers, Reach(j, h)
    PROVE  \A i \in Jobs, g \in Handlers :
              delivered'[i][g] > 0 => delivered[i][g] > 0 \/ (i = j /\ g = h)
<1>1. ASSUME NEW i \in Jobs, i # j PROVE delivered'[i] = delivered[i]
  BY <1>1, ReachOnly
<1>2. ASSUME NEW g \in Handlers, g # h PROVE delivered'[j][g] = delivered[j][g]
  BY <1>2 DEF Reach
<1> QED BY <1>1, <1>2

(* What a step of a handler leaves to all.                                 *)
LEMMA HandlerRecord ==
    ASSUME TypeOK, LoopInv, NEW c \in Consumers, HandlerStep(c)
    PROVE  GotGrows /\ TriedGrows /\ OwedShrinks
<1>1. UNCHANGED <<status, owedFrom>>
  BY DEF HandlerStep, SkipUnset, ListSubscribers, ListFails, InsertDeliveryLog, MarkRow, Send,
         HandlerReturns, Leave, detail, record, tables
<1>2. OwedShrinks
  BY <1>1 DEF OwedShrinks, Owed, Active
<1>3. TriedGrows
  <2>1. CASE \E s \in Subs : InsertDeliveryLog(c, s)
    BY <2>1 DEF InsertDeliveryLog, TriedGrows, LoopInv, LoopTypes
  <2>2. CASE ~\E s \in Subs : InsertDeliveryLog(c, s)
    BY <2>2 DEF HandlerStep, SkipUnset, ListSubscribers, ListFails, MarkRow, Send,
                HandlerReturns, Leave, detail, record, TriedGrows
  <2> QED BY <2>1, <2>2
<1> QED BY <1>2, <1>3, HandlerGot

LEMMA HandlerOwed ==
    ASSUME QueueInv, LoopInv, OwedInv, NEW c \in Consumers, HandlerStep(c)
    PROVE  NilMeansReached' /\ OwedServed(c)'
<1> DEFINE j == raw[c].job
           h == at[c]
<1>0. TypeOK /\ OwedServed(c) /\ Serving(c) /\ NilMeansReached
  BY DEF QueueInv, LifecycleInv, Safe, OwedInv, LoopInv
<1>1. /\ GotGrows /\ TriedGrows /\ OwedShrinks
      /\ \A i \in Jobs, g \in Handlers : Owed(i, g)' \subseteq Subs
  BY <1>0, HandlerRecord DEF Owed
<1>2. UNCHANGED <<status, owedFrom, raw>>
  BY <1>0, HandlerLocal
     DEF LoopInv, HandlerStep, SkipUnset, ListSubscribers, ListFails, InsertDeliveryLog, MarkRow, Send,
         HandlerReturns, Leave, detail, record, tables
<1>3. Running(c)
  BY DEF HandlerStep, SkipUnset, ListSubscribers, ListFails, InsertDeliveryLog, MarkRow, Send,
         HandlerReturns, HandlerOk, HandlerError
<1>4. j \in Jobs /\ h \in Handlers /\ j[1] = Sym(c)
  BY <1>0, <1>3, RunningJob DEF QueueInv, OwnSymbol, Holding, Running
<1>5. ASSUME UNCHANGED at
      PROVE  Owed(raw[c].job, at[c])' = Owed(j, h)
  BY <1>2, <1>5 DEF Owed, Active
<1>6. CASE SkipUnset(c)
  <2>1. phase'[c] = "start" /\ h \in Unset /\ Reach(j, h)
    BY <1>6 DEF SkipUnset, HandlerOk, detail, loop
  <2>2. UNCHANGED <<got, status, owedFrom>>
    BY <1>6 DEF SkipUnset, detail, record, tables
  <2>3. \A i \in Jobs, g \in Handlers \ Unset :
           /\ delivered'[i][g] > 0 => delivered[i][g] > 0
           /\ Owed(i, g)' = Owed(i, g)
    <3>1. \A i \in Jobs, g \in Handlers :
             delivered'[i][g] > 0 => delivered[i][g] > 0 \/ (i = j /\ g = h)
      BY <1>0, <1>4, <2>1, ReachNew DEF TypeOK
    <3>2. \A i \in Jobs, g \in Handlers : Owed(i, g)' = Owed(i, g)
      BY <2>2 DEF Owed, Active
    <3> QED BY <2>1, <3>1, <3>2
  <2>4. NilMeansReached'
    BY <1>0, <2>2, <2>3 DEF NilMeansReached
  <2> QED BY <2>1, <2>4 DEF OwedServed
<1>7. CASE ListFails(c)
  <2>1. phase'[c] = "start" /\ UNCHANGED delivered
    BY <1>7 DEF ListFails, loop
  <2> QED BY <1>0, <1>1, <2>1, NilKept DEF OwedServed
<1>8. CASE HandlerReturns(c)
  <2>1. phase'[c] = "start" /\ UNCHANGED <<got, status, owedFrom>>
    BY <1>8 DEF HandlerReturns, Leave, LoopInv, LoopTypes, record, tables
  <2>2. CASE bad[c]
    <3>1. UNCHANGED delivered
      BY <1>8, <2>2 DEF HandlerReturns
    <3> QED BY <1>0, <1>1, <2>1, <3>1, NilKept DEF OwedServed
  <2>3. CASE ~bad[c]
    <3>1. Reach(j, h) /\ phase[c] = "listed" /\ todo[c] = {}
      BY <1>8, <2>3 DEF HandlerReturns, HandlerOk, LoopOver
    <3>2. h \notin Polled => \A s \in Owed(j, h) : got[j][s] > 0
      BY <1>0, <2>3, <3>1 DEF OwedServed, ToCome
    <3>3. \A i \in Jobs, g \in Handlers :
             /\ delivered'[i][g] > 0 => delivered[i][g] > 0 \/ (i = j /\ g = h)
             /\ Owed(i, g)' = Owed(i, g)
      <4>1. \A i \in Jobs, g \in Handlers :
               delivered'[i][g] > 0 => delivered[i][g] > 0 \/ (i = j /\ g = h)
        BY <1>0, <1>4, <3>1, ReachNew DEF TypeOK
      <4>2. \A i \in Jobs, g \in Handlers : Owed(i, g)' = Owed(i, g)
        BY <2>1 DEF Owed, Active
      <4> QED BY <4>1, <4>2
    <3>4. NilMeansReached'
      BY <1>0, <2>1, <3>2, <3>3 DEF NilMeansReached
    <3> QED BY <2>1, <3>4 DEF OwedServed
  <2> QED BY <2>2, <2>3
<1>9. CASE ListSubscribers(c)
  <2>1. todo'[c] = Interested(c) /\ UNCHANGED <<at, delivered>>
    BY <1>9 DEF ListSubscribers, vars, goroutine, history, LoopInv, LoopTypes
  <2>2. Owed(j, h) \subseteq Interested(c)
    BY <1>4 DEF Owed, Interested
  <2>3. OwedServed(c)'
    BY <1>5, <2>1, <2>2 DEF OwedServed, ToCome
  <2> QED BY <1>0, <1>1, <2>1, <2>3, NilKept
<1>10. ASSUME NEW s \in Subs, InsertDeliveryLog(c, s)
       PROVE  NilMeansReached' /\ OwedServed(c)'
  <2>1. /\ phase[c] = "listed" /\ UNCHANGED <<at, delivered, got, bad>>
        /\ todo'[c] = todo[c] \ {s} /\ sub'[c] = s
        /\ phase'[c] = IF at[c] \in Polled THEN "sent" ELSE "logged"
    BY <1>10 DEF InsertDeliveryLog, vars, goroutine, history, LoopInv, LoopTypes
  <2>2. tried'[j] = tried[j] \cup {s}
    BY <1>4, <1>10 DEF InsertDeliveryLog, LoopInv, LoopTypes
  <2>3. OwedServed(c)'
    BY <1>0, <1>2, <1>5, <2>1, <2>2 DEF OwedServed, ToCome
  <2> QED BY <1>0, <1>1, <2>1, <2>3, NilKept
<1>11. CASE Send(c)
  <2>1. /\ phase[c] = "logged" /\ UNCHANGED <<at, delivered, todo, sub, bad, tried>>
        /\ \/ phase'[c] = "unsent"
           \/ phase'[c] = "sent" /\ Receive(j, sub[c])
    BY <1>11 DEF Send, vars, goroutine, history, LoopInv, LoopTypes
  <2>2. sub[c] \in Subs
    BY <1>0, <2>1 DEF Serving
  <2>3. phase'[c] = "sent" => got'[j][sub[c]] > 0
    BY <1>4, <2>1, <2>2, ReceiveCounts DEF LoopInv
  <2>4. \A s \in Owed(j, h) : s \in Subs
    BY DEF Owed
  <2>5. OwedServed(c)'
    BY <1>0, <1>1, <1>2, <1>4, <1>5, <2>1, <2>3, <2>4 DEF OwedServed, ToCome, GotGrows
  <2> QED BY <1>0, <1>1, <2>1, <2>5, NilKept
<1>12. CASE MarkRow(c)
  <2>1. /\ phase[c] \in {"sent", "unsent"} /\ phase'[c] = "listed"
        /\ UNCHANGED <<at, delivered, todo, sub, got, tried>>
        /\ ~bad'[c] => ~bad[c] /\ phase[c] = "sent"
    BY <1>12 DEF MarkRow, AnyErr, vars, goroutine, history, record, LoopInv, LoopTypes
  <2>2. OwedServed(c)'
    BY <1>0, <1>2, <1>5, <2>1 DEF OwedServed, ToCome
  <2> QED BY <1>0, <1>1, <2>1, <2>2, NilKept
<1> QED BY <1>6, <1>7, <1>8, <1>9, <1>10, <1>11, <1>12 DEF HandlerStep

LEMMA NextOwed ==
    ASSUME QueueInv, LoopInv, OwedInv, [DeliveryNext]_allVars
    PROVE  OwedInv'
<1>0. TypeOK /\ LoopTypes
  BY DEF QueueInv, LifecycleInv, Safe, LoopInv
<1>1. CASE Quiet
  <2>1. GotGrows /\ TriedGrows /\ OwedShrinks /\ UNCHANGED delivered
    BY <1>1 DEF Quiet, GotGrows, TriedGrows, OwedShrinks, tables, record, Owed, Active
  <2>2. ASSUME NEW c \in Consumers, Ends(c) PROVE OwedServed(c)'
    BY <2>2 DEF Ends, OwedServed
  <2> QED BY <1>1, <2>1, <2>2, NilKept, OwedServedKept DEF Quiet, OwedInv
<1>2. CASE Edits
  <2>1. UNCHANGED <<vars, loop, got, tried>> /\ OwedShrinks
    BY <1>0, <1>2, EditsEffect, EditsOwe
  <2>2. GotGrows /\ TriedGrows /\ UNCHANGED delivered
    BY <2>1 DEF GotGrows, TriedGrows, vars, history
  <2>3. \A c \in Consumers : SameLoop(c) /\ KeepsRunning(c)
    BY <2>1 DEF SameLoop, KeepsRunning, Running, loop, vars, goroutine
  <2> QED BY <2>1, <2>2, <2>3, NilKept, OwedServedKept DEF OwedInv
<1>3. ASSUME NEW c \in Consumers, HandlerStep(c) PROVE OwedInv'
  <2>1. GotGrows /\ TriedGrows /\ OwedShrinks
    BY <1>0, <1>3, HandlerRecord
  <2>2. \A d \in Consumers \ {c} : OwedServed(d)'
    BY <1>0, <1>3, <2>1, HandlerLocal, OwedServedKept DEF OwedInv
  <2> QED BY <1>3, <2>2, HandlerOwed DEF OwedInv
<1> QED BY <1>0, <1>1, <1>2, <1>3, DeliverySteps

LEMMA OwedInvariant == DeliverySpec => []OwedInv
<1>1. DeliveryInit => OwedInv
  BY DEF DeliveryInit, Init, OwedInv, OwedServed, NilMeansReached
<1>2. QueueInv /\ LoopInv /\ OwedInv /\ [DeliveryNext]_allVars => OwedInv'
  BY NextOwed
<1> QED BY <1>1, <1>2, ComposedInvariant, PTL DEF DeliverySpec

(* processJob acknowledges a job on the word of its handlers: whatever     *)
(* fails in a loop and whatever the administrator edits meanwhile, nil     *)
(* means that everybody who was owed the job got it.                       *)
THEOREM NilIsHonest == DeliverySpec => []NilMeansReached
<1>1. OwedInv => NilMeansReached
  BY DEF OwedInv
<1> QED BY <1>1, OwedInvariant, PTL

(* No loop returns before it came to everybody it owes the job to.         *)
THEOREM FailuresIsolated == DeliverySpec => FailureIsolated
<1>1. ASSUME QueueInv, LoopInv, OwedInv, [DeliveryNext]_allVars, NEW c \in Consumers
      PROVE  ComesToAll(c)
  <2> SUFFICES ASSUME phase[c] = "listed", at'[c] = at[c] + 1
               PROVE  Owed(raw[c].job, at[c]) \subseteq tried[raw[c].job]
    BY DEF ComesToAll
  <2>1. TypeOK /\ Running(c) /\ at[c] \in Nat \ {0}
    BY <1>1, QueueAssumption DEF QueueInv, LifecycleInv, Safe, LoopInv, Serving, Running, TypeOK
  <2>2. HandlerReturns(c) \/ at'[c] = at[c]
    <3>1. CASE Edits
      BY <2>1, <1>1, <3>1, EditsEffect DEF LoopInv, vars, goroutine
    <3>2. ASSUME NEW d \in Consumers \ {c}, HandlerStep(d) PROVE at'[c] = at[c]
      BY <1>1, <2>1, <3>2, HandlerLocal DEF LoopInv, KeepsRunning
    <3>3. CASE HandlerStep(c)
      <4>1. HandlerReturns(c) \/ UNCHANGED vars
        BY <3>3 DEF HandlerStep, SkipUnset, ListSubscribers, ListFails, InsertDeliveryLog, Send, MarkRow
      <4> QED BY <4>1 DEF vars, goroutine
    <3>4. CASE Quiet
      BY <2>1, <3>4 DEF Quiet, Ends, KeepsRunning, SameLoop
    <3> QED BY <1>1, <2>1, <3>1, <3>2, <3>3, <3>4, DeliverySteps
  <2>3. todo[c] = {}
    BY <2>1, <2>2 DEF HandlerReturns, LoopOver
  <2> QED BY <1>1, <2>3 DEF OwedInv, OwedServed
<1>2. QueueInv /\ LoopInv /\ OwedInv /\ [DeliveryNext]_allVars
         => [\A c \in Consumers : ComesToAll(c)]_allVars
  BY <1>1
<1> QED BY <1>2, ComposedInvariant, OwedInvariant, PTL DEF DeliverySpec, FailureIsolated

-----------------------------------------------------------------------------
(* Messages after a deactivation.                                          *)

(* Goroutine c may still send the message of its job to s.                 *)
Bearing(c, s) == live[c] /\ (s \in todo[c] \/ (sub[c] = s /\ phase[c] = "logged"))

(* One loop in each process and symbol may: the places it may come from.   *)
Places(s) == Workers \X Follows[s]
Bearers(s) ==
    {b \in Places(s) : \E c \in Consumers : c[1] = b[1] /\ Sym(c) = b[2] /\ Bearing(c, s)}

(* What a subscriber who is not active got, and may still get.             *)
LateBounded(s) ==
    late[s] + (IF Active(s) THEN 0 ELSE Cardinality(Bearers(s))) <= Cardinality(Places(s))
LateInv == \A s \in Subs : LateBounded(s)

LEMMA PlacesFinite ==
    ASSUME NEW s \in Subs
    PROVE  /\ IsFiniteSet(Places(s)) /\ Cardinality(Places(s)) \in Nat
           /\ IsFiniteSet(Bearers(s)) /\ Cardinality(Bearers(s)) \in Nat
           /\ Cardinality(Bearers(s)) <= Cardinality(Places(s))
<1>1. IsFiniteSet(Workers) /\ IsFiniteSet(Follows[s])
  <2>1. Follows[s] \subseteq Symbols /\ IsFiniteSet(Symbols)
    BY DeliveryAssumption
  <2> QED BY <2>1, FS_Subset, DeliveryAssumption
<1>2. IsFiniteSet(Places(s))
  BY <1>1, FS_Product DEF Places
<1>3. Bearers(s) \subseteq Places(s)
  BY DEF Bearers
<1> QED BY <1>2, <1>3, FS_Subset, FS_CardinalityType

(* The same for the bearers after a step.                                  *)
LEMMA FewerBearers ==
    ASSUME NEW s \in Subs,
           \A c \in Consumers : Bearing(c, s)' => Bearing(c, s)
    PROVE  /\ Bearers(s)' \subseteq Bearers(s)
           /\ IsFiniteSet(Bearers(s)') /\ Cardinality(Bearers(s)') \in Nat
           /\ Cardinality(Bearers(s)') <= Cardinality(Bearers(s))
<1>1. Bearers(s)' \subseteq Bearers(s)
  BY DEF Bearers, Places, Sym
<1> QED BY <1>1, PlacesFinite, FS_Subset, FS_CardinalityType

LEMMA LateKept ==
    ASSUME LoopTypes, NEW s \in Subs, LateBounded(s), late'[s] = late[s], status'[s] = status[s],
           ~Active(s) => \A c \in Consumers : Bearing(c, s)' => Bearing(c, s)
    PROVE  LateBounded(s)'
<1>1. late[s] \in Nat /\ Places(s)' = Places(s)
  BY DEF LoopTypes, Places
<1>2. CASE Active(s)
  BY <1>1, <1>2 DEF LateBounded, Active
<1>3. CASE ~Active(s)
  <2>1. ~Active(s)' /\ Cardinality(Bearers(s)') <= Cardinality(Bearers(s))
        /\ Cardinality(Bearers(s)') \in Nat
    BY <1>3, FewerBearers DEF Active
  <2> QED BY <1>1, <1>3, <2>1, PlacesFinite DEF LateBounded
<1> QED BY <1>2, <1>3

(* A handler comes nearer to nobody who is not active.                     *)
LEMMA HandlerBearing ==
    ASSUME TypeOK, LoopInv, NEW c \in Consumers, HandlerStep(c),
           NEW s \in Subs, ~Active(s), NEW d \in Consumers, Bearing(d, s)'
    PROVE  Bearing(d, s)
<1>1. CASE d # c
  BY <1>1, HandlerLocal DEF LoopInv, SameLoop, Bearing
<1>2. CASE d = c
  <2>1. live'[c] = live[c]
    BY HandlerLocal DEF LoopInv
  <2>2. CASE SkipUnset(c) \/ ListFails(c) \/ HandlerReturns(c)
    BY <1>2, <2>1, <2>2 DEF SkipUnset, ListFails, HandlerReturns, Leave, detail, loop, Bearing,
                            LoopInv, LoopTypes
  <2>3. CASE ListSubscribers(c)
    BY <1>2, <2>1, <2>3 DEF ListSubscribers, Interested, Bearing, LoopInv, LoopTypes
  <2>4. CASE \E t \in Subs : InsertDeliveryLog(c, t)
    BY <1>2, <2>1, <2>4 DEF InsertDeliveryLog, Bearing, LoopInv, LoopTypes
  <2>5. CASE Send(c) \/ MarkRow(c)
    BY <1>2, <2>1, <2>5 DEF Send, MarkRow, Bearing, LoopInv, LoopTypes
  <2> QED BY <2>2, <2>3, <2>4, <2>5 DEF HandlerStep
<1> QED BY <1>1, <1>2

(* A message that is late uses a place up: no other goroutine can send one *)
(* from there.                                                             *)
LEMMA SendLate ==
    ASSUME QueueInv, LoopInv, LateInv, NEW c \in Consumers, Send(c)
    PROVE  LateInv'
<1>0. TypeOK /\ LoopTypes /\ HandlerStep(c)
  BY DEF QueueInv, LifecycleInv, Safe, LoopInv, HandlerStep
<1>1. /\ raw[c].job \in Jobs /\ sub[c] \in Subs /\ sub[c] \notin todo[c]
      /\ Sym(c) \in Follows[sub[c]] /\ phase[c] = "logged" /\ c[1] \in Workers
  BY <1>0, RunningJob, ConsumerParts DEF Send, LoopInv, Serving
<1>2. /\ UNCHANGED <<status, todo, sub, live>>
      /\ phase'[c] \in {"sent", "unsent"}
      /\ late' = late \/ (live[c] /\ Receive(raw[c].job, sub[c]))
  BY <1>0 DEF Send, Done, tables, vars, goroutine, LoopTypes
<1>3. ASSUME NEW s \in Subs, late'[s] = late[s] PROVE LateBounded(s)'
  BY <1>0, <1>2, <1>3, HandlerBearing, LateKept DEF LateInv
<1>4. CASE late' = late
  BY <1>3, <1>4 DEF LateInv
<1>5. CASE live[c] /\ Receive(raw[c].job, sub[c])
  <2>0. PICK s \in Subs, b \in Workers \X Symbols : s = sub[c] /\ b = <<c[1], Sym(c)>>
    BY <1>1, ConsumerParts
  <2>1. /\ \A t \in Subs : t # s \/ Active(s) => late'[t] = late[t]
        /\ ~Active(s) => late'[s] = late[s] + 1
    BY <1>0, <1>1, <1>5, <2>0, ReceiveCounts
  <2>2. CASE Active(s)
    BY <1>3, <2>1, <2>2 DEF LateInv
  <2>3. CASE ~Active(s)
    <3>1. b \in Bearers(s) /\ b[1] = c[1] /\ b[2] = Sym(c)
      BY <1>1, <1>5, <2>0 DEF Bearers, Places, Bearing
    <3>2. b \notin Bearers(s)'
      <4>1. ASSUME NEW d \in Consumers, d[1] = c[1], Sym(d) = Sym(c), Bearing(d, s)'
            PROVE  FALSE
        <5>1. live[d]
          BY <1>2, <4>1 DEF Bearing
        <5>2. d = c
          BY <1>5, <4>1, <5>1 DEF QueueInv, OneLive
        <5> QED BY <1>1, <1>2, <2>0, <4>1, <5>2 DEF Bearing
      <4> QED BY <3>1, <4>1 DEF Bearers, Sym
    <3>3. Bearers(s)' \subseteq Bearers(s) \ {b}
      BY <1>0, <1>1, <2>3, <3>2, HandlerBearing, FewerBearers
    <3>4. /\ IsFiniteSet(Bearers(s) \ {b})
          /\ Cardinality(Bearers(s) \ {b}) = Cardinality(Bearers(s)) - 1
      BY <3>1, PlacesFinite, FS_RemoveElement
    <3>5. /\ Cardinality(Bearers(s)') <= Cardinality(Bearers(s)) - 1
          /\ Cardinality(Bearers(s)') \in Nat
      BY <3>3, <3>4, FS_Subset, FS_CardinalityType
    <3>6. late[s] \in Nat /\ Places(s)' = Places(s) /\ ~Active(s)'
      BY <1>0, <1>1, <1>2, <2>3 DEF LoopTypes, Places, Active
    <3>7. LateBounded(s)'
      BY <2>1, <2>3, <3>4, <3>5, <3>6, PlacesFinite DEF LateBounded, LateInv
    <3> QED BY <1>3, <2>1, <3>7 DEF LateInv
  <2> QED BY <2>2, <2>3
<1> QED BY <1>2, <1>4, <1>5

LEMMA NextLate ==
    ASSUME QueueInv, LoopInv, LateInv, [DeliveryNext]_allVars
    PROVE  LateInv'
<1>0. TypeOK /\ LoopTypes
  BY DEF QueueInv, LifecycleInv, Safe, LoopInv
<1>1. CASE Quiet
  <2>1. UNCHANGED <<late, status>>
    BY <1>1 DEF Quiet, tables, record
  <2>2. ASSUME NEW s \in Subs, NEW c \in Consumers, Bearing(c, s)' PROVE Bearing(c, s)
    <3>1. SameLoop(c) /\ KeepsRunning(c)
      BY <1>1, <2>2 DEF Quiet, Ends, Bearing
    <3>2. phase[c] # "start"
      BY <2>2, <3>1 DEF SameLoop, Bearing, LoopInv, Serving
    <3> QED BY <2>2, <3>1, <3>2 DEF SameLoop, KeepsRunning, Bearing, LoopInv, Serving
  <2> QED BY <1>0, <2>1, <2>2, LateKept DEF LateInv
<1>2. ASSUME NEW c \in Consumers, HandlerStep(c), ~Send(c) PROVE LateInv'
  <2>1. UNCHANGED <<late, status>>
    BY <1>2 DEF HandlerStep, SkipUnset, ListSubscribers, ListFails, InsertDeliveryLog, MarkRow,
                HandlerReturns, Leave, detail, record, tables
  <2> QED BY <1>0, <1>2, <2>1, HandlerBearing, LateKept DEF LateInv
<1>3. ASSUME NEW s \in Subs, CreateSubscriber(s) \/ \E a \in BOOLEAN : SetSubscriberActive(s, a)
      PROVE  LateInv'
  <2>1. /\ UNCHANGED <<live, todo, sub, phase>>
        /\ \A t \in Subs \ {s} : late'[t] = late[t] /\ status'[t] = status[t]
        /\ \/ late'[s] = 0
           \/ late'[s] = late[s] /\ status'[s] = "active"
    BY <1>0, <1>3 DEF CreateSubscriber, SetSubscriberActive, InsertSubscriber, UpdateActive, vars,
                      goroutine, loop, LoopTypes
  <2>2. \A t \in Subs : Bearers(t)' = Bearers(t) /\ Places(t)' = Places(t)
    BY <2>1 DEF Bearers, Bearing, Places
  <2>3. \A t \in Subs \ {s} : LateBounded(t)'
    BY <2>1, <2>2 DEF LateInv, LateBounded, Active
  <2>4. LateBounded(s)'
    <3>1. late[s] \in Nat /\ LateBounded(s)
      BY <1>0 DEF LoopTypes, LateInv
    <3> QED BY <2>1, <2>2, <3>1, PlacesFinite DEF LateBounded, Active
  <2> QED BY <2>3, <2>4 DEF LateInv
<1> QED BY <1>0, <1>1, <1>2, <1>3, SendLate, DeliverySteps DEF Edits

(* A subscriber who was deactivated gets at most the messages of the jobs  *)
(* that were in hand, one in each process and symbol, for any number of    *)
(* them; the messages of cancelled goroutines never get through.           *)
THEOREM DeactivationBounded == DeliverySpec => []DeactivationHeeded
<1>1. DeliveryInit => LateInv
  <2> SUFFICES ASSUME DeliveryInit, NEW s \in Subs PROVE LateBounded(s)
    BY DEF LateInv
  <2> QED BY PlacesFinite DEF DeliveryInit, LateBounded
<1>2. QueueInv /\ LoopInv /\ LateInv /\ [DeliveryNext]_allVars => LateInv'
  BY NextLate
<1>3. LoopInv /\ LateInv => DeactivationHeeded
  <2> SUFFICES ASSUME LoopInv, LateInv, NEW s \in Subs PROVE late[s] <= Cardinality(Places(s))
    BY DEF DeactivationHeeded, Places
  <2>1. late[s] \in Nat /\ LateBounded(s)
    BY DEF LoopInv, LoopTypes, LateInv
  <2> QED BY <2>1, PlacesFinite DEF LateBounded
<1> QED BY <1>1, <1>2, <1>3, ComposedInvariant, PTL DEF DeliverySpec

-----------------------------------------------------------------------------
(* No message twice, and none out of order, while nothing runs the cleanup.*)

(* A goroutine that has a job in its handlers had it before, or has just   *)
(* taken it from its queue.                                                *)
LEMMA HandlesEffect ==
    ASSUME TypeOK, Outside, NEW c \in Consumers, Handles(c)'
    PROVE  \/ /\ Handles(c) /\ raw'[c] = raw[c] /\ at'[c] = at[c]
              /\ live'[c] => live[c]
           \/ raw'[c] \in Range(queue[Sym(c)])
<1> DEFINE Goal == \/ /\ Handles(c) /\ raw'[c] = raw[c] /\ at'[c] = at[c]
                      /\ live'[c] => live[c]
                   \/ raw'[c] \in Range(queue[Sym(c)])
<1>1. ASSUME UNCHANGED <<pc, raw, at, live>> PROVE Goal
  BY <1>1 DEF Handles
<1>2. ASSUME NEW d \in Consumers, Idle(d) PROVE Goal
  BY <1>2 DEF Idle, Handles, TypeOK
<1>3. ASSUME NEW d \in Consumers, Start(d) \/ Cancel(d) PROVE Goal
  BY <1>3 DEF Start, Cancel, Handles, TypeOK
<1>4. ASSUME NEW d \in Consumers, NEW reply \in BOOLEAN, Dequeue(d, reply) PROVE Goal
  <2>1. /\ UNCHANGED <<live, at>> /\ queue[Sym(d)] # <<>> /\ Sym(d) \in Symbols
        /\ \/ /\ pc' = [pc EXCEPT ![d] = "handling"]
              /\ raw' = [raw EXCEPT ![d] = Head(queue[Sym(d)])]
           \/ UNCHANGED <<pc, raw>>
    BY <1>4, ConsumerParts DEF Dequeue
  <2>2. Head(queue[Sym(d)]) \in Range(queue[Sym(d)])
    <3>1. queue[Sym(d)] \in Seq(Payload) /\ processing[Sym(d)] \in Seq(Payload)
      BY <2>1 DEF TypeOK
    <3>2. Range(queue[Sym(d)]) = {Head(queue[Sym(d)])} \cup Range(Tail(queue[Sym(d)]))
      BY <2>1, <3>1, MovedProperties
    <3> QED BY <3>2
  <2> QED BY <2>1, <2>2 DEF Handles, TypeOK
<1>5. ASSUME NEW d \in Consumers, QueueStep(d) PROVE Goal
  <2>1. CASE \/ Return(d) \/ DiscardMalformed(d) \/ AckDelivered(d) \/ AbandonRetry(d)
             \/ Requeue(d) \/ InsertDeadLetter(d)
    BY <1>2, <2>1 DEF Return, DiscardMalformed, AckDelivered, AbandonRetry, Requeue, InsertDeadLetter
  <2>2. CASE AckForRetry(d) \/ MoveToDeadLetter(d)
    BY <2>2 DEF AckForRetry, MoveToDeadLetter, Handles, TypeOK
  <2>3. CASE PollTimeout(d)
    BY <1>1, <2>3 DEF PollTimeout, vars, goroutine
  <2> QED BY <1>4, <1>5, <2>1, <2>2, <2>3 DEF QueueStep
<1>6. ASSUME \/ \E s \in Symbols : Enqueue(s)
             \/ \E j \in Jobs : Age(j)
             \/ \E w \in Workers : SkipFresh(w) \/ NackStale(w)
             \/ \E w \in Workers, s \in Symbols : CleanupScan(w, s)
             \/ UNCHANGED vars
      PROVE  Goal
  BY <1>1, <1>6 DEF Enqueue, Age, SkipFresh, NackStale, CleanupScan, goroutine, vars
<1>7. ASSUME NEW w \in Workers, Crash(w) PROVE Goal
  BY <1>7 DEF Crash, Handles
<1> QED BY <1>3, <1>4, <1>5, <1>6, <1>7 DEF Outside, QueueAction

(* The jobs whose messages are out are behind the queue.                   *)
GotBefore ==
    \A j \in Jobs, s \in Subs :
        got[j][s] > 0 => j \in SentJobs /\ Above(queue[j[1]], j[2])

(* The subscribers a goroutine has before it in the handlers of its job,   *)
(* who have got nothing of the job.                                        *)
Ahead(c, s) ==
    \/ ChannelOf[s] > at[c]
    \/ /\ ChannelOf[s] = at[c]
       /\ phase[c] = "start" \/ s \in todo[c] \/ (sub[c] = s /\ phase[c] = "logged")
Once(c) == Handles(c) => \A s \in Subs : Ahead(c, s) => got[raw[c].job][s] = 0
OnceInv == AtMostOnce /\ \A c \in Consumers : Once(c)

(* No later job is out than the one a live goroutine works on.             *)
Latest(c) ==
    live[c] /\ Handles(c) =>
        \A j \in Jobs, s \in Subs :
            j[1] = Sym(c) /\ j[2] > raw[c].job[2] => got[j][s] = 0
OrderInv == \A c \in Consumers : Latest(c)

(* What the request of a live goroutine changes; nothing else does.        *)
LEMMA GotEffect ==
    ASSUME QueueInv, LoopInv, [DeliveryNext]_allVars
    PROVE  \/ UNCHANGED got
           \/ \E c \in Consumers : Send(c) /\ live[c] /\ Receive(raw[c].job, sub[c])
<1>1. TypeOK /\ LoopTypes
  BY DEF QueueInv, LifecycleInv, Safe, LoopInv
<1>2. ASSUME NEW c \in Consumers, HandlerStep(c), ~Send(c) PROVE UNCHANGED got
  BY <1>2 DEF HandlerStep, SkipUnset, ListSubscribers, ListFails, InsertDeliveryLog, MarkRow,
              HandlerReturns, Leave, detail, record
<1>3. ASSUME NEW c \in Consumers, Send(c)
      PROVE  UNCHANGED got \/ (live[c] /\ Receive(raw[c].job, sub[c]))
  BY <1>3 DEF Send, Done
<1> QED BY <1>1, <1>2, <1>3, DeliverySteps, EditsEffect DEF Quiet, record

(* The goroutine that sends, and what it changes.                          *)
LEMMA Sender ==
    ASSUME QueueInv, LoopInv, NEW c \in Consumers, Send(c), Receive(raw[c].job, sub[c])
    PROVE  /\ Handles(c) /\ raw[c].job \in Jobs /\ sub[c] \in Subs /\ sub[c] \notin todo[c]
           /\ phase[c] = "logged" /\ phase'[c] # "logged" /\ phase'[c] # "start"
           /\ ChannelOf[sub[c]] = at[c]
           /\ UNCHANGED <<pc, raw, at, live, todo, sub, queue, sent>>
           /\ \A j \in Jobs, s \in Subs : j # raw[c].job \/ s # sub[c] => got'[j][s] = got[j][s]
           /\ got'[raw[c].job][sub[c]] =
                 IF got[raw[c].job][sub[c]] < 2 THEN got[raw[c].job][sub[c]] + 1
                 ELSE got[raw[c].job][sub[c]]
<1>1. TypeOK /\ LoopTypes
  BY DEF QueueInv, LifecycleInv, Safe, LoopInv
<1>2. /\ Handles(c) /\ raw[c].job \in Jobs /\ sub[c] \in Subs /\ sub[c] \notin todo[c]
      /\ ChannelOf[sub[c]] = at[c] /\ phase[c] = "logged"
  BY <1>1, RunningJob DEF Send, Running, Handles, LoopInv, Serving
<1>3. phase'[c] \in {"sent", "unsent"}
  BY <1>1 DEF Send, LoopTypes
<1>4. UNCHANGED <<pc, raw, at, live, todo, sub, queue, sent>>
  BY DEF Send, vars, goroutine, redis
<1> QED BY <1>1, <1>2, <1>3, <1>4, ReceiveCounts

LEMMA NextGotBefore ==
    ASSUME QueueInv, QueueOrder, LoopInv, GotBefore, Cleaners = {}, [DeliveryNext]_allVars
    PROVE  GotBefore'
<1>1. TypeOK /\ TypeOK' /\ [Next]_vars /\ QueueInv'
  BY DeliveryStepRefines, NextQueue DEF QueueInv, LifecycleInv, Safe
<1>2. ASSUME NEW j \in SentJobs, Above(queue[j[1]], j[2])
      PROVE  j \in SentJobs' /\ Above(queue'[j[1]], j[2])
  <2>1. Above(queue'[j[1]], j[2])
    BY <1>1, <1>2, AboveKept
  <2>2. j \in SentJobs'
    <3>1. j \in Jobs /\ j[1] \in Symbols /\ j[2] \in Nat /\ j[2] <= sent[j[1]]
      BY JobParts DEF SentJobs, Enqueued
    <3>2. sent[j[1]] \in Nat /\ sent'[j[1]] \in Nat /\ sent[j[1]] <= sent'[j[1]]
      <4>1. (\E s \in Symbols : sent' = [sent EXCEPT ![s] = @ + 1]) \/ UNCHANGED sent
        BY <1>1 DEF Next, ConsumerStep, QueueStep, vars, Enqueue, Age, Start, Cancel, Return,
             Dequeue, PollTimeout, DiscardMalformed, HandlerOk, HandlerError, AckDelivered,
             AckForRetry, AbandonRetry, Requeue, MoveToDeadLetter, InsertDeadLetter, CleanupScan,
             SkipFresh, NackStale, Crash
      <4>2. sent \in [Symbols -> 0 .. MaxJobs] /\ sent' \in [Symbols -> 0 .. MaxJobs]
        BY <1>1 DEF TypeOK
      <4>3. sent[j[1]] \in Nat /\ sent'[j[1]] \in Nat
        BY <3>1, <4>2
      <4>4. ASSUME NEW s \in Symbols, sent' = [sent EXCEPT ![s] = @ + 1]
            PROVE  sent[j[1]] <= sent'[j[1]]
        <5>1. sent'[j[1]] = sent[j[1]] + 1 \/ sent'[j[1]] = sent[j[1]]
          BY <3>1, <4>2, <4>4
        <5> QED BY <4>3, <5>1
      <4> QED BY <4>1, <4>3, <4>4
    <3> QED BY <3>1, <3>2 DEF SentJobs, Enqueued
  <2> QED BY <2>1, <2>2
<1>3. CASE UNCHANGED got
  BY <1>2, <1>3 DEF GotBefore
<1>4. ASSUME NEW c \in Consumers, Send(c), Receive(raw[c].job, sub[c]) PROVE GotBefore'
  <2>1. /\ Handles(c) /\ UNCHANGED <<queue, sent>>
        /\ \A j \in Jobs, s \in Subs : j # raw[c].job => got'[j][s] = got[j][s]
    BY <1>4, Sender
  <2>2. /\ raw[c].job \in SentJobs /\ raw[c].job[1] = Sym(c)
        /\ Above(queue[Sym(c)], raw[c].job[2])
    BY <2>1, HandledJob DEF QueueOrder
  <2>3. SentJobs' = SentJobs
    BY <2>1, SentJobsKept
  <2>4. ASSUME NEW j \in Jobs, NEW s \in Subs, got'[j][s] > 0
        PROVE  j \in SentJobs' /\ Above(queue'[j[1]], j[2])
    <3>1. CASE j = raw[c].job
      BY <2>1, <2>2, <2>3, <3>1
    <3>2. CASE j # raw[c].job
      BY <2>1, <2>3, <2>4, <3>2 DEF GotBefore
    <3> QED BY <3>1, <3>2
  <2> QED BY <2>4 DEF GotBefore
<1> QED BY <1>3, <1>4, GotEffect

(* A job that was on the queue has not been sent to anybody, and no later  *)
(* one has.                                                                *)
LEMMA FromQueue ==
    ASSUME QueueInv, LoopInv, GotBefore, NEW x \in Symbols, NEW p \in Range(queue[x]),
           p.form = "object"
    PROVE  /\ p.job \in Jobs /\ p.job[1] = x /\ p.job[2] \in Nat
           /\ ~Resends => \A s \in Subs : got[p.job][s] = 0
           /\ \A j \in Jobs, s \in Subs : j[1] = x /\ j[2] > p.job[2] => got[j][s] = 0
<1>1. p.job \in Jobs /\ p.job[1] = x /\ p.job[2] \in Nat
  BY JobParts DEF QueueInv, OwnSymbol, LifecycleInv, NothingInvented, SentJobs
<1>2. ASSUME NEW j \in Jobs, NEW s \in Subs PROVE got[j][s] = 0 \/ got[j][s] > 0
  <2>1. got[j][s] \in 0 .. 2
    BY DEF LoopInv, LoopTypes
  <2> QED BY <2>1
<1>3. ASSUME NEW j \in Jobs, NEW s \in Subs, j[1] = x, got[j][s] > 0
      PROVE  Before(j[2], p.job[2])
  BY <1>3 DEF GotBefore, Above
<1>4. \A j \in Jobs : j[2] \in Nat
  BY JobParts
<1> QED BY <1>1, <1>2, <1>3, <1>4 DEF Before

LEMMA NextOnce ==
    ASSUME QueueInv, QueueOrder, LoopInv, GotBefore, OnceInv, ~Resends,
           [DeliveryNext]_allVars
    PROVE  OnceInv'
<1>1. TypeOK /\ LoopTypes
  BY DEF QueueInv, LifecycleInv, Safe, LoopInv
<1>2. ASSUME NEW c \in Consumers, Handles(c) => Handles(c)', raw'[c] = raw[c], at'[c] = at[c],
             SameLoop(c), UNCHANGED got, Handles(c)' => Handles(c)
      PROVE  Once(c)'
  BY <1>2 DEF OnceInv, Once, Ahead, SameLoop
<1>3. CASE Quiet
  <2>1. UNCHANGED got
    BY <1>3 DEF Quiet, record
  <2>2. ASSUME NEW c \in Consumers, Handles(c)' PROVE Once(c)'
    <3>1. SameLoop(c)
      BY <1>3, <2>2 DEF Quiet, Ends, Handles
    <3>2. CASE raw'[c] \in Range(queue[Sym(c)])
      <4>1. \A s \in Subs : got[raw'[c].job][s] = 0
        BY <2>2, <3>2, FromQueue, ConsumerParts DEF Handles
      <4> QED BY <2>1, <4>1 DEF Once
    <3>3. CASE Handles(c) /\ raw'[c] = raw[c] /\ at'[c] = at[c]
      BY <1>2, <2>1, <2>2, <3>1, <3>3
    <3> QED BY <1>1, <1>3, <2>2, <3>2, <3>3, HandlesEffect DEF Quiet
  <2> QED BY <2>1, <2>2 DEF OnceInv, Once, AtMostOnce
<1>4. CASE Edits
  <2>1. UNCHANGED <<vars, loop, got>>
    BY <1>1, <1>4, EditsEffect
  <2> QED BY <2>1 DEF OnceInv, Once, AtMostOnce, Ahead, Handles, loop, vars, goroutine
<1>5. ASSUME NEW c \in Consumers, HandlerStep(c), UNCHANGED got PROVE OnceInv'
  <2>1. ASSUME NEW d \in Consumers \ {c} PROVE Once(d)'
    BY <1>1, <1>2, <1>5, HandlerLocal DEF Handles
  <2>2. Once(c)'
    <3>1. Handles(c)' => Handles(c) /\ raw'[c] = raw[c]
      BY <1>1, <1>5, HandlerLocal DEF Handles
    <3>2. ASSUME NEW s \in Subs, Ahead(c, s)' PROVE Ahead(c, s)
      <4>0. at[c] \in Nat /\ ChannelOf[s] \in Nat
        BY <1>1, QueueAssumption, DeliveryAssumption DEF TypeOK, Handlers
      <4>1. CASE SkipUnset(c) \/ ListFails(c) \/ HandlerReturns(c)
        <5>1. at'[c] = at[c] + 1
          BY <1>1, <4>1 DEF SkipUnset, ListFails, HandlerReturns, HandlerOk, HandlerError, TypeOK
        <5> QED BY <3>2, <4>0, <5>1 DEF Ahead
      <4>2. CASE ListSubscribers(c)
        <5>1. UNCHANGED at /\ phase[c] = "start"
          BY <4>2 DEF ListSubscribers, vars, goroutine
        <5> QED BY <3>2, <5>1 DEF Ahead
      <4>3. CASE \E t \in Subs : InsertDeliveryLog(c, t)
        <5>1. PICK t \in Subs : InsertDeliveryLog(c, t)
          BY <4>3
        <5>2. /\ UNCHANGED at /\ t \in todo[c] /\ todo'[c] = todo[c] \ {t} /\ sub'[c] = t
              /\ phase'[c] # "start"
          BY <1>1, <5>1 DEF InsertDeliveryLog, vars, goroutine, LoopTypes
        <5> QED BY <3>2, <5>2 DEF Ahead
      <4>4. CASE Send(c) \/ MarkRow(c)
        <5>1. /\ UNCHANGED <<at, todo, sub>>
              /\ phase'[c] # "logged" /\ phase'[c] # "start"
          BY <1>1, <4>4 DEF Send, MarkRow, vars, goroutine, LoopTypes
        <5> QED BY <3>2, <5>1 DEF Ahead
      <4> QED BY <1>5, <4>1, <4>2, <4>3, <4>4 DEF HandlerStep
    <3> QED BY <1>5, <3>1, <3>2 DEF OnceInv, Once
  <2> QED BY <1>5, <2>1, <2>2 DEF OnceInv, AtMostOnce
<1>6. ASSUME NEW c \in Consumers, Send(c), Receive(raw[c].job, sub[c]) PROVE OnceInv'
  <2>1. /\ Handles(c) /\ raw[c].job \in Jobs /\ sub[c] \in Subs /\ sub[c] \notin todo[c]
        /\ phase[c] = "logged" /\ phase'[c] # "logged" /\ phase'[c] # "start"
        /\ ChannelOf[sub[c]] = at[c]
        /\ UNCHANGED <<pc, raw, at, live, todo, sub, queue, sent>>
        /\ \A j \in Jobs, s \in Subs : j # raw[c].job \/ s # sub[c] => got'[j][s] = got[j][s]
        /\ got'[raw[c].job][sub[c]] =
              IF got[raw[c].job][sub[c]] < 2 THEN got[raw[c].job][sub[c]] + 1
              ELSE got[raw[c].job][sub[c]]
    BY <1>6, Sender
  <2>2. Ahead(c, sub[c]) /\ got[raw[c].job][sub[c]] = 0
    BY <2>1 DEF Ahead, OnceInv, Once
  <2>3. got'[raw[c].job][sub[c]] = 1
    BY <2>1, <2>2
  <2>4. AtMostOnce'
    BY <2>1, <2>3 DEF OnceInv, AtMostOnce
  <2>5. ASSUME NEW d \in Consumers \ {c}, Handles(d) PROVE Once(d)'
    <3>1. raw[d].job \in Jobs /\ raw[d].job # raw[c].job
      BY <2>1, <2>5, HandledJob DEF QueueOrder
    <3>2. \A s \in Subs : Ahead(d, s)' <=> Ahead(d, s)
      BY <1>1, <1>6, <2>1, HandlerLocal DEF HandlerStep, Ahead, SameLoop
    <3> QED BY <2>1, <2>5, <3>1, <3>2 DEF OnceInv, Once, Handles
  <2>6. ASSUME NEW s \in Subs, Ahead(c, s)' PROVE got'[raw[c].job][s] = 0
    <3>1. s # sub[c] /\ Ahead(c, s)
      <4>1. at[c] \in Nat
        BY <1>1, QueueAssumption DEF TypeOK
      <4> QED BY <2>1, <2>6, <4>1 DEF Ahead
    <3> QED BY <2>1, <3>1 DEF OnceInv, Once
  <2>7. Once(c)'
    BY <2>1, <2>6 DEF Once, Handles
  <2>8. ASSUME NEW d \in Consumers \ {c}, ~Handles(d) PROVE Once(d)'
    BY <2>1, <2>8 DEF Once, Handles
  <2> QED BY <2>4, <2>5, <2>7, <2>8 DEF OnceInv
<1>7. CASE \E c \in Consumers : HandlerStep(c)
  BY <1>5, <1>6, <1>7, GotEffect DEF HandlerStep
<1>8. ASSUME NEW c \in Consumers, HandlerStep(c) PROVE OnceInv'
  BY <1>7, <1>8
<1> QED BY <1>1, <1>3, <1>4, <1>8, DeliverySteps

LEMMA GotBeforeInvariant ==
    ASSUME Cleaners = {}
    PROVE  DeliverySpec => []GotBefore /\ []QueueOrder
<1>1. DeliveryInit => GotBefore
  BY DEF DeliveryInit, GotBefore
<1>2. QueueInv /\ QueueOrder /\ LoopInv /\ GotBefore /\ [DeliveryNext]_allVars => GotBefore'
  BY NextGotBefore
<1>3. Spec => []QueueOrder
  BY OrderInvariant
<1> QED BY <1>1, <1>2, <1>3, ComposedInvariant, DeliveryImplementsQueue, PTL DEF DeliverySpec

(* In the deployment, where no process runs the cleanup, and with a Redis  *)
(* client that carries out a command once: for any number of processes,    *)
(* goroutines, crashes, cancellations and retries, nobody gets the message *)
(* of a job twice.                                                         *)
THEOREM NobodyTwice ==
    ASSUME Cleaners = {}, ~Resends
    PROVE  DeliverySpec => []AtMostOnce
<1>1. DeliveryInit => OnceInv
  <2> SUFFICES ASSUME DeliveryInit PROVE OnceInv
    OBVIOUS
  <2>1. AtMostOnce
    BY DEF DeliveryInit, AtMostOnce
  <2>2. \A c \in Consumers : ~Handles(c)
    BY DEF DeliveryInit, Init, Handles
  <2> QED BY <2>1, <2>2 DEF OnceInv, Once
<1>2. QueueInv /\ QueueOrder /\ LoopInv /\ GotBefore /\ OnceInv /\ [DeliveryNext]_allVars
         => OnceInv'
  BY NextOnce
<1>3. OnceInv => AtMostOnce
  BY DEF OnceInv
<1> QED BY <1>1, <1>2, <1>3, ComposedInvariant, GotBeforeInvariant, PTL DEF DeliverySpec

(* One process at most.                                                    *)
OneWorker == \A v, w \in Workers : v = w

LEMMA NextLatest ==
    ASSUME QueueInv, LoopInv, GotBefore, OrderInv, OneWorker, [DeliveryNext]_allVars
    PROVE  OrderInv'
<1>1. TypeOK /\ LoopTypes
  BY DEF QueueInv, LifecycleInv, Safe, LoopInv
<1>2. ASSUME NEW c \in Consumers, Handles(c)' => Handles(c) /\ raw'[c] = raw[c],
             live'[c] => live[c], UNCHANGED got
      PROVE  Latest(c)'
  BY <1>2 DEF OrderInv, Latest, Sym
<1>3. CASE Quiet
  <2>1. UNCHANGED got
    BY <1>3 DEF Quiet, record
  <2>2. ASSUME NEW c \in Consumers, Handles(c)' PROVE Latest(c)'
    <3>1. CASE raw'[c] \in Range(queue[Sym(c)])
      <4>1. \A j \in Jobs, s \in Subs : j[1] = Sym(c) /\ j[2] > raw'[c].job[2] => got[j][s] = 0
        BY <2>2, <3>1, FromQueue, ConsumerParts DEF Handles
      <4> QED BY <2>1, <4>1 DEF Latest, Sym
    <3>2. CASE Handles(c) /\ raw'[c] = raw[c] /\ (live'[c] => live[c])
      BY <1>2, <2>1, <3>2
    <3> QED BY <1>1, <1>3, <2>2, <3>1, <3>2, HandlesEffect DEF Quiet
  <2> QED BY <2>2 DEF OrderInv, Latest
<1>4. CASE Edits
  <2>1. UNCHANGED <<pc, raw, live, got>>
    BY <1>1, <1>4, EditsEffect DEF vars, goroutine
  <2> QED BY <1>2, <2>1 DEF OrderInv, Handles
<1>5. ASSUME NEW c \in Consumers, HandlerStep(c), UNCHANGED got PROVE OrderInv'
  BY <1>1, <1>2, <1>5, HandlerLocal DEF OrderInv, Handles
<1>6. ASSUME NEW c \in Consumers, Send(c), live[c], Receive(raw[c].job, sub[c]) PROVE OrderInv'
  <2>1. /\ Handles(c) /\ raw[c].job \in Jobs /\ sub[c] \in Subs
        /\ UNCHANGED <<pc, raw, live>>
        /\ \A j \in Jobs, s \in Subs : j # raw[c].job \/ s # sub[c] => got'[j][s] = got[j][s]
    BY <1>6, Sender
  <2>2. raw[c].job[1] = Sym(c) /\ raw[c].job[2] \in Nat
    BY <2>1, HandledJob
  <2>3. ASSUME NEW d \in Consumers, live[d], Handles(d), NEW j \in Jobs, NEW s \in Subs,
               j[1] = Sym(d), j[2] > raw[d].job[2]
        PROVE  got'[j][s] = 0
    <3>1. j # raw[c].job
      <4>1. CASE j = raw[c].job
        <5>1. c[1] = d[1] /\ Sym(c) = Sym(d)
          BY <2>2, <2>3, <4>1, ConsumerParts DEF OneWorker
        <5>2. c = d
          BY <1>6, <2>3, <5>1 DEF QueueInv, OneLive
        <5> QED BY <2>2, <2>3, <4>1, <5>2
      <4> QED BY <4>1
    <3>2. got[j][s] = 0
      BY <2>3 DEF OrderInv, Latest
    <3> QED BY <2>1, <3>1, <3>2
  <2>4. \A d \in Consumers : live'[d] /\ Handles(d)' =>
           live[d] /\ Handles(d) /\ raw'[d] = raw[d]
    BY <2>1 DEF Handles
  <2> QED BY <2>3, <2>4 DEF OrderInv, Latest, Sym
<1>7. ASSUME NEW c \in Consumers, HandlerStep(c) PROVE OrderInv'
  BY <1>5, <1>6, <1>7, GotEffect
<1> QED BY <1>1, <1>3, <1>4, <1>7, DeliverySteps

(* One process that runs no cleanup delivers the signals of a symbol to    *)
(* each subscriber in their order: also when a symbol's goroutine is       *)
(* cancelled in the middle of a job and its successor takes the next one,  *)
(* and also when a command to Redis is carried out twice.                  *)
THEOREM DeliveredInOrder ==
    ASSUME Cleaners = {}, OneWorker
    PROVE  DeliverySpec => OrderedDelivery
<1>1. DeliveryInit => OrderInv
  BY DEF DeliveryInit, OrderInv, Latest
<1>2. QueueInv /\ LoopInv /\ GotBefore /\ OrderInv /\ [DeliveryNext]_allVars => OrderInv'
  BY NextLatest
<1>3. QueueInv /\ LoopInv /\ OrderInv /\ [DeliveryNext]_allVars => [InOrder]_allVars
  <2> SUFFICES ASSUME QueueInv, LoopInv, OrderInv, [DeliveryNext]_allVars PROVE InOrder
    OBVIOUS
  <2>1. ASSUME NEW c \in Consumers, Send(c), live[c], Receive(raw[c].job, sub[c]),
               NEW x \in Symbols, NEW m \in 1 .. MaxJobs, NEW n \in 1 .. MaxJobs, NEW s \in Subs,
               m < n, got[<<x, n>>][s] > 0
        PROVE  got'[<<x, m>>][s] = got[<<x, m>>][s]
    <3>1. PICK i \in Jobs, k \in Jobs : /\ i = <<x, m>> /\ i[1] = x /\ i[2] = m
                                        /\ k = <<x, n>> /\ k[1] = x /\ k[2] = n
      <4> DEFINE i == <<x, m>>
                 k == <<x, n>>
      <4>1. i \in Jobs /\ k \in Jobs
        BY DEF Jobs
      <4> QED BY <4>1
    <3>2. /\ Handles(c)
          /\ \A j \in Jobs, t \in Subs : j # raw[c].job => got'[j][t] = got[j][t]
      BY <2>1, Sender
    <3>3. raw[c].job[1] = Sym(c)
      BY <3>2, HandledJob
    <3>4. i # raw[c].job
      BY <2>1, <3>1, <3>2, <3>3 DEF OrderInv, Latest
    <3> QED BY <3>1, <3>2, <3>4
  <2>2. CASE UNCHANGED got
    BY <2>2 DEF InOrder
  <2> QED BY <2>1, <2>2, GotEffect DEF InOrder
<1> QED BY <1>1, <1>2, <1>3, ComposedInvariant, GotBeforeInvariant, PTL
        DEF DeliverySpec, OrderedDelivery
=============================================================================
