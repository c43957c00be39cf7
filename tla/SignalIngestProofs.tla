------------------------- MODULE SignalIngestProofs -------------------------
(***************************************************************************)
(* What POST /signal publishes is stored, and what it calls a duplicate    *)
(* has an original: theorems about SignalIngest for any number of          *)
(* requests, symbols, keys and faults.                                     *)
(***************************************************************************)
EXTENDS SignalIngest, SequenceTheorems, FiniteSetTheorems, TLAPS

-----------------------------------------------------------------------------
(* The inductive invariant.                                                *)

(* A request that claimed its key has stored its signal, is about to, or   *)
(* was cut short.                                                          *)
Claimed(q) ==
    \/ Stored(q) \/ stage[q] = "insert" \/ q \notin unhurt
    \/ (q \in Over /\ reply[q] = "none")

(* What the place of a request in Receive says of its signal.              *)
Along(r) ==
    /\ stage[r] # "over" => reply[r] = "none"
    /\ stage[r] \in {"absent", "verify", "dedup"} => ~Stored(r) /\ r \in unhurt
    /\ stage[r] \in {"latest", "enqueue"} => Stored(r)

KeysClaimed == \A k \in dedup : \E q \in Requests : key[q] = k /\ Claimed(q)

Inv ==
    /\ TypeOK
    /\ \A r \in Requests : Along(r)
    /\ PublishedIsStored
    /\ KeysClaimed
    /\ DuplicateHasOriginal

-----------------------------------------------------------------------------
LEMMA AppendElements ==
    ASSUME NEW S, NEW s \in Seq(S), NEW e \in S
    PROVE  /\ Append(s, e) \in Seq(S)
           /\ Len(s) \in Nat /\ DOMAIN s = 1 .. Len(s) /\ DOMAIN Append(s, e) = 1 .. Len(s) + 1
           /\ \A i \in 1 .. Len(s) + 1 :
                 Append(s, e)[i] = IF i = Len(s) + 1 THEN e ELSE s[i]
<1>1. Append(s, e) \in Seq(S) /\ Len(Append(s, e)) = Len(s) + 1
  BY AppendProperties
<1>2. \A i \in 1 .. Len(s) + 1 : Append(s, e)[i] = IF i = Len(s) + 1 THEN e ELSE s[i]
  BY AppendProperties
<1>3. Len(s) \in Nat /\ DOMAIN s = 1 .. Len(s)
  BY LenProperties
<1>4. DOMAIN Append(s, e) = 1 .. Len(Append(s, e))
  BY <1>1, LenProperties
<1> QED BY <1>1, <1>2, <1>3, <1>4

LEMMA AppendRange ==
    ASSUME NEW S, NEW s \in Seq(S), NEW e \in S
    PROVE  Append(s, e) \in Seq(S) /\ Range(Append(s, e)) = Range(s) \cup {e}
BY AppendElements DEF Range

LEMMA TwiceElements ==
    ASSUME NEW S, NEW s \in Seq(S), NEW e \in S
    PROVE  /\ s \o <<e, e>> \in Seq(S) /\ DOMAIN (s \o <<e, e>>) = 1 .. Len(s) + 2
           /\ \A i \in 1 .. Len(s) + 2 :
                 (s \o <<e, e>>)[i] = IF i <= Len(s) THEN s[i] ELSE e
<1>1. <<e, e>> \in Seq(S) /\ Len(<<e, e>>) = 2 /\ <<e, e>>[1] = e /\ <<e, e>>[2] = e
  OBVIOUS
<1>2. s \o <<e, e>> \in Seq(S) /\ Len(s \o <<e, e>>) = Len(s) + 2
  BY <1>1, ConcatProperties
<1>3. \A i \in 1 .. Len(s) + 2 :
         (s \o <<e, e>>)[i] = IF i <= Len(s) THEN s[i] ELSE <<e, e>>[i - Len(s)]
  BY <1>1, ConcatProperties
<1>4. \A i \in 1 .. Len(s) + 2 : (s \o <<e, e>>)[i] = IF i <= Len(s) THEN s[i] ELSE e
  BY <1>1, <1>3, LenProperties
<1> QED BY <1>2, <1>4, LenProperties

LEMMA TwiceRange ==
    ASSUME NEW S, NEW s \in Seq(S), NEW e \in S
    PROVE  s \o <<e, e>> \in Seq(S) /\ Range(s \o <<e, e>>) = Range(s) \cup {e}
<1> DEFINE u == s \o <<e, e>>
<1>1. /\ u \in Seq(S) /\ DOMAIN u = 1 .. Len(s) + 2
      /\ \A i \in 1 .. Len(s) + 2 : u[i] = IF i <= Len(s) THEN s[i] ELSE e
  BY TwiceElements
<1>2. Len(s) \in Nat /\ DOMAIN s = 1 .. Len(s)
  BY LenProperties
<1> HIDE DEF u
<1>3. Range(u) \subseteq Range(s) \cup {e}
  BY <1>1, <1>2 DEF Range
<1>4. \A i \in DOMAIN s : i \in DOMAIN u /\ u[i] = s[i]
  BY <1>1, <1>2
<1>5. Len(s) + 2 \in DOMAIN u /\ u[Len(s) + 2] = e
  BY <1>1, <1>2
<1>6. Range(s) \cup {e} \subseteq Range(u)
  BY <1>4, <1>5 DEF Range
<1>7. Range(u) = Range(s) \cup {e} /\ u \in Seq(S)
  BY <1>1, <1>3, <1>6
<1> QED BY <1>7 DEF u

(* A step that takes back no claim and calls nothing a duplicate keeps     *)
(* what is said of claims and originals.                                   *)
LEMMA ClaimsStay ==
    ASSUME Inv, UNCHANGED key, dedup' \subseteq dedup, unhurt' \subseteq unhurt,
           \A q \in Requests : Claimed(q) => Claimed(q)',
           \A q \in Requests : reply'[q] = "duplicate" => reply[q] = "duplicate"
    PROVE  KeysClaimed' /\ DuplicateHasOriginal'
<1>1. KeysClaimed'
  BY DEF Inv, KeysClaimed
<1>2. ASSUME NEW r \in unhurt', reply'[r] = "duplicate"
      PROVE  \E q \in Requests : Original(q, r)'
  <2>1. r \in unhurt /\ r \in Requests /\ reply[r] = "duplicate"
    BY <1>2 DEF Inv, TypeOK
  <2>2. PICK q \in Requests : Original(q, r)
    BY <2>1 DEF Inv, DuplicateHasOriginal
  <2>3. Claimed(q)'
    BY <2>2 DEF Original, Claimed
  <2> QED BY <2>2, <2>3 DEF Original, Claimed
<1> QED BY <1>1, <1>2 DEF DuplicateHasOriginal

(* A call for request r fails or works.                                    *)
LEMMA CallTyped ==
    ASSUME Inv, IngestAssumption, NEW r, CallFails(r) \/ CallWorks(r)
    PROVE  faults' \in 0 .. MaxFaults /\ unhurt' \subseteq unhurt
BY DEF Inv, TypeOK, IngestAssumption, CallFails, CallWorks, Fault

(* A request moves on, with or without an answer.                          *)
Stages == {"absent", "verify", "dedup", "insert", "latest", "enqueue", "over"}
Replies == {"none", "rejected", "duplicate", "error", "accepted"}
Moves(r, s, a) ==
    stage' = [stage EXCEPT ![r] = s] /\ (UNCHANGED reply \/ reply' = [reply EXCEPT ![r] = a])

LEMMA MovesTyped ==
    ASSUME Inv, NEW r \in Requests, NEW s \in Stages, NEW a \in Replies, Moves(r, s, a)
    PROVE  stage' \in [Requests -> Stages] /\ reply' \in [Requests -> Replies]
<1>1. stage \in [Requests -> Stages] /\ reply \in [Requests -> Replies]
  BY DEF Inv, TypeOK, Stages, Replies
<1> QED BY <1>1 DEF Moves

LEMMA TypeKept ==
    ASSUME Inv, stage' \in [Requests -> Stages], reply' \in [Requests -> Replies],
           UNCHANGED <<symbol, key, hungUp, expired>>, past' \in [Requests -> SUBSET Requests],
           dedup' \subseteq Keys, rows' \in Seq(Requests),
           latest' \in [Symbols -> Requests \cup {None}],
           queue' \in [Symbols -> Seq(Requests)],
           unhurt' \subseteq unhurt, faults' \in 0 .. MaxFaults
    PROVE  TypeOK'
BY DEF Inv, TypeOK, Stages, Replies

-----------------------------------------------------------------------------
(* One step per action.                                                    *)

LEMMA ArriveStep ==
    ASSUME Inv, NEW r \in Requests, Arrive(r)
    PROVE  Inv'
<1> USE DEF Arrive, Goto, data
<1>1. TypeOK'
  <2>1. Moves(r, "verify", "none")
    BY DEF Moves
  <2>2. stage' \in [Requests -> Stages] /\ reply' \in [Requests -> Replies]
    BY <2>1, MovesTyped DEF Stages, Replies
  <2>3. past' \in [Requests -> SUBSET Requests]
    BY DEF Inv, TypeOK, Over
  <2> QED BY <2>2, <2>3, TypeKept DEF Inv, TypeOK
<1>2. ASSUME NEW q \in Requests PROVE Along(q)'
  BY DEF Inv, TypeOK, Along, Stored
<1>3. PublishedIsStored'
  BY DEF Inv, PublishedIsStored, Stored
<1>4. ASSUME NEW q \in Requests, Claimed(q) PROVE Claimed(q)'
  BY <1>4 DEF Inv, TypeOK, Along, Claimed, Stored, Over
<1>5. KeysClaimed' /\ DuplicateHasOriginal'
  BY <1>4, ClaimsStay
<1> QED BY <1>1, <1>2, <1>3, <1>5 DEF Inv

LEMMA VerifyStep ==
    ASSUME Inv, NEW r \in Requests, Verify(r)
    PROVE  Inv'
<1> USE DEF Verify, Goto, Answer, data
<1>1. TypeOK'
  <2>1. Moves(r, "dedup", "rejected") \/ Moves(r, "over", "rejected")
    BY DEF Moves
  <2>2. stage' \in [Requests -> Stages] /\ reply' \in [Requests -> Replies]
    BY <2>1, MovesTyped DEF Stages, Replies
  <2> QED BY <2>2, TypeKept DEF Inv, TypeOK
<1>2. ASSUME NEW q \in Requests PROVE Along(q)'
  BY DEF Inv, TypeOK, Along, Stored
<1>3. PublishedIsStored'
  BY DEF Inv, TypeOK, PublishedIsStored, Stored
<1>4. ASSUME NEW q \in Requests, Claimed(q) PROVE Claimed(q)'
  BY <1>4 DEF Inv, TypeOK, Along, Claimed, Stored, Over
<1>5. \A q \in Requests : reply'[q] = "duplicate" => reply[q] = "duplicate"
  BY DEF Inv, TypeOK
<1>6. KeysClaimed' /\ DuplicateHasOriginal'
  BY <1>4, <1>5, ClaimsStay
<1> QED BY <1>1, <1>2, <1>3, <1>6 DEF Inv

(* The only step that claims a key, and the only one that says duplicate.  *)
LEMMA ClaimKeyStep ==
    ASSUME Inv, IngestAssumption, NEW r \in Requests, ClaimKey(r)
    PROVE  Inv'
<1>1. /\ stage[r] = "dedup" /\ reply[r] = "none" /\ r \in unhurt /\ ~Stored(r)
      /\ UNCHANGED <<symbol, key, hungUp, rows, latest, queue, past, expired>>
      /\ \/ stage' = [stage EXCEPT ![r] = "insert"] /\ UNCHANGED reply
         \/ stage' = [stage EXCEPT ![r] = "over"] /\ reply' = [reply EXCEPT ![r] = "duplicate"]
      /\ dedup' \in {dedup, dedup \cup {key[r]}}
  BY DEF Inv, Along, ClaimKey, Goto, Answer
<1>2. faults' \in 0 .. MaxFaults /\ unhurt' \subseteq unhurt /\ unhurt' \in {unhurt, unhurt \ {r}}
  BY CallTyped DEF ClaimKey, CallFails, CallWorks
<1>3. TypeOK'
  <2>1. Moves(r, "insert", "duplicate") \/ Moves(r, "over", "duplicate")
    BY <1>1 DEF Moves
  <2>2. stage' \in [Requests -> Stages] /\ reply' \in [Requests -> Replies]
    BY <2>1, MovesTyped DEF Stages, Replies
  <2>3. dedup' \subseteq Keys
    BY <1>1 DEF Inv, TypeOK
  <2> QED BY <1>1, <1>2, <2>2, <2>3, TypeKept DEF Inv, TypeOK
<1>4. ASSUME NEW q \in Requests PROVE Along(q)'
  BY <1>1, <1>2 DEF Inv, TypeOK, Along, Stored
<1>5. PublishedIsStored'
  BY <1>1 DEF Inv, TypeOK, PublishedIsStored, Stored
<1>6. ASSUME NEW q \in Requests, Claimed(q) PROVE Claimed(q)'
  <2>1. q # r
    BY <1>1, <1>6 DEF Claimed, Over
  <2> QED BY <1>1, <1>2, <1>6, <2>1 DEF Inv, TypeOK, Claimed, Stored, Over
<1>7. ~Claimed(r)
  BY <1>1 DEF Claimed, Over
<1>8. key[r] \in dedup' \ dedup => Claimed(r)'
  BY <1>1 DEF ClaimKey, CallWorks, CallFails, Goto, Answer, Claimed, Inv, TypeOK
<1>9. KeysClaimed'
  BY <1>1, <1>6, <1>8 DEF Inv, KeysClaimed
<1>10. ASSUME NEW p \in unhurt', reply'[p] = "duplicate"
       PROVE  \E q \in Requests : Original(q, p)'
  <2>1. p \in unhurt /\ p \in Requests
    BY <1>2, <1>10 DEF Inv, TypeOK
  <2>2. PICK q \in Requests : q # p /\ key[q] = key[p] /\ Claimed(q)
    <3>1. CASE p = r
      <4>1. key[r] \in dedup
        BY <1>1, <1>10, <3>1 DEF ClaimKey, CallFails, CallWorks, Goto, Answer
      <4> QED BY <1>7, <3>1, <4>1 DEF Inv, KeysClaimed
    <3>2. CASE p # r
      <4>1. reply[p] = "duplicate"
        BY <1>1, <1>10, <2>1, <3>2 DEF Inv, TypeOK
      <4> QED BY <2>1, <4>1 DEF Inv, DuplicateHasOriginal, Original, Claimed
    <3> QED BY <3>1, <3>2
  <2>3. Claimed(q)'
    BY <1>6, <2>2
  <2> QED BY <1>1, <2>2, <2>3 DEF Original, Claimed
<1> QED BY <1>3, <1>4, <1>5, <1>9, <1>10 DEF Inv, DuplicateHasOriginal

LEMMA InsertRowStep ==
    ASSUME Inv, IngestAssumption, NEW r \in Requests, InsertRow(r)
    PROVE  Inv'
<1>1. /\ stage[r] = "insert" /\ reply[r] = "none"
      /\ UNCHANGED <<symbol, key, hungUp, dedup, latest, queue, past, expired>>
      /\ rows' \in {rows, Append(rows, r)}
  BY DEF Inv, Along, InsertRow
<1>2. faults' \in 0 .. MaxFaults /\ unhurt' \subseteq unhurt /\ unhurt' \in {unhurt, unhurt \ {r}}
  BY CallTyped DEF InsertRow, CallFails, CallWorks
<1>3. /\ rows' \in Seq(Requests)
      /\ Range(rows') \in {Range(rows), Range(rows) \cup {r}}
      /\ rows' = Append(rows, r) => r \in Range(rows')
  <2>1. rows \in Seq(Requests)
    BY DEF Inv, TypeOK
  <2>2. /\ Append(rows, r) \in Seq(Requests)
        /\ Range(Append(rows, r)) = Range(rows) \cup {r}
    BY <2>1, AppendRange
  <2>3. CASE rows' = rows /\ rows' # Append(rows, r)
    BY <2>1, <2>3
  <2>4. CASE rows' = Append(rows, r)
    BY <2>2, <2>4
  <2> QED BY <1>1, <2>3, <2>4
<1>4. \/ /\ stage' = [stage EXCEPT ![r] = "latest"] /\ UNCHANGED reply
         /\ r \in Range(rows')
      \/ /\ stage' = [stage EXCEPT ![r] = "over"] /\ reply' = [reply EXCEPT ![r] = "error"]
         /\ r \notin unhurt'
  BY <1>3 DEF InsertRow, CallFails, Goto, Answer
<1>5. TypeOK'
  <2>1. Moves(r, "latest", "error") \/ Moves(r, "over", "error")
    BY <1>4 DEF Moves
  <2>2. stage' \in [Requests -> Stages] /\ reply' \in [Requests -> Replies]
    BY <2>1, MovesTyped DEF Stages, Replies
  <2> QED BY <1>1, <1>2, <1>3, <2>2, TypeKept DEF Inv, TypeOK
<1>6. ASSUME NEW q \in Requests PROVE Along(q)'
  BY <1>1, <1>2, <1>3, <1>4 DEF Inv, TypeOK, Along, Stored
<1>7. PublishedIsStored'
  BY <1>1, <1>3, <1>4 DEF Inv, TypeOK, PublishedIsStored, Stored
<1>8. ASSUME NEW q \in Requests, Claimed(q) PROVE Claimed(q)'
  <2>1. CASE q = r
    BY <1>1, <1>2, <1>3, <1>4, <1>8, <2>1 DEF Inv, TypeOK, Claimed, Stored, Over
  <2>2. CASE q # r
    <3>1. stage'[q] = stage[q] /\ reply'[q] = reply[q] /\ (q \in unhurt' <=> q \in unhurt)
      BY <1>2, <1>3, <1>4, <2>2 DEF Inv, TypeOK
    <3> QED BY <1>1, <1>2, <1>3, <1>8, <3>1 DEF Claimed, Stored, Over
  <2> QED BY <2>1, <2>2
<1>9. \A q \in Requests : reply'[q] = "duplicate" => reply[q] = "duplicate"
  BY <1>4 DEF Inv, TypeOK
<1>10. KeysClaimed' /\ DuplicateHasOriginal'
  BY <1>1, <1>2, <1>8, <1>9, ClaimsStay
<1> QED BY <1>5, <1>6, <1>7, <1>10 DEF Inv

LEMMA SetLatestStep ==
    ASSUME Inv, IngestAssumption, NEW r \in Requests, SetLatest(r)
    PROVE  Inv'
<1>1. /\ stage[r] = "latest" /\ Stored(r)
      /\ stage' = [stage EXCEPT ![r] = "enqueue"] /\ UNCHANGED reply
      /\ UNCHANGED <<symbol, key, hungUp, dedup, rows, queue, past, expired>>
      /\ latest' \in {latest, [latest EXCEPT ![symbol[r]] = r]}
  BY DEF Inv, Along, SetLatest, Goto
<1>2. faults' \in 0 .. MaxFaults /\ unhurt' \subseteq unhurt /\ unhurt' \in {unhurt, unhurt \ {r}}
  BY CallTyped DEF SetLatest, CallFails, CallWorks
<1>3. TypeOK'
  <2>1. Moves(r, "enqueue", "none")
    BY <1>1 DEF Moves
  <2>2. stage' \in [Requests -> Stages] /\ reply' \in [Requests -> Replies]
    BY <2>1, MovesTyped DEF Stages, Replies
  <2>3. latest' \in [Symbols -> Requests \cup {None}]
    BY <1>1 DEF Inv, TypeOK
  <2> QED BY <1>1, <1>2, <2>2, <2>3, TypeKept DEF Inv, TypeOK
<1>4. ASSUME NEW q \in Requests PROVE Along(q)'
  BY <1>1, <1>2 DEF Inv, TypeOK, Along, Stored
<1>5. PublishedIsStored'
  <2>1. symbol[r] \in Symbols /\ latest \in [Symbols -> Requests \cup {None}]
    BY DEF Inv, TypeOK
  <2>2. ASSUME NEW s \in Symbols, latest'[s] # None
        PROVE  Stored(latest'[s]) /\ symbol[latest'[s]] = s
    <3>1. latest'[s] = latest[s] \/ (s = symbol[r] /\ latest'[s] = r)
      BY <1>1, <2>1
    <3> QED BY <1>1, <2>2, <3>1 DEF Inv, PublishedIsStored
  <2> QED BY <1>1, <2>2 DEF Inv, PublishedIsStored, Stored
<1>6. ASSUME NEW q \in Requests, Claimed(q) PROVE Claimed(q)'
  BY <1>1, <1>2, <1>6 DEF Inv, TypeOK, Claimed, Stored, Over
<1>7. KeysClaimed' /\ DuplicateHasOriginal'
  BY <1>1, <1>2, <1>6, ClaimsStay
<1> QED BY <1>3, <1>4, <1>5, <1>7 DEF Inv

LEMMA EnqueueJobStep ==
    ASSUME Inv, IngestAssumption, NEW r \in Requests, EnqueueJob(r)
    PROVE  Inv'
<1> DEFINE s == symbol[r]
<1>1. /\ stage[r] = "enqueue" /\ reply[r] = "none" /\ Stored(r)
      /\ stage' = [stage EXCEPT ![r] = "over"]
      /\ reply' = [reply EXCEPT ![r] = "accepted"]
      /\ UNCHANGED <<symbol, key, hungUp, dedup, rows, latest, past, expired>>
      /\ \/ UNCHANGED queue
         \/ queue' = [queue EXCEPT ![s] = Append(queue[s], r)]
         \/ queue' = [queue EXCEPT ![s] = queue[s] \o <<r, r>>]
  BY DEF Inv, Along, EnqueueJob, Answer
<1>2. /\ faults' \in 0 .. MaxFaults /\ unhurt' \subseteq unhurt
      /\ unhurt' \in {unhurt, unhurt \ {r}}
  <2>1. CASE CallWorks(r) \/ CallFails(r)
    BY <2>1, CallTyped DEF CallFails, CallWorks
  <2>2. CASE Fault /\ UNCHANGED unhurt
    BY <2>2 DEF Fault, Inv, TypeOK, IngestAssumption
  <2> QED BY <2>1, <2>2 DEF EnqueueJob
<1>3. s \in Symbols /\ queue[s] \in Seq(Requests)
  BY DEF Inv, TypeOK
<1>4. /\ queue' \in [Symbols -> Seq(Requests)]
      /\ \A t \in Symbols : Range(queue'[t]) \subseteq Range(queue[t]) \cup {r}
      /\ \A t \in Symbols : t # s => Range(queue'[t]) = Range(queue[t])
  <2> HIDE DEF s
  <2>1. /\ Append(queue[s], r) \in Seq(Requests)
        /\ Range(Append(queue[s], r)) = Range(queue[s]) \cup {r}
    BY <1>3, AppendRange
  <2>2. /\ queue[s] \o <<r, r>> \in Seq(Requests)
        /\ Range(queue[s] \o <<r, r>>) = Range(queue[s]) \cup {r}
    BY <1>3, TwiceRange
  <2>3. queue \in [Symbols -> Seq(Requests)]
    BY DEF Inv, TypeOK
  <2>4. CASE UNCHANGED queue
    BY <2>3, <2>4
  <2>5. CASE queue' = [queue EXCEPT ![s] = Append(queue[s], r)]
    BY <2>1, <2>3, <2>5
  <2>6. CASE queue' = [queue EXCEPT ![s] = queue[s] \o <<r, r>>]
    BY <2>2, <2>3, <2>6
  <2> QED BY <1>1, <2>4, <2>5, <2>6
<1>5. TypeOK'
  <2>1. Moves(r, "over", "accepted")
    BY <1>1 DEF Moves
  <2>2. stage' \in [Requests -> Stages] /\ reply' \in [Requests -> Replies]
    BY <2>1, MovesTyped DEF Stages, Replies
  <2> QED BY <1>1, <1>2, <1>4, <2>2, TypeKept DEF Inv, TypeOK
<1>6. ASSUME NEW q \in Requests PROVE Along(q)'
  BY <1>1, <1>2 DEF Inv, TypeOK, Along, Stored
<1>7. PublishedIsStored'
  <2>1. \A t \in Symbols : \A q \in Range(queue'[t]) : Stored(q) /\ symbol[q] = t
    BY <1>1, <1>4 DEF Inv, PublishedIsStored
  <2> QED BY <1>1, <2>1 DEF Inv, TypeOK, PublishedIsStored, Stored
<1>8. ASSUME NEW q \in Requests, Claimed(q) PROVE Claimed(q)'
  BY <1>1, <1>2, <1>8 DEF Inv, TypeOK, Claimed, Stored, Over
<1>9. \A q \in Requests : reply'[q] = "duplicate" => reply[q] = "duplicate"
  BY <1>1 DEF Inv, TypeOK
<1>10. KeysClaimed' /\ DuplicateHasOriginal'
  BY <1>1, <1>2, <1>8, <1>9, ClaimsStay
<1> QED BY <1>5, <1>6, <1>7, <1>10 DEF Inv

LEMMA ExpireStep ==
    ASSUME Inv, NEW k \in Keys, Expire(k)
    PROVE  Inv'
<1> USE DEF Expire, request
<1>1. TypeOK'
  BY DEF Inv, TypeOK
<1>2. ASSUME NEW q \in Requests PROVE Along(q)'
  BY DEF Inv, Along, Stored
<1>3. PublishedIsStored'
  BY DEF Inv, PublishedIsStored, Stored
<1>4. \A q \in Requests : Claimed(q) => Claimed(q)'
  BY DEF Claimed, Stored, Over
<1>5. KeysClaimed' /\ DuplicateHasOriginal'
  BY <1>4, ClaimsStay
<1> QED BY <1>1, <1>2, <1>3, <1>5 DEF Inv

LEMMA HangUpStep ==
    ASSUME Inv, IngestAssumption, NEW r \in Requests, HangUp(r)
    PROVE  Inv'
<1> USE DEF HangUp, Fault, data
<1>1. TypeOK'
  BY DEF Inv, TypeOK, IngestAssumption
<1>2. ASSUME NEW q \in Requests PROVE Along(q)'
  BY DEF Inv, Along, Stored
<1>3. PublishedIsStored'
  BY DEF Inv, PublishedIsStored, Stored
<1>4. \A q \in Requests : Claimed(q) => Claimed(q)'
  BY DEF Claimed, Stored, Over
<1>5. KeysClaimed' /\ DuplicateHasOriginal'
  BY <1>4, ClaimsStay
<1> QED BY <1>1, <1>2, <1>3, <1>5 DEF Inv

(* A crash leaves every request that was under way without an answer.      *)
LEMMA CrashStep ==
    ASSUME Inv, IngestAssumption, Crash
    PROVE  Inv'
<1> USE DEF Crash, Fault, data
<1>1. TypeOK'
  BY DEF Inv, TypeOK, IngestAssumption
<1>2. \A q \in Requests : stage'[q] = IF InReceive(q) THEN "over" ELSE stage[q]
  OBVIOUS
<1>3. ASSUME NEW q \in Requests PROVE Along(q)'
  BY <1>2 DEF Inv, TypeOK, Along, Stored, InReceive
<1>4. PublishedIsStored'
  BY DEF Inv, PublishedIsStored, Stored
<1>5. ASSUME NEW q \in Requests, Claimed(q) PROVE Claimed(q)'
  BY <1>2, <1>5 DEF Inv, Along, Claimed, Stored, Over, InReceive
<1>6. KeysClaimed' /\ DuplicateHasOriginal'
  BY <1>5, ClaimsStay
<1> QED BY <1>1, <1>3, <1>4, <1>6 DEF Inv

-----------------------------------------------------------------------------
(* The theorems.                                                           *)

(* Receive keeps the invariant in every interleaving of its requests, and  *)
(* through failed calls, hung up clients and crashes.                      *)
THEOREM IngestInvariant == Spec => []Inv
<1> USE IngestAssumption
<1>1. Init => Inv
  <2> SUFFICES ASSUME Init PROVE Inv
    OBVIOUS
  <2>1. Range(<<>>) = {} /\ <<>> \in Seq(Requests)
    BY DEF Range
  <2>2. TypeOK
    BY <2>1 DEF Init, TypeOK, IngestAssumption
  <2> QED BY <2>1, <2>2 DEF Init, Inv, Along, Stored, PublishedIsStored, KeysClaimed,
                            DuplicateHasOriginal
<1>2. Inv /\ [Next]_vars => Inv'
  <2> SUFFICES ASSUME Inv, [Next]_vars PROVE Inv'
    OBVIOUS
  <2>1. ASSUME NEW r \in Requests, Arrive(r) PROVE Inv'
    BY <2>1, ArriveStep
  <2>2. ASSUME NEW r \in Requests, Verify(r) PROVE Inv'
    BY <2>2, VerifyStep
  <2>3. ASSUME NEW r \in Requests, ClaimKey(r) PROVE Inv'
    BY <2>3, ClaimKeyStep
  <2>4. ASSUME NEW r \in Requests, InsertRow(r) PROVE Inv'
    BY <2>4, InsertRowStep
  <2>5. ASSUME NEW r \in Requests, SetLatest(r) PROVE Inv'
    BY <2>5, SetLatestStep
  <2>6. ASSUME NEW r \in Requests, EnqueueJob(r) PROVE Inv'
    BY <2>6, EnqueueJobStep
  <2>7. ASSUME NEW r \in Requests, HangUp(r) PROVE Inv'
    BY <2>7, HangUpStep
  <2>8. ASSUME NEW k \in Keys, Expire(k) PROVE Inv'
    BY <2>8, ExpireStep
  <2>9. CASE Crash
    BY <2>9, CrashStep
  <2>10. CASE UNCHANGED vars
    BY <2>10 DEF vars, request, data, Inv, TypeOK, Along, Stored, PublishedIsStored,
                 KeysClaimed, Claimed, DuplicateHasOriginal, Original, Over
  <2> QED BY <2>1, <2>2, <2>3, <2>4, <2>5, <2>6, <2>7, <2>8, <2>9, <2>10 DEF Next, Step
<1> QED BY <1>1, <1>2, PTL DEF Spec

(* Every variable stays in its type.                                       *)
THEOREM IngestTyped == Spec => []TypeOK
<1>1. Inv => TypeOK
  BY DEF Inv
<1> QED BY <1>1, IngestInvariant, PTL

(* The latest signal, every queued job and every accepted request have a   *)
(* row in Postgres.                                                        *)
THEOREM NothingPublishedUnstored == Spec => []PublishedIsStored
<1>1. Inv => PublishedIsStored
  BY DEF Inv
<1> QED BY <1>1, IngestInvariant, PTL

(* A request that is answered "duplicate", and for which no call failed,   *)
(* has an original that is stored, under way or cut short.                 *)
THEOREM DuplicatesAreExplained == Spec => []DuplicateHasOriginal
<1>1. Inv => DuplicateHasOriginal
  BY DEF Inv
<1> QED BY <1>1, IngestInvariant, PTL

-----------------------------------------------------------------------------
(* One row per life of a deduplication key.                                *)

RowsOf(k) == {i \in DOMAIN rows : key[rows[i]] = k}
Inserting(k) == {r \in Requests : stage[r] = "insert" /\ key[r] = k}
Lives(k) == IF k \in dedup THEN expired[k] + 1 ELSE expired[k]

(* Every row and every request that is about to insert one has a life of   *)
(* the key to itself.                                                      *)
LifeEach(k) ==
    /\ IsFiniteSet(Inserting(k))
    /\ Cardinality(RowsOf(k)) + Cardinality(Inserting(k)) <= Lives(k)
KeysSpent == \A k \in Keys : LifeEach(k)

LEMMA RowsCounted ==
    ASSUME TypeOK, NEW k
    PROVE  IsFiniteSet(RowsOf(k)) /\ Cardinality(RowsOf(k)) \in Nat
<1>1. RowsOf(k) \in SUBSET (1 .. Len(rows)) /\ Len(rows) \in Nat
  BY LenProperties DEF TypeOK, RowsOf
<1>2. IsFiniteSet(1 .. Len(rows))
  BY <1>1, FS_Interval
<1> QED BY <1>1, <1>2, FS_Subset, FS_CardinalityType

(* A new row counts for the key of its signal.                             *)
LEMMA RowAdded ==
    ASSUME TypeOK, NEW r \in Requests, rows' = Append(rows, r), UNCHANGED key, NEW k
    PROVE  /\ key[r] = k => Cardinality(RowsOf(k)') = Cardinality(RowsOf(k)) + 1
           /\ key[r] # k => RowsOf(k)' = RowsOf(k)
<1>1. /\ Len(rows) \in Nat /\ DOMAIN rows = 1 .. Len(rows)
      /\ DOMAIN rows' = 1 .. Len(rows) + 1
      /\ \A i \in 1 .. Len(rows) + 1 : rows'[i] = IF i = Len(rows) + 1 THEN r ELSE rows[i]
  <2>1. rows \in Seq(Requests)
    BY DEF TypeOK
  <2> QED BY <2>1, AppendElements
<1>2. CASE key[r] = k
  <2>1. RowsOf(k)' = RowsOf(k) \cup {Len(rows) + 1} /\ Len(rows) + 1 \notin RowsOf(k)
    BY <1>1, <1>2 DEF RowsOf
  <2> QED BY <1>2, <2>1, RowsCounted, FS_AddElement
<1>3. CASE key[r] # k
  BY <1>1, <1>3 DEF RowsOf
<1> QED BY <1>2, <1>3

(* A step that inserts no row, lets no request through and takes no life   *)
(* back.                                                                   *)
LEMMA LifeKept ==
    ASSUME TypeOK, NEW k \in Keys, LifeEach(k), RowsOf(k)' = RowsOf(k),
           Inserting(k)' \subseteq Inserting(k), Lives(k) <= Lives(k)', Lives(k)' \in Nat
    PROVE  LifeEach(k)'
<1>1. /\ IsFiniteSet(Inserting(k)')
      /\ Cardinality(Inserting(k)') <= Cardinality(Inserting(k))
  BY FS_Subset DEF LifeEach
<1>2. Cardinality(Inserting(k)') \in Nat /\ Cardinality(Inserting(k)) \in Nat
  BY <1>1, FS_CardinalityType DEF LifeEach
<1>3. Lives(k) \in Nat
  BY DEF Lives, TypeOK
<1> QED BY <1>1, <1>2, <1>3, RowsCounted DEF LifeEach

(* The claim of a key lets one request through.                            *)
LEMMA ClaimSpends ==
    ASSUME TypeOK, KeysSpent, NEW r \in Requests, ClaimKey(r)
    PROVE  KeysSpent'
<1>1. ASSUME NEW k \in Keys PROVE LifeEach(k)'
  <2>1. RowsOf(k)' = RowsOf(k) /\ UNCHANGED <<key, expired>> /\ dedup \subseteq dedup'
    BY DEF ClaimKey, RowsOf
  <2>2. Lives(k) \in Nat /\ Lives(k)' \in Nat /\ Lives(k) <= Lives(k)' /\ LifeEach(k)
    BY <2>1 DEF Lives, TypeOK, KeysSpent
  <2>3. CASE Goto(r, "insert") /\ key[r] \notin dedup /\ dedup' = dedup \cup {key[r]} /\ key[r] = k
    <3>1. Inserting(k)' = Inserting(k) \cup {r}
      BY <2>1, <2>3 DEF Inserting, Goto, TypeOK
    <3>2. /\ IsFiniteSet(Inserting(k)')
          /\ Cardinality(Inserting(k)') <= Cardinality(Inserting(k)) + 1
      <4>1. IsFiniteSet(Inserting(k)) /\ Cardinality(Inserting(k)) \in Nat
        BY <2>2, FS_CardinalityType DEF LifeEach
      <4> QED BY <3>1, <4>1, FS_AddElement
    <3>3. Cardinality(Inserting(k)) \in Nat /\ Cardinality(Inserting(k)') \in Nat
      BY <2>2, <3>2, FS_CardinalityType DEF LifeEach
    <3>4. Lives(k)' = Lives(k) + 1
      BY <2>1, <2>3 DEF Lives, TypeOK
    <3> QED BY <2>1, <2>2, <3>2, <3>3, <3>4, RowsCounted DEF LifeEach
  <2>4. CASE Goto(r, "insert") /\ key[r] # k
    <3>1. Inserting(k)' \subseteq Inserting(k)
      BY <2>1, <2>4 DEF Inserting, Goto, TypeOK
    <3> QED BY <2>1, <2>2, <3>1, LifeKept
  <2>5. CASE Answer(r, "duplicate")
    <3>1. Inserting(k)' \subseteq Inserting(k)
      BY <2>1, <2>5 DEF Inserting, Answer, TypeOK
    <3> QED BY <2>1, <2>2, <3>1, LifeKept
  <2> QED BY <2>3, <2>4, <2>5 DEF ClaimKey
<1> QED BY <1>1 DEF KeysSpent

(* A row takes the place of the request that inserts it.                   *)
LEMMA RowSpends ==
    ASSUME TypeOK, KeysSpent, NEW r \in Requests, InsertRow(r)
    PROVE  KeysSpent'
<1>1. ASSUME NEW k \in Keys PROVE LifeEach(k)'
  <2>1. UNCHANGED <<key, expired, dedup>> /\ stage[r] = "insert" /\ r \in Inserting(key[r])
    BY DEF InsertRow, Inserting
  <2>2. Lives(k) \in Nat /\ Lives(k)' = Lives(k) /\ LifeEach(k)
    BY <2>1 DEF Lives, TypeOK, KeysSpent
  <2>3. stage' = [stage EXCEPT ![r] = "latest"] \/ stage' = [stage EXCEPT ![r] = "over"]
    BY DEF InsertRow, Goto, Answer
  <2>4. Inserting(k)' = Inserting(k) \ {r}
    BY <2>1, <2>3 DEF Inserting, TypeOK
  <2>5. CASE key[r] = k /\ rows' = Append(rows, r)
    <3>1. Cardinality(RowsOf(k)') = Cardinality(RowsOf(k)) + 1
      BY <2>1, <2>5, RowAdded
    <3>2. /\ IsFiniteSet(Inserting(k)')
          /\ Cardinality(Inserting(k)') = Cardinality(Inserting(k)) - 1
      BY <2>1, <2>2, <2>4, <2>5, FS_RemoveElement DEF LifeEach
    <3>3. Cardinality(Inserting(k)) \in Nat /\ Cardinality(Inserting(k)') \in Nat
      BY <2>2, <3>2, FS_CardinalityType DEF LifeEach
    <3> QED BY <2>2, <3>1, <3>2, <3>3, RowsCounted DEF LifeEach
  <2>6. CASE key[r] # k /\ rows' = Append(rows, r)
    BY <2>1, <2>2, <2>4, <2>6, RowAdded, LifeKept
  <2>7. CASE UNCHANGED rows
    <3>1. RowsOf(k)' = RowsOf(k)
      BY <2>1, <2>7 DEF RowsOf
    <3> QED BY <2>2, <2>4, <3>1, LifeKept
  <2> QED BY <2>5, <2>6, <2>7 DEF InsertRow
<1> QED BY <1>1 DEF KeysSpent

(* Every step keeps the account.                                           *)
LEMMA NextSpent == ASSUME TypeOK, KeysSpent, [Next]_vars PROVE KeysSpent'
<1>1. ASSUME UNCHANGED <<key, rows, dedup, expired>>,
             \A r \in Requests : stage'[r] = "insert" => stage[r] = "insert"
      PROVE  KeysSpent'
  <2>1. ASSUME NEW k \in Keys PROVE LifeEach(k)'
    <3>1. RowsOf(k)' = RowsOf(k) /\ Inserting(k)' \subseteq Inserting(k)
      BY <1>1 DEF RowsOf, Inserting
    <3>2. Lives(k)' = Lives(k) /\ Lives(k) \in Nat
      BY <1>1 DEF Lives, TypeOK
    <3> QED BY <3>1, <3>2, LifeKept DEF KeysSpent
  <2> QED BY <2>1 DEF KeysSpent
<1>2. ASSUME NEW r \in Requests, Arrive(r) \/ Verify(r) \/ SetLatest(r) \/ EnqueueJob(r) \/ HangUp(r)
      PROVE  KeysSpent'
  <2>1. UNCHANGED <<key, rows, dedup, expired>>
    BY <1>2 DEF Arrive, Verify, SetLatest, EnqueueJob, HangUp, data
  <2>2. \/ UNCHANGED stage
        \/ \E s \in {"verify", "dedup", "enqueue", "over"} : stage' = [stage EXCEPT ![r] = s]
    BY <1>2 DEF Arrive, Verify, SetLatest, EnqueueJob, HangUp, Goto, Answer
  <2>3. \A q \in Requests : stage'[q] = "insert" => stage[q] = "insert"
    BY <2>2 DEF TypeOK
  <2> QED BY <1>1, <2>1, <2>3
<1>3. ASSUME NEW r \in Requests, ClaimKey(r) \/ InsertRow(r) PROVE KeysSpent'
  BY <1>3, ClaimSpends, RowSpends
<1>4. ASSUME NEW e \in Keys, Expire(e) PROVE KeysSpent'
  <2>1. ASSUME NEW k \in Keys PROVE LifeEach(k)'
    <3>1. RowsOf(k)' = RowsOf(k) /\ Inserting(k)' = Inserting(k)
      BY <1>4 DEF Expire, request, RowsOf, Inserting
    <3>2. Lives(k)' = Lives(k) /\ Lives(k) \in Nat
      BY <1>4 DEF Expire, Lives, TypeOK
    <3> QED BY <3>1, <3>2, LifeKept DEF KeysSpent
  <2> QED BY <2>1 DEF KeysSpent
<1>5. CASE Crash \/ UNCHANGED vars
  <2>1. UNCHANGED <<key, rows, dedup, expired>>
    BY <1>5 DEF Crash, vars, request, data
  <2>2. \A q \in Requests : stage'[q] = "insert" => stage[q] = "insert"
    BY <1>5 DEF Crash, InReceive, vars, request
  <2> QED BY <1>1, <2>1, <2>2
<1> QED BY <1>2, <1>3, <1>4, <1>5 DEF Next, Step

(* However many copies of a signal race, whatever fails and whichever      *)
(* request crashes, Receive stores at most one of them for each life of    *)
(* its deduplication key.                                                  *)
THEOREM StoredOncePerKey == Spec => []OneRowPerKey
<1>1. Init => KeysSpent
  <2> SUFFICES ASSUME Init, NEW k \in Keys PROVE LifeEach(k)
    BY DEF KeysSpent
  <2>1. Inserting(k) = {} /\ RowsOf(k) = {}
    BY DEF Init, Inserting, RowsOf
  <2>2. Lives(k) = 0
    BY DEF Init, Lives
  <2> QED BY <2>1, <2>2, FS_EmptySet DEF LifeEach
<1>2. TypeOK /\ KeysSpent /\ [Next]_vars => KeysSpent'
  BY NextSpent
<1>3. TypeOK /\ KeysSpent => OneRowPerKey
  <2> SUFFICES ASSUME TypeOK, KeysSpent, NEW k \in Keys
               PROVE  Cardinality(RowsOf(k)) <= 1 + expired[k]
    BY DEF OneRowPerKey, RowsOf
  <2>1. Cardinality(Inserting(k)) \in Nat
    BY FS_CardinalityType DEF KeysSpent, LifeEach
  <2>2. expired[k] \in Nat /\ Lives(k) <= 1 + expired[k] /\ Lives(k) \in Nat
    BY DEF TypeOK, Lives
  <2> QED BY <2>1, <2>2, RowsCounted DEF KeysSpent, LifeEach
<1> QED BY <1>1, <1>2, <1>3, IngestTyped, PTL DEF Spec

-----------------------------------------------------------------------------
(* Real-time order.                                                        *)

(* A request whose signal is the latest, or was until a later one came.    *)
Shown(r) == stage[r] = "enqueue" \/ reply[r] = "accepted"

(* What was over when a request arrived stays over, so it can neither be   *)
(* made the latest signal nor be pushed any more.                          *)
OrderInv ==
    /\ \A r \in Requests : past[r] \subseteq Over /\ r \notin past[r]
    /\ \A s \in Symbols : Range(queue[s]) \subseteq Over
    /\ \A r \in unhurt : Shown(r) =>
          latest[symbol[r]] # None /\ latest[symbol[r]] \notin past[r]
    /\ \A s \in Symbols : \A m, n \in DOMAIN queue[s] :
          m < n => queue[s][n] \notin past[queue[s][m]]

(* A step that shows and pushes nothing.                                   *)
LEMMA OrderKept ==
    ASSUME OrderInv, UNCHANGED <<past, queue, symbol, latest>>, unhurt' \subseteq unhurt,
           Over \subseteq Over', \A r \in unhurt' : Shown(r)' => Shown(r)
    PROVE  OrderInv'
BY DEF OrderInv

(* A request that goes on: what is over stays over.                        *)
LEMMA OverGrows ==
    ASSUME TypeOK, NEW r \in Requests, NEW s, stage' = [stage EXCEPT ![r] = s],
           stage[r] # "over"
    PROVE  /\ Over \subseteq Over'
           /\ s # "over" => Over' = Over
           /\ \A q \in Requests \ {r} : stage'[q] = stage[q]
           /\ stage'[r] = s
BY DEF TypeOK, Over

(* A request that arrives has seen the end of what is over.                *)
LEMMA ArriveOrder ==
    ASSUME Inv, OrderInv, NEW r \in Requests, Arrive(r)
    PROVE  OrderInv'
<1>1. TypeOK
  BY DEF Inv
<1>2. /\ stage[r] = "absent" /\ stage' = [stage EXCEPT ![r] = "verify"]
      /\ past' = [past EXCEPT ![r] = Over]
      /\ UNCHANGED <<reply, symbol, queue, latest, unhurt>>
  BY DEF Arrive, Goto, data
<1>3. /\ Over' = Over /\ r \notin Over
      /\ \A q \in Requests \ {r} : stage'[q] = stage[q] /\ past'[q] = past[q]
      /\ past'[r] = Over /\ stage'[r] = "verify" /\ reply[r] = "none"
  BY <1>1, <1>2, OverGrows DEF Over, TypeOK, Inv, Along
<1>4. ASSUME NEW q \in Requests PROVE past'[q] \subseteq Over' /\ q \notin past'[q]
  BY <1>3 DEF OrderInv
<1>5. ASSUME NEW s \in Symbols PROVE Range(queue'[s]) \subseteq Over'
  BY <1>2, <1>3 DEF OrderInv
<1>6. ASSUME NEW q \in unhurt', Shown(q)'
      PROVE  latest'[symbol'[q]] # None /\ latest'[symbol'[q]] \notin past'[q]
  <2>1. q \in Requests /\ q # r
    BY <1>1, <1>2, <1>3, <1>6 DEF Shown, TypeOK
  <2> QED BY <1>2, <1>3, <1>6, <2>1 DEF OrderInv, Shown
<1>7. ASSUME NEW s \in Symbols, NEW m \in DOMAIN queue'[s], NEW n \in DOMAIN queue'[s], m < n
      PROVE  queue'[s][n] \notin past'[queue'[s][m]]
  <2>1. queue[s][m] \in Over /\ queue[s][m] \in Requests
    BY <1>2, <1>7 DEF OrderInv, Range, Over
  <2>2. past'[queue[s][m]] = past[queue[s][m]]
    BY <1>3, <2>1
  <2> QED BY <1>2, <1>7, <2>2 DEF OrderInv
<1> QED BY <1>4, <1>5, <1>6, <1>7 DEF OrderInv

(* The latest signal is of a request that is not over.                     *)
LEMMA SetLatestOrder ==
    ASSUME Inv, OrderInv, NEW r \in Requests, SetLatest(r)
    PROVE  OrderInv'
<1>1. TypeOK
  BY DEF Inv
<1>2. /\ stage[r] = "latest" /\ stage' = [stage EXCEPT ![r] = "enqueue"]
      /\ UNCHANGED <<reply, symbol, queue, past>>
      /\ \/ latest' = [latest EXCEPT ![symbol[r]] = r] /\ unhurt' = unhurt
         \/ latest' = latest /\ unhurt' = unhurt \ {r}
  BY DEF SetLatest, Goto, CallWorks, CallFails
<1>3. /\ Over' = Over /\ r \notin Over /\ symbol[r] \in Symbols /\ r # None
      /\ \A q \in Requests \ {r} : stage'[q] = stage[q]
  BY <1>1, <1>2, OverGrows, IngestAssumption DEF Over, TypeOK
<1>4. ASSUME NEW q \in unhurt', Shown(q)'
      PROVE  latest'[symbol'[q]] # None /\ latest'[symbol'[q]] \notin past'[q]
  <2>1. q \in Requests /\ q \in unhurt /\ r \notin past[q]
    BY <1>1, <1>2, <1>3, <1>4 DEF TypeOK, OrderInv
  <2>2. latest \in [Symbols -> Requests \cup {None}] /\ symbol[q] \in Symbols
    BY <1>1, <2>1 DEF TypeOK
  <2>3. CASE latest' = [latest EXCEPT ![symbol[r]] = r] /\ symbol[q] = symbol[r]
    BY <1>2, <1>3, <2>1, <2>2, <2>3
  <2>4. CASE q # r /\ latest'[symbol[q]] = latest[symbol[q]]
    <3>1. Shown(q)
      BY <1>2, <1>3, <1>4, <2>1, <2>4 DEF Shown
    <3> QED BY <1>2, <2>1, <2>4, <3>1 DEF OrderInv
  <2> QED BY <1>2, <1>4, <2>2, <2>3, <2>4
<1> QED BY <1>2, <1>3, <1>4 DEF OrderInv

(* What is pushed behind the queue is of a request that is not over.       *)
LEMMA EnqueueOrder ==
    ASSUME Inv, OrderInv, NEW r \in Requests, EnqueueJob(r)
    PROVE  OrderInv'
<1>1. TypeOK
  BY DEF Inv
<1> DEFINE x == symbol[r]
           list == queue[x]
<1>2. /\ stage[r] = "enqueue" /\ stage' = [stage EXCEPT ![r] = "over"]
      /\ reply' = [reply EXCEPT ![r] = "accepted"]
      /\ UNCHANGED <<symbol, latest, past>> /\ unhurt' \subseteq unhurt
      /\ queue' \in {queue, [queue EXCEPT ![x] = Append(list, r)],
                     [queue EXCEPT ![x] = list \o <<r, r>>]}
  BY DEF EnqueueJob, Answer, CallWorks, CallFails
<1>3. /\ Over' = Over \cup {r} /\ r \notin Over /\ x \in Symbols /\ list \in Seq(Requests)
      /\ \A q \in Requests \ {r} : stage'[q] = stage[q] /\ reply'[q] = reply[q]
  BY <1>1, <1>2, OverGrows DEF Over, TypeOK
<1>4. ASSUME NEW q \in unhurt', Shown(q)' PROVE q \in unhurt /\ Shown(q)
  BY <1>1, <1>2, <1>3, <1>4 DEF Shown, TypeOK
<1>5. \A s \in Symbols : s # x => queue'[s] = queue[s]
  BY <1>1, <1>2 DEF TypeOK
<1>6. \/ queue'[x] = list
      \/ /\ queue'[x] = Append(list, r) \/ queue'[x] = list \o <<r, r>>
         /\ Range(queue'[x]) = Range(list) \cup {r}
  <2>1. /\ Range(Append(list, r)) = Range(list) \cup {r}
        /\ Range(list \o <<r, r>>) = Range(list) \cup {r}
    BY <1>3, AppendRange, TwiceRange
  <2>2. queue'[x] \in {list, Append(list, r), list \o <<r, r>>}
    BY <1>1, <1>2, <1>3 DEF TypeOK
  <2> QED BY <2>1, <2>2
<1>7. ASSUME NEW s \in Symbols PROVE Range(queue'[s]) \subseteq Over'
  <2>1. CASE s = x
    BY <1>3, <1>6, <2>1 DEF OrderInv
  <2>2. CASE s # x
    BY <1>3, <1>5, <2>2 DEF OrderInv
  <2> QED BY <2>1, <2>2
<1>8. ASSUME NEW n \in DOMAIN queue'[x]
      PROVE  n \in Nat /\ ((n \in DOMAIN list /\ queue'[x][n] = list[n])
                         \/ (queue'[x][n] = r /\ n > Len(list)))
  <2>1. Len(list) \in Nat /\ DOMAIN list = 1 .. Len(list)
    BY <1>3, LenProperties
  <2>2. CASE queue'[x] = list
    BY <1>8, <2>1, <2>2
  <2>3. CASE queue'[x] = Append(list, r)
    <3>1. DOMAIN Append(list, r) = 1 .. Len(list) + 1
      BY <1>3, AppendElements
    <3>2. \A i \in 1 .. Len(list) + 1 :
             Append(list, r)[i] = IF i = Len(list) + 1 THEN r ELSE list[i]
      BY <1>3, AppendElements
    <3> QED BY <1>8, <2>1, <2>3, <3>1, <3>2
  <2>4. CASE queue'[x] = list \o <<r, r>>
    <3>1. DOMAIN (list \o <<r, r>>) = 1 .. Len(list) + 2
      BY <1>3, TwiceElements
    <3>2. \A i \in 1 .. Len(list) + 2 :
             (list \o <<r, r>>)[i] = IF i <= Len(list) THEN list[i] ELSE r
      BY <1>3, TwiceElements
    <3> QED BY <1>8, <2>1, <2>4, <3>1, <3>2
  <2> QED BY <1>6, <2>2, <2>3, <2>4
<1>9. ASSUME NEW s \in Symbols, NEW m \in DOMAIN queue'[s], NEW n \in DOMAIN queue'[s], m < n
      PROVE  queue'[s][n] \notin past'[queue'[s][m]]
  <2>1. CASE s # x
    BY <1>2, <1>5, <1>9, <2>1 DEF OrderInv
  <2>2. CASE s = x
    <3>1. Len(list) \in Nat /\ DOMAIN list = 1 .. Len(list)
      BY <1>3, LenProperties
    <3>2. queue'[x][m] \in Requests
      BY <1>3, <1>8, <1>9, <2>2, <3>1
    <3>3. CASE queue'[x][n] = r
      BY <1>2, <1>3, <2>2, <3>2, <3>3 DEF OrderInv
    <3>4. CASE n \in DOMAIN list /\ queue'[x][n] = list[n]
      <4>1. m \in DOMAIN list /\ queue'[x][m] = list[m]
        <5>1. m \in DOMAIN queue'[x] /\ m < n /\ n <= Len(list)
          BY <1>9, <2>2, <3>1, <3>4
        <5>2. m \in Nat /\ ~(m > Len(list)) /\ n \in Nat
          BY <1>8, <3>1, <3>4, <5>1
        <5> QED BY <1>8, <5>1, <5>2
      <4> QED BY <1>2, <1>3, <1>9, <2>2, <3>4, <4>1 DEF OrderInv
    <3> QED BY <1>8, <1>9, <2>2, <3>3, <3>4
  <2> QED BY <2>1, <2>2
<1> QED BY <1>2, <1>3, <1>4, <1>7, <1>9 DEF OrderInv

(* Every step keeps the order.                                             *)
LEMMA NextOrder == ASSUME Inv, OrderInv, [Next]_vars PROVE OrderInv'
<1>1. TypeOK
  BY DEF Inv
<1>2. ASSUME NEW r \in Requests, Verify(r) \/ ClaimKey(r) \/ InsertRow(r) PROVE OrderInv'
  <2>1. PICK s \in {"dedup", "insert", "latest", "over"},
             a \in {"rejected", "duplicate", "error"} :
           /\ stage' = [stage EXCEPT ![r] = s]
           /\ UNCHANGED reply \/ reply' = [reply EXCEPT ![r] = a]
    BY <1>2 DEF Verify, ClaimKey, InsertRow, Goto, Answer
  <2>2. /\ UNCHANGED <<past, queue, symbol, latest>> /\ unhurt' \subseteq unhurt
        /\ stage[r] # "over"
    BY <1>2 DEF Verify, ClaimKey, InsertRow, data, CallWorks, CallFails
  <2>3. \A q \in Requests : Shown(q)' => Shown(q)
    BY <1>1, <2>1 DEF Shown, TypeOK
  <2>4. Over \subseteq Over'
    BY <1>1, <2>1, <2>2, OverGrows
  <2> QED BY <1>1, <2>2, <2>3, <2>4, OrderKept DEF TypeOK
<1>3. ASSUME \/ \E r \in Requests : HangUp(r)
             \/ \E k \in Keys : Expire(k)
             \/ UNCHANGED vars
      PROVE  OrderInv'
  <2>1. UNCHANGED <<stage, reply, past, queue, symbol, latest, unhurt>>
    BY <1>3 DEF HangUp, Expire, vars, request, data
  <2> QED BY <2>1, OrderKept DEF Over, Shown
<1>4. CASE Crash
  <2>1. UNCHANGED <<reply, past, queue, symbol, latest, unhurt>>
    BY <1>4 DEF Crash, data
  <2>2. Over \subseteq Over' /\ \A r \in Requests : Shown(r)' => Shown(r)
    BY <1>4, <2>1 DEF Crash, Over, InReceive, Shown
  <2> QED BY <1>1, <2>1, <2>2, OrderKept DEF TypeOK
<1> QED BY <1>2, <1>3, <1>4, ArriveOrder, SetLatestOrder, EnqueueOrder DEF Next, Step

(* The inductive invariant implies real-time order.                        *)
LEMMA OrderShown == OrderInv => RealTimeOrder
BY DEF OrderInv, RealTimeOrder, Published, Shown

(* A signal that arrived after another one was dealt with is not hidden by *)
(* it, neither for the pollers of the latest signal nor in the queue,      *)
(* however many requests race and fail.                                    *)
THEOREM RealTimeOrderKept == Spec => []RealTimeOrder
<1>1. Init => OrderInv
  BY DEF Init, OrderInv, Over, Shown, Range
<1>2. Inv /\ OrderInv /\ [Next]_vars => OrderInv'
  BY NextOrder
<1> QED BY <1>1, <1>2, OrderShown, IngestInvariant, PTL DEF Spec
=============================================================================
