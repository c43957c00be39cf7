------------------------- MODULE AdminSessionProofs -------------------------
(***************************************************************************)
(* A refresh token that was used up, or whose session was ended, is        *)
(* refused until it expires: theorems about AdminSession for any number of *)
(* calls, logins and faults and for any lifetimes of the tokens.           *)
(***************************************************************************)
EXTENDS AdminSession, TLAPS

-----------------------------------------------------------------------------
(* The inductive invariant. Its parts are operators of the expiry times x, *)
(* the blocklist b, the clock t and the unkept tokens u, so that a lemma   *)
(* can say how they carry over from one state to the next.                 *)

(* Token n was issued, and is out of use unless a fault has kept it in.    *)
Secured(n, x, b, t, u) == x[n] # 0 /\ (b[n] = x[n] \/ x[n] <= t \/ n \in u)

(* What a call carries. The second try of a logout comes after a refresh   *)
(* that has secured the token or found it secured, and so does a token     *)
(* that was used up before it was sent.                                    *)
CarriesGood(r, ref, x, b, t, u) ==
    /\ r.body \in Logins /\ x[r.body] # 0
    /\ r.here => r.body = ref
    /\ (r.op = "logout" /\ r.try = 2) \/ r.stale => Secured(r.body, x, b, t, u)
    /\ r.pc \in {"mint", "block"} /\ r.stale => r.unread \/ r.body \in u

CallsGood(cs, ref, x, b, t, u) ==
    /\ cs \in [Calls -> Call \cup {Idle}]
    /\ \A d \in Calls : cs[d] = Idle \/ CarriesGood(cs[d], ref, x, b, t, u)

AllSecured(S, x, b, t, u) == S \subseteq Logins /\ \A n \in S : Secured(n, x, b, t, u)

(* What a step does to the server never brings a secured token back.       *)
Carry(x, b, t, u, x2, b2, t2, u2) ==
    /\ t \in Nat /\ t2 \in Nat /\ t <= t2 /\ u \subseteq u2
    /\ x \in [Logins -> Nat]
    /\ \A n \in Logins : /\ x[n] # 0 => x2[n] = x[n]
                         /\ b2[n] = b[n] \/ b2[n] = x2[n] \/ n \in u2

(* An entry of the blocklist lives as long as its token.                   *)
BlocksLast == \A n \in Logins : block[n] \in {0, expiry[n]}

ServerGood ==
    /\ now \in 1 .. MaxTime
    /\ expiry \in [Logins -> 0 .. MaxTime + RefreshTTL]
    /\ block \in [Logins -> 0 .. MaxTime + RefreshTTL]
    /\ faults \in 0 .. MaxFaults
    /\ unkept \subseteq Logins
    /\ BlocksLast

Tokens ==
    /\ access \in 0 .. MaxTime + AccessTTL
    /\ refresh \in 0 .. MaxLogins
    /\ refresh # 0 => expiry[refresh] # 0

Inv ==
    /\ ServerGood
    /\ Tokens
    /\ CallsGood(calls, refresh, expiry, block, now, unkept)
    /\ AllSecured(spent \cup out, expiry, block, now, unkept)

-----------------------------------------------------------------------------
(* How the parts carry over.                                               *)

LEMMA SecuredStays ==
    ASSUME NEW x, NEW b, NEW t, NEW u, NEW x2, NEW b2, NEW t2, NEW u2,
           Carry(x, b, t, u, x2, b2, t2, u2),
           NEW n \in Logins, Secured(n, x, b, t, u)
    PROVE  Secured(n, x2, b2, t2, u2)
BY DEF Carry, Secured

LEMMA AllSecuredStays ==
    ASSUME NEW x, NEW b, NEW t, NEW u, NEW x2, NEW b2, NEW t2, NEW u2,
           Carry(x, b, t, u, x2, b2, t2, u2),
           NEW S, AllSecured(S, x, b, t, u)
    PROVE  AllSecured(S, x2, b2, t2, u2)
BY SecuredStays DEF AllSecured

LEMMA CallsStay ==
    ASSUME NEW x, NEW b, NEW t, NEW u, NEW x2, NEW b2, NEW t2, NEW u2,
           Carry(x, b, t, u, x2, b2, t2, u2),
           NEW cs, NEW ref, CallsGood(cs, ref, x, b, t, u)
    PROVE  CallsGood(cs, ref, x2, b2, t2, u2)
<1>1. ASSUME NEW d \in Calls, CarriesGood(cs[d], ref, x, b, t, u)
      PROVE  CarriesGood(cs[d], ref, x2, b2, t2, u2)
  <2>1. cs[d].body \in Logins /\ x2[cs[d].body] # 0
    BY <1>1 DEF CarriesGood, Carry
  <2>2. Secured(cs[d].body, x, b, t, u) => Secured(cs[d].body, x2, b2, t2, u2)
    BY <2>1, SecuredStays
  <2>3. u \subseteq u2
    BY DEF Carry
  <2> QED BY <1>1, <2>1, <2>2, <2>3 DEF CarriesGood
<1> QED BY <1>1 DEF CallsGood

(* The page's functions keep the calls good.                               *)

LEMMA OneCallGood ==
    ASSUME NEW x, NEW b, NEW t, NEW u, NEW cs, NEW ref, CallsGood(cs, ref, x, b, t, u),
           NEW c \in Calls, NEW r,
           r = Idle \/ (r \in Call /\ CarriesGood(r, ref, x, b, t, u))
    PROVE  CallsGood([cs EXCEPT ![c] = r], ref, x, b, t, u)
<1> DEFINE new == [cs EXCEPT ![c] = r]
<1>1. new \in [Calls -> Call \cup {Idle}] /\ new[c] = r /\ \A d \in Calls \ {c} : new[d] = cs[d]
  BY DEF CallsGood
<1> HIDE DEF new
<1>2. \A d \in Calls : new[d] = Idle \/ CarriesGood(new[d], ref, x, b, t, u)
  BY <1>1 DEF CallsGood
<1>3. CallsGood(new, ref, x, b, t, u)
  BY <1>1, <1>2 DEF CallsGood
<1> QED BY <1>3 DEF new

LEMMA RequestGood ==
    ASSUME Tokens, SessionAssumption, NEW x, NEW b, NEW t, NEW u, NEW op \in {"page", "logout"},
           refresh # 0, x[refresh] # 0, AllSecured(spent, x, b, t, u)
    PROVE  Request(op) \in Call /\ CarriesGood(Request(op), refresh, x, b, t, u)
<1> DEFINE stale == refresh \in spent
<1> DEFINE r == [op |-> op, try |-> 1, pc |-> "auth", tok |-> access, body |-> refresh,
                 here |-> TRUE, stale |-> stale, unread |-> FALSE]
<1>1. stale \in BOOLEAN /\ (stale => Secured(refresh, x, b, t, u))
  BY DEF AllSecured
<1>2. Request(op) = r
  BY DEF Request
<1> HIDE DEF stale
<1>3. r \in Call
  BY <1>1 DEF Tokens, SessionAssumption, Call
<1>4. CarriesGood(r, refresh, x, b, t, u)
  BY <1>1 DEF Tokens, CarriesGood, Logins
<1> QED BY <1>2, <1>3, <1>4

LEMMA WithLogoutGood ==
    ASSUME Tokens, SessionAssumption, NEW x, NEW b, NEW t, NEW u, refresh # 0, x[refresh] # 0,
           NEW cs, CallsGood(cs, refresh, x, b, t, u), AllSecured(spent, x, b, t, u)
    PROVE  CallsGood(WithLogout(cs), refresh, x, b, t, u)
<1>1. CASE \E d \in Calls : cs[d] = Idle
  <2> DEFINE d == CHOOSE e \in Calls : cs[e] = Idle
  <2> DEFINE q == Request("logout")
  <2>1. d \in Calls
    BY <1>1
  <2>2. WithLogout(cs) = [cs EXCEPT ![d] = q]
    BY <1>1 DEF WithLogout
  <2>3. q \in Call /\ CarriesGood(q, refresh, x, b, t, u)
    BY RequestGood
  <2> HIDE DEF d, q
  <2>4. CallsGood([cs EXCEPT ![d] = q], refresh, x, b, t, u)
    BY <2>1, <2>3, OneCallGood
  <2> QED BY <2>2, <2>4
<1>2. CASE ~ \E d \in Calls : cs[d] = Idle
  BY <1>2 DEF WithLogout
<1> QED BY <1>1, <1>2

LEMMA OrphanedGood ==
    ASSUME NEW x, NEW b, NEW t, NEW u, NEW cs, NEW ref, CallsGood(cs, ref, x, b, t, u)
    PROVE  CallsGood(Orphaned(cs), 0, x, b, t, u)
<1>1. ASSUME NEW d \in Calls
      PROVE  Orphaned(cs)[d] = Idle
             \/ (Orphaned(cs)[d] \in Call /\ CarriesGood(Orphaned(cs)[d], 0, x, b, t, u))
  <2>1. CASE cs[d] = Idle
    BY <2>1 DEF Orphaned
  <2>2. CASE cs[d] # Idle
    <3>1. Orphaned(cs)[d] = [cs[d] EXCEPT !.here = FALSE]
      BY <2>2 DEF Orphaned
    <3>2. cs[d] \in Call /\ CarriesGood(cs[d], ref, x, b, t, u)
      BY <2>2 DEF CallsGood
    <3> QED BY <3>1, <3>2 DEF Call, CarriesGood
  <2> QED BY <2>1, <2>2
<1>2. Orphaned(cs) \in [Calls -> Call \cup {Idle}]
  BY <1>1 DEF Orphaned
<1> QED BY <1>1, <1>2 DEF CallsGood

(* The end of a call: when it is a logout, the session's token must be     *)
(* secured.                                                                *)
LEMMA EndGood ==
    ASSUME Tokens, SessionAssumption, NEW x, NEW b, NEW t, NEW u,
           NEW c, NEW cs, CallsGood(cs, refresh, x, b, t, u), End(c, cs),
           AllSecured(out, x, b, t, u),
           calls[c].op = "logout" /\ calls[c].here =>
              refresh \in Logins /\ Secured(refresh, x, b, t, u)
    PROVE  /\ CallsGood(calls', refresh', x, b, t, u)
           /\ AllSecured(out', x, b, t, u)
           /\ access' \in {access, 0} /\ refresh' \in {refresh, 0}
<1>1. CASE calls[c].op = "logout" /\ calls[c].here
  <2>1. calls' = Orphaned(cs) /\ access' = 0 /\ refresh' = 0 /\ out' = out \cup {refresh}
    BY <1>1 DEF End, Reload
  <2>2. AllSecured(out', x, b, t, u)
    BY <1>1, <2>1 DEF AllSecured
  <2> QED BY <2>1, <2>2, OrphanedGood
<1>2. CASE ~(calls[c].op = "logout" /\ calls[c].here)
  BY <1>2 DEF End, Stay
<1> QED BY <1>1, <1>2

-----------------------------------------------------------------------------
(* Steps of the server.                                                    *)

LEMMA CarrySame ==
    ASSUME Inv, UNCHANGED <<server, unkept>>
    PROVE  Carry(expiry, block, now, unkept, expiry', block', now', unkept')
BY DEF Inv, ServerGood, Carry, server, Logins

LEMMA ServerSame ==
    ASSUME Inv, UNCHANGED <<server, unkept>>, faults' \in 0 .. MaxFaults
    PROVE  ServerGood'
BY DEF Inv, ServerGood, BlocksLast, server

LEMMA FaultTyped ==
    ASSUME Inv, SessionAssumption, Fault \/ NoFault
    PROVE  faults' \in 0 .. MaxFaults
BY DEF Inv, ServerGood, SessionAssumption, Fault, NoFault

(* A token that is rejected is secured already, and one that is blocked    *)
(* becomes so.                                                             *)
LEMMA RejectedSecured ==
    ASSUME Inv, NEW c \in Calls, calls[c] # Idle, Rejected(c)
    PROVE  Secured(calls[c].body, expiry, block, now, unkept)
<1>1. calls[c].body \in Logins /\ expiry[calls[c].body] # 0
  BY DEF Inv, CallsGood, CarriesGood
<1> QED BY <1>1 DEF Inv, ServerGood, BlocksLast, Rejected, Blocked, Secured, Logins

LEMMA BlockJWTSecures ==
    ASSUME Inv, SessionAssumption, NEW n \in Logins, expiry[n] # 0,
           BlockJWT(n), UNCHANGED <<now, expiry>>
    PROVE  /\ ServerGood'
           /\ Carry(expiry, block, now, unkept, expiry', block', now', unkept')
           /\ Secured(n, expiry', block', now', unkept')
<1>1. faults' \in 0 .. MaxFaults
  BY FaultTyped DEF BlockJWT
<1>2. CASE expiry[n] <= now /\ UNCHANGED <<block, unkept>>
  BY <1>1, <1>2, CarrySame, ServerSame DEF Secured, server
<1>3. CASE block' = [block EXCEPT ![n] = expiry[n]] /\ UNCHANGED unkept
  BY <1>1, <1>3 DEF Inv, ServerGood, BlocksLast, Carry, Secured, Logins
<1>4. CASE unkept' = unkept \cup {n} /\ UNCHANGED block
  BY <1>1, <1>4 DEF Inv, ServerGood, BlocksLast, Carry, Secured, Logins
<1> QED BY <1>2, <1>3, <1>4 DEF BlockJWT, Until

-----------------------------------------------------------------------------
(* The invariant from its parts, when the page goes on and when a call     *)
(* ends.                                                                   *)

LEMMA StayStep ==
    ASSUME Inv, ServerGood',
           Carry(expiry, block, now, unkept, expiry', block', now', unkept'),
           access' \in 0 .. MaxTime + AccessTTL, UNCHANGED <<refresh, out>>,
           CallsGood(calls', refresh, expiry', block', now', unkept'),
           AllSecured(spent' \cup out, expiry', block', now', unkept')
    PROVE  Inv'
<1>1. Tokens'
  BY DEF Inv, Tokens, Carry, Logins
<1> QED BY <1>1 DEF Inv

LEMMA EndStep ==
    ASSUME Inv, SessionAssumption, ServerGood',
           Carry(expiry, block, now, unkept, expiry', block', now', unkept'),
           NEW c, NEW cs, End(c, cs),
           CallsGood(cs, refresh, expiry', block', now', unkept'),
           AllSecured(spent' \cup out, expiry', block', now', unkept'),
           calls[c].op = "logout" /\ calls[c].here =>
              refresh \in Logins /\ Secured(refresh, expiry', block', now', unkept')
    PROVE  Inv'
<1> DEFINE x == expiry'  b == block'  t == now'  u == unkept'
<1>1. Tokens /\ AllSecured(out, x, b, t, u) /\ AllSecured(spent', x, b, t, u)
  BY DEF Inv, AllSecured
<1>2. /\ CallsGood(calls', refresh', x, b, t, u)
      /\ AllSecured(out', x, b, t, u)
      /\ access' \in {access, 0} /\ refresh' \in {refresh, 0}
  <2> HIDE DEF x, b, t, u
  <2> QED BY <1>1, EndGood DEF x, b, t, u
<1>3. Tokens'
  BY <1>1, <1>2, SessionAssumption DEF Tokens, Carry, Logins, SessionAssumption
<1>4. AllSecured(spent' \cup out', x, b, t, u)
  BY <1>1, <1>2 DEF AllSecured
<1> QED BY <1>2, <1>3, <1>4 DEF Inv

LEMMA Gone ==
    ASSUME NEW x, NEW b, NEW t, NEW u, NEW c \in Calls,
           CallsGood(calls, refresh, x, b, t, u)
    PROVE  CallsGood(Without(c), refresh, x, b, t, u)
BY OneCallGood DEF Without

LEMMA CallFacts ==
    ASSUME Inv, NEW c \in Calls, calls[c] # Idle
    PROVE  /\ calls[c] \in Call
           /\ CarriesGood(calls[c], refresh, expiry, block, now, unkept)
           /\ calls[c].body \in Logins /\ expiry[calls[c].body] # 0
           /\ calls[c].here => calls[c].body = refresh /\ refresh # 0
BY DEF Inv, CallsGood, CarriesGood, Logins

(* A call that goes on with r while the server does nothing.               *)
LEMMA GoOn ==
    ASSUME Inv, NEW c \in Calls, NEW r,
           r = Idle \/ (r \in Call /\ CarriesGood(r, refresh, expiry, block, now, unkept)),
           calls' = [calls EXCEPT ![c] = r],
           UNCHANGED <<server, access, refresh, ghosts>>, faults' \in 0 .. MaxFaults
    PROVE  Inv'
<1>1. /\ Carry(expiry, block, now, unkept, expiry', block', now', unkept')
      /\ ServerGood'
  BY CarrySame, ServerSame DEF ghosts
<1>2. CallsGood(calls, refresh, expiry, block, now, unkept)
  BY DEF Inv
<1>3. CallsGood([calls EXCEPT ![c] = r], refresh, expiry, block, now, unkept)
  BY <1>2, OneCallGood
<1>4. CallsGood(calls', refresh, expiry', block', now', unkept')
  BY <1>3 DEF server, ghosts
<1>5. AllSecured(spent' \cup out, expiry', block', now', unkept')
  BY DEF Inv, server, ghosts
<1> QED BY <1>1, <1>4, <1>5, StayStep DEF Inv, Tokens, ghosts

(* A call that ends while the server does nothing.                         *)
LEMMA EndOnly ==
    ASSUME Inv, SessionAssumption, NEW c, NEW cs, End(c, cs),
           CallsGood(cs, refresh, expiry, block, now, unkept),
           UNCHANGED <<server, spent, unkept, faults>>,
           calls[c].op = "logout" /\ calls[c].here =>
              refresh \in Logins /\ Secured(refresh, expiry, block, now, unkept)
    PROVE  Inv'
<1>1. /\ Carry(expiry, block, now, unkept, expiry', block', now', unkept')
      /\ ServerGood'
  BY CarrySame, ServerSame DEF Inv, ServerGood
<1>2. AllSecured(spent' \cup out, expiry', block', now', unkept')
  BY DEF Inv, server
<1>3. /\ expiry' = expiry /\ block' = block /\ now' = now /\ unkept' = unkept
  BY DEF server
<1> QED BY <1>1, <1>2, <1>3, EndStep

-----------------------------------------------------------------------------
(* One step per action.                                                    *)

LEMMA TickStep ==
    ASSUME Inv, SessionAssumption, Tick
    PROVE  Inv'
<1>1. /\ Carry(expiry, block, now, unkept, expiry', block', now', unkept')
      /\ ServerGood'
  BY DEF Tick, Inv, ServerGood, BlocksLast, Carry, ghosts, Logins, SessionAssumption
<1>2. CallsGood(calls, refresh, expiry', block', now', unkept')
  BY <1>1, CallsStay DEF Inv
<1>3. AllSecured(spent \cup out, expiry', block', now', unkept')
  BY <1>1, AllSecuredStays DEF Inv
<1> QED BY <1>1, <1>2, <1>3, StayStep DEF Tick, page, ghosts, Inv, Tokens

LEMMA EvictStep ==
    ASSUME Inv, SessionAssumption, NEW n \in Logins, Evict(n)
    PROVE  Inv'
<1>1. faults' \in 0 .. MaxFaults
  BY FaultTyped DEF Evict
<1>2. /\ Carry(expiry, block, now, unkept, expiry', block', now', unkept')
      /\ ServerGood'
  BY <1>1 DEF Evict, Inv, ServerGood, BlocksLast, Carry, Logins, SessionAssumption
<1>3. CallsGood(calls, refresh, expiry', block', now', unkept')
  BY <1>2, CallsStay DEF Inv
<1>4. AllSecured(spent \cup out, expiry', block', now', unkept')
  BY <1>2, AllSecuredStays DEF Inv
<1> QED BY <1>2, <1>3, <1>4, StayStep DEF Evict, page, Inv, Tokens

LEMMA LoginStep ==
    ASSUME Inv, SessionAssumption, NEW n \in Logins, Login(n)
    PROVE  Inv'
<1>1. /\ Carry(expiry, block, now, unkept, expiry', block', now', unkept')
      /\ ServerGood'
  BY DEF Login, AdminLogin, MakeToken, Inv, ServerGood, BlocksLast, Carry, ghosts, Logins,
         SessionAssumption
<1>2. CallsGood(calls, refresh, expiry', block', now', unkept')
  BY <1>1, CallsStay DEF Inv
<1>3. CallsGood(calls', refresh', expiry', block', now', unkept')
  BY <1>2 DEF Login, CallsGood, CarriesGood, Logins
<1>4. AllSecured(spent \cup out, expiry', block', now', unkept')
  BY <1>1, AllSecuredStays DEF Inv
<1>5. Tokens'
  BY DEF Login, AdminLogin, MakeToken, Inv, Tokens, ServerGood, Logins, SessionAssumption
<1> QED BY <1>1, <1>3, <1>4, <1>5 DEF Inv, Login, ghosts

LEMMA StartStep ==
    ASSUME Inv, SessionAssumption, NEW c \in Calls, NEW op \in {"page", "logout"},
           StartCall(c, op)
    PROVE  Inv'
<1>1. /\ Request(op) \in Call
      /\ CarriesGood(Request(op), refresh, expiry, block, now, unkept)
  BY RequestGood DEF Inv, StartCall, Tokens, AllSecured
<1> DEFINE r == Request(op)
<1>2. calls' = [calls EXCEPT ![c] = r]
  BY DEF StartCall
<1>3. UNCHANGED <<server, access, refresh, ghosts>> /\ faults' \in 0 .. MaxFaults
  BY DEF StartCall, Inv, ServerGood
<1> HIDE DEF r
<1> QED BY <1>1, <1>2, <1>3, GoOn DEF r

LEMMA AuthorizedStep ==
    ASSUME Inv, SessionAssumption, NEW c \in Calls, Authorized(c)
    PROVE  Inv'
<1>1. calls[c] \in Call /\ CarriesGood(calls[c], refresh, expiry, block, now, unkept)
  BY CallFacts DEF Authorized, At
<1>2. CASE calls[c].op = "page"
  <2>1. CallsGood(Without(c), refresh, expiry, block, now, unkept)
    BY Gone DEF Inv
  <2> QED BY <1>2, <2>1, EndOnly DEF Authorized
<1>3. CASE calls[c].op # "page"
  <2> DEFINE r == [calls[c] EXCEPT !.pc = "revoke"]
  <2>1. r \in Call /\ CarriesGood(r, refresh, expiry, block, now, unkept)
    BY <1>1 DEF Call, CarriesGood
  <2>2. calls' = [calls EXCEPT ![c] = r]
    BY <1>3 DEF Authorized
  <2>3. UNCHANGED <<server, access, refresh, ghosts>> /\ faults' \in 0 .. MaxFaults
    BY <1>3 DEF Authorized, Stay, ghosts, Inv, ServerGood
  <2> HIDE DEF r
  <2> QED BY <2>1, <2>2, <2>3, GoOn
<1> QED BY <1>2, <1>3

LEMMA UnauthorizedStep ==
    ASSUME Inv, SessionAssumption, NEW c \in Calls, Unauthorized(c)
    PROVE  Inv'
<1>1. /\ calls[c] \in Call /\ CarriesGood(calls[c], refresh, expiry, block, now, unkept)
      /\ calls[c].here => calls[c].body = refresh /\ refresh # 0
  BY CallFacts DEF Unauthorized, At
<1>2. CallsGood(Without(c), refresh, expiry, block, now, unkept)
  BY Gone DEF Inv
<1>3. CASE ~calls[c].here
  BY <1>2, <1>3, EndOnly DEF Unauthorized
<1>4. CASE calls[c].here /\ calls[c].try = 1
  <2> DEFINE stale == refresh \in spent
  <2> DEFINE r == [calls[c] EXCEPT !.pc = "check", !.body = refresh, !.stale = stale]
  <2>1. r \in Call /\ CarriesGood(r, refresh, expiry, block, now, unkept)
    <3>1. stale \in BOOLEAN /\ (stale => Secured(refresh, expiry, block, now, unkept))
      BY DEF Inv, AllSecured
    <3> HIDE DEF stale
    <3> QED BY <1>1, <1>4, <3>1 DEF Call, CarriesGood, Inv, Tokens
  <2>2. calls' = [calls EXCEPT ![c] = r]
    BY <1>4 DEF Unauthorized
  <2>3. UNCHANGED <<server, access, refresh, ghosts>> /\ faults' \in 0 .. MaxFaults
    BY <1>4 DEF Unauthorized, Stay, ghosts, Inv, ServerGood
  <2> HIDE DEF r
  <2> QED BY <2>1, <2>2, <2>3, GoOn
<1>5. CASE calls[c].here /\ calls[c].try # 1
  <2> DEFINE cs == WithLogout(Without(c))
  <2>1. CallsGood(cs, refresh, expiry, block, now, unkept)
    BY <1>1, <1>2, <1>5, WithLogoutGood DEF Inv, Tokens, AllSecured
  <2>2. calls[c].op = "logout" => Secured(calls[c].body, expiry, block, now, unkept)
    BY <1>1, <1>5 DEF Call, CarriesGood
  <2>3. calls[c].body \in Logins /\ calls[c].body = refresh
    BY <1>1, <1>5 DEF CarriesGood
  <2>4. End(c, cs) /\ UNCHANGED <<server, spent, unkept, faults>>
    BY <1>5 DEF Unauthorized
  <2> HIDE DEF cs
  <2> QED BY <2>1, <2>2, <2>3, <2>4, EndOnly
<1> QED BY <1>3, <1>4, <1>5

(* A token that was used up is let through only unread or unkept.          *)
LEMMA ValidateKnows ==
    ASSUME Inv, NEW c \in Calls, calls[c] # Idle, NEW unread \in BOOLEAN, Validate(c, unread),
           calls[c].stale
    PROVE  unread \/ calls[c].body \in unkept
<1>1. Secured(calls[c].body, expiry, block, now, unkept) /\ calls[c].body \in Logins
  BY CallFacts DEF CarriesGood
<1> QED BY <1>1 DEF Validate, Secured, Blocked, Inv, ServerGood, Logins

(* The second fetch: of a logout only with a token that is secured.        *)
LEMMA RefetchGood ==
    ASSUME NEW x, NEW b, NEW t, NEW u, NEW c \in Calls, NEW cs, NEW tok,
           CallsGood(cs, refresh, x, b, t, u), cs[c] # Idle,
           tok \in 0 .. MaxTime + AccessTTL,
           cs[c].op = "logout" => Secured(cs[c].body, x, b, t, u),
           Refetch(c, cs, tok)
    PROVE  CallsGood(calls', refresh, x, b, t, u)
<1> DEFINE r == [cs[c] EXCEPT !.pc = "auth", !.try = 2, !.tok = tok]
<1>1. cs[c] \in Call /\ CarriesGood(cs[c], refresh, x, b, t, u)
  BY DEF CallsGood
<1>2. r \in Call
  <2>1. [cs[c] EXCEPT !.pc = "auth", !.try = 2] \in Call
    BY <1>1, 2 \in 1 .. 2 DEF Call
  <2> DEFINE s == [cs[c] EXCEPT !.pc = "auth", !.try = 2]
  <2>2. r = [s EXCEPT !.tok = tok]
    OBVIOUS
  <2> HIDE DEF s, r
  <2>3. [s EXCEPT !.tok = tok] \in Call
    BY <2>1 DEF s, Call
  <2> QED BY <2>2, <2>3
<1>3. /\ r.op = cs[c].op /\ r.body = cs[c].body /\ r.here = cs[c].here
      /\ r.stale = cs[c].stale /\ r.pc = "auth"
  BY <1>1 DEF Call
<1>4. calls' = [cs EXCEPT ![c] = r]
  BY DEF Refetch, SecondTry
<1> HIDE DEF r
<1>5. CarriesGood(r, refresh, x, b, t, u)
  BY <1>1, <1>3 DEF CarriesGood
<1> QED BY <1>2, <1>4, <1>5, OneCallGood

LEMMA PassStep ==
    ASSUME Inv, SessionAssumption, NEW c \in Calls, calls[c] # Idle, NEW unread \in BOOLEAN,
           Validate(c, unread), NEW pc \in {"mint", "block"},
           calls' = [calls EXCEPT ![c] = [@ EXCEPT !.pc = pc, !.unread = unread]],
           UNCHANGED <<server, access, refresh, ghosts>>
    PROVE  Inv'
<1> DEFINE r == [calls[c] EXCEPT !.pc = pc, !.unread = unread]
<1>1. calls[c] \in Call /\ CarriesGood(calls[c], refresh, expiry, block, now, unkept)
  BY CallFacts
<1>2. calls[c].stale => unread \/ calls[c].body \in unkept
  BY ValidateKnows
<1>3. r \in Call /\ CarriesGood(r, refresh, expiry, block, now, unkept)
  BY <1>1, <1>2 DEF Call, CarriesGood
<1>4. faults' \in 0 .. MaxFaults
  BY FaultTyped DEF Validate
<1>5. calls' = [calls EXCEPT ![c] = r]
  OBVIOUS
<1> HIDE DEF r
<1> QED BY <1>3, <1>4, <1>5, GoOn

LEMMA RefreshRefusedStep ==
    ASSUME Inv, SessionAssumption, NEW c \in Calls, RefreshRefused(c)
    PROVE  Inv'
<1>1. calls[c] # Idle
  BY DEF RefreshRefused, At
<1>2. /\ CarriesGood(calls[c], refresh, expiry, block, now, unkept)
      /\ calls[c].here => calls[c].body = refresh /\ refresh # 0
  BY <1>1, CallFacts
<1>3. Secured(calls[c].body, expiry, block, now, unkept)
  BY <1>1, RejectedSecured DEF RefreshRefused
<1>4. CASE ~calls[c].here
  <2>1. CallsGood(Without(c), refresh, expiry, block, now, unkept)
    BY Gone DEF Inv
  <2> QED BY <1>4, <2>1, EndOnly DEF RefreshRefused
<1>5. CASE calls[c].here
  <2> DEFINE cs == WithLogout(calls)
  <2>1. CallsGood(cs, refresh, expiry, block, now, unkept)
    BY <1>2, <1>5, WithLogoutGood DEF Inv, Tokens, AllSecured
  <2>2. cs[c] = calls[c]
    <3>1. CASE \E d \in Calls : calls[d] = Idle
      <4> DEFINE d == CHOOSE e \in Calls : calls[e] = Idle
      <4>1. d \in Calls /\ d # c
        BY <1>1, <3>1
      <4>2. cs = [calls EXCEPT ![d] = Request("logout")]
        BY <3>1 DEF WithLogout
      <4> HIDE DEF d, cs
      <4> QED BY <4>1, <4>2 DEF Inv, CallsGood
    <3>2. CASE ~ \E d \in Calls : calls[d] = Idle
      BY <3>2 DEF WithLogout
    <3> QED BY <3>1, <3>2
  <2>3. /\ Refetch(c, cs, access)
        /\ UNCHANGED <<server, access, refresh, ghosts, faults>>
    BY <1>5 DEF RefreshRefused, Stay, ghosts
  <2> HIDE DEF cs
  <2>4. CallsGood(calls', refresh, expiry, block, now, unkept)
    BY <1>1, <1>3, <2>1, <2>2, <2>3, RefetchGood DEF Inv, Tokens
  <2>5. /\ Carry(expiry, block, now, unkept, expiry', block', now', unkept')
        /\ ServerGood'
    BY <2>3, CarrySame, ServerSame DEF ghosts, Inv, ServerGood
  <2> QED BY <2>3, <2>4, <2>5, StayStep DEF ghosts, server, Inv, Tokens
<1> QED BY <1>4, <1>5

(* Once the token is blocked, it may be counted as spent.                  *)
LEMMA BlockedParts ==
    ASSUME Inv, SessionAssumption, NEW n \in Logins, expiry[n] # 0, BlockJWT(n),
           UNCHANGED <<now, expiry>>, spent' = spent \cup {n}
    PROVE  /\ ServerGood'
           /\ Carry(expiry, block, now, unkept, expiry', block', now', unkept')
           /\ Secured(n, expiry', block', now', unkept')
           /\ CallsGood(calls, refresh, expiry', block', now', unkept')
           /\ AllSecured(spent' \cup out, expiry', block', now', unkept')
<1>1. /\ ServerGood'
      /\ Carry(expiry, block, now, unkept, expiry', block', now', unkept')
      /\ Secured(n, expiry', block', now', unkept')
  BY BlockJWTSecures
<1>2. CallsGood(calls, refresh, expiry', block', now', unkept')
  BY <1>1, CallsStay DEF Inv
<1>3. AllSecured(spent \cup out, expiry', block', now', unkept')
  BY <1>1, AllSecuredStays DEF Inv
<1>4. AllSecured(spent' \cup out, expiry', block', now', unkept')
  BY <1>1, <1>3 DEF AllSecured
<1> QED BY <1>1, <1>2, <1>4

LEMMA MintStep ==
    ASSUME Inv, SessionAssumption, NEW c \in Calls, NEW answered \in BOOLEAN,
           Mint(c, answered)
    PROVE  Inv'
<1> DEFINE n == calls[c].body
<1>1. /\ calls[c] # Idle
      /\ n \in Logins /\ expiry[n] # 0
      /\ calls[c].here => n = refresh /\ refresh # 0
  BY CallFacts DEF Mint, At
<1>2. BlockJWT(n) /\ UNCHANGED <<now, expiry>> /\ spent' = spent \cup {n}
  BY DEF Mint, BlockRefreshed
<1> HIDE DEF n
<1>3. /\ ServerGood'
      /\ Carry(expiry, block, now, unkept, expiry', block', now', unkept')
      /\ Secured(n, expiry', block', now', unkept')
      /\ CallsGood(calls, refresh, expiry', block', now', unkept')
      /\ AllSecured(spent' \cup out, expiry', block', now', unkept')
  BY <1>1, <1>2, BlockedParts
<1>4. CASE ~calls[c].here
  <2>1. CallsGood(Without(c), refresh, expiry', block', now', unkept')
    BY <1>3, Gone
  <2>2. End(c, Without(c))
    BY <1>4 DEF Mint
  <2> QED BY <1>3, <1>4, <2>1, <2>2, EndStep
<1>5. CASE calls[c].here
  <2>1. /\ access' = IF answered THEN MakeToken(AccessTTL) ELSE access
        /\ Refetch(c, calls, access') /\ UNCHANGED <<refresh, out>>
    BY <1>5 DEF Mint
  <2>2. access' \in 0 .. MaxTime + AccessTTL
    BY <2>1 DEF MakeToken, Inv, ServerGood, Tokens, SessionAssumption
  <2>3. CallsGood(calls', refresh, expiry', block', now', unkept')
    BY <1>1, <1>3, <2>1, <2>2, RefetchGood DEF n
  <2> QED BY <1>3, <2>1, <2>2, <2>3, StayStep
<1> QED BY <1>4, <1>5

LEMMA RevokeStep ==
    ASSUME Inv, SessionAssumption, NEW c \in Calls, Revoke(c)
    PROVE  Inv'
<1> DEFINE n == calls[c].body
<1>1. n \in Logins /\ expiry[n] # 0 /\ (calls[c].here => n = refresh)
  BY CallFacts DEF Revoke, At
<1>2. /\ BlockJWT(n) /\ UNCHANGED <<now, expiry>> /\ spent' = spent \cup {n}
      /\ End(c, Without(c))
  BY DEF Revoke
<1> HIDE DEF n
<1>3. /\ ServerGood'
      /\ Carry(expiry, block, now, unkept, expiry', block', now', unkept')
      /\ Secured(n, expiry', block', now', unkept')
      /\ CallsGood(calls, refresh, expiry', block', now', unkept')
      /\ AllSecured(spent' \cup out, expiry', block', now', unkept')
  BY <1>1, <1>2, BlockedParts
<1>4. CallsGood(Without(c), refresh, expiry', block', now', unkept')
  BY <1>3, Gone
<1> QED BY <1>1, <1>2, <1>3, <1>4, EndStep

LEMMA RevokeRefusedStep ==
    ASSUME Inv, SessionAssumption, NEW c \in Calls, RevokeRefused(c)
    PROVE  Inv'
<1>1. calls[c] # Idle
  BY DEF RevokeRefused, At
<1>2. calls[c].body \in Logins /\ (calls[c].here => calls[c].body = refresh)
  BY <1>1, CallFacts
<1>3. Secured(calls[c].body, expiry, block, now, unkept)
  BY <1>1, RejectedSecured DEF RevokeRefused
<1>4. CallsGood(Without(c), refresh, expiry, block, now, unkept)
  BY Gone DEF Inv
<1> QED BY <1>2, <1>3, <1>4, EndOnly DEF RevokeRefused

(* A logout that throws leaves its token in use, and says so in unkept.    *)
LEMMA ThrowStep ==
    ASSUME Inv, SessionAssumption, NEW c \in Calls, Throw(c)
    PROVE  Inv'
<1> DEFINE n == calls[c].body
<1>1. /\ calls[c] # Idle /\ n \in Logins /\ expiry[n] # 0
      /\ n = refresh /\ refresh # 0
  BY CallFacts DEF Throw
<1>2. /\ calls[c].op = "logout" => n \in unkept'
      /\ unkept \subseteq unkept' /\ unkept' \subseteq Logins
      /\ UNCHANGED <<now, expiry, block, spent>>
  BY <1>1 DEF Throw, server, Inv, ServerGood
<1>3. faults' \in 0 .. MaxFaults
  BY FaultTyped DEF Throw
<1>4. /\ ServerGood'
      /\ Carry(expiry, block, now, unkept, expiry', block', now', unkept')
  BY <1>2, <1>3 DEF Inv, ServerGood, BlocksLast, Carry, Logins
<1>5. CallsGood(calls, refresh, expiry', block', now', unkept')
  BY <1>4, CallsStay DEF Inv
<1>6. AllSecured(spent' \cup out, expiry', block', now', unkept')
  BY <1>2, <1>4, AllSecuredStays DEF Inv
<1>7. calls[c].op = "logout" => Secured(n, expiry', block', now', unkept')
  BY <1>1, <1>2 DEF Secured
<1>8. CASE calls[c].pc \in {"check", "mint"}
  <2>1. Refetch(c, calls, access) /\ UNCHANGED <<access, refresh, out>>
    BY <1>8 DEF Throw, Stay
  <2>2. access \in 0 .. MaxTime + AccessTTL
    BY DEF Inv, Tokens
  <2>3. CallsGood(calls', refresh, expiry', block', now', unkept')
    BY <1>1, <1>5, <1>7, <2>1, <2>2, RefetchGood
  <2> QED BY <1>4, <1>6, <2>1, <2>2, <2>3, StayStep
<1>9. CASE calls[c].pc \notin {"check", "mint"}
  <2>1. CallsGood(Without(c), refresh, expiry', block', now', unkept')
    BY <1>5, Gone
  <2>2. End(c, Without(c))
    BY <1>9 DEF Throw
  <2> QED BY <1>1, <1>4, <1>6, <1>7, <2>1, <2>2, EndStep
<1> QED BY <1>8, <1>9

LEMMA AbandonStep ==
    ASSUME Inv, SessionAssumption, NEW c \in Calls, Abandon(c)
    PROVE  Inv'
<1>1. CallsGood(Without(c), refresh, expiry, block, now, unkept)
  BY Gone DEF Inv
<1> QED BY <1>1, EndOnly DEF Abandon

LEMMA CallStepGood ==
    ASSUME Inv, SessionAssumption, NEW c \in Calls, CallStep(c)
    PROVE  Inv'
<1>1. CASE Authorized(c)
  BY <1>1, AuthorizedStep
<1>2. CASE Unauthorized(c)
  BY <1>2, UnauthorizedStep
<1>3. CASE RefreshValid(c, FALSE)
  BY <1>3, PassStep DEF RefreshValid, At
<1>4. CASE RefreshRefused(c)
  BY <1>4, RefreshRefusedStep
<1>5. CASE Mint(c, TRUE)
  BY <1>5, MintStep
<1>6. CASE RevokeValid(c, FALSE)
  BY <1>6, PassStep DEF RevokeValid, At
<1>7. CASE RevokeRefused(c)
  BY <1>7, RevokeRefusedStep
<1>8. CASE Revoke(c)
  BY <1>8, RevokeStep
<1> QED BY <1>1, <1>2, <1>3, <1>4, <1>5, <1>6, <1>7, <1>8 DEF CallStep

-----------------------------------------------------------------------------
(* The theorems.                                                           *)

(* No behaviour of the server and the page leaves the invariant.           *)
THEOREM SessionInvariant == Spec => []Inv
<1> USE SessionAssumption
<1>1. Init => Inv
  <2> SUFFICES ASSUME Init PROVE Inv
    OBVIOUS
  <2>1. ServerGood
    BY DEF Init, ServerGood, BlocksLast, SessionAssumption
  <2>2. Tokens
    BY DEF Init, Tokens, SessionAssumption
  <2>3. CallsGood(calls, refresh, expiry, block, now, unkept)
    BY DEF Init, CallsGood
  <2>4. AllSecured(spent \cup out, expiry, block, now, unkept)
    BY DEF Init, AllSecured
  <2> QED BY <2>1, <2>2, <2>3, <2>4 DEF Inv
<1>2. Inv /\ [Next]_vars => Inv'
  <2> SUFFICES ASSUME Inv, [Next]_vars PROVE Inv'
    OBVIOUS
  <2>1. CASE Tick
    BY <2>1, TickStep
  <2>2. ASSUME NEW n \in Logins, Login(n) PROVE Inv'
    BY <2>2, LoginStep
  <2>3. ASSUME NEW n \in Logins, Evict(n) PROVE Inv'
    BY <2>3, EvictStep
  <2>4. ASSUME NEW c \in Calls, NEW op \in {"page", "logout"}, StartCall(c, op) PROVE Inv'
    BY <2>4, StartStep
  <2>5. ASSUME NEW c \in Calls, CallStep(c) PROVE Inv'
    BY <2>5, CallStepGood
  <2>6. ASSUME NEW c \in Calls, RefreshValid(c, TRUE) PROVE Inv'
    BY <2>6, PassStep DEF RefreshValid, At
  <2>7. ASSUME NEW c \in Calls, RevokeValid(c, TRUE) PROVE Inv'
    BY <2>7, PassStep DEF RevokeValid, At
  <2>8. ASSUME NEW c \in Calls, LoseAnswer(c) PROVE Inv'
    BY <2>8, MintStep DEF LoseAnswer
  <2>9. ASSUME NEW c \in Calls, Throw(c) PROVE Inv'
    BY <2>9, ThrowStep
  <2>10. ASSUME NEW c \in Calls, Abandon(c) PROVE Inv'
    BY <2>10, AbandonStep
  <2>11. CASE UNCHANGED vars
    BY <2>11 DEF vars, server, page, ghosts, Inv, ServerGood, BlocksLast, Tokens
  <2> QED BY <2>1, <2>2, <2>3, <2>4, <2>5, <2>6, <2>7, <2>8, <2>9, <2>10, <2>11 DEF Next
<1> QED BY <1>1, <1>2, PTL DEF Spec

(* Every variable keeps its type, and a call the page waits for carries    *)
(* the token of the session on the screen.                                 *)
THEOREM SessionTyped == Spec => []TypeOK
<1>1. Inv => TypeOK
  <2> SUFFICES ASSUME Inv PROVE TypeOK
    OBVIOUS
  <2>1. spent \subseteq Logins /\ out \subseteq Logins
    BY DEF Inv, AllSecured
  <2>2. calls \in [Calls -> Call \cup {Idle}]
    BY DEF Inv, CallsGood
  <2>3. \A c \in Calls : calls[c] # Idle /\ calls[c].here => refresh # 0 /\ calls[c].body = refresh
    BY CallFacts
  <2> QED BY <2>1, <2>2, <2>3 DEF Inv, ServerGood, Tokens, TypeOK
<1> QED BY <1>1, SessionInvariant, PTL

(* What RefreshAdminToken or RevokeAdminToken has used up is refused from  *)
(* then on, whatever else runs between a check and a block, unless Redis   *)
(* lost its entry or could not be read.                                    *)
THEOREM UsedOnce == Spec => []SpentStaysSpent
<1>1. Inv => SpentStaysSpent
  BY CallFacts DEF SpentStaysSpent, At, CarriesGood
<1> QED BY <1>1, SessionInvariant, PTL

(* A session the page has ended cannot be refreshed, whichever way its     *)
(* logout went, unless a request or a Redis command failed.                *)
THEOREM EndedIsRevoked == Spec => []LogoutRevokes
<1>1. Inv => LogoutRevokes
  <2> SUFFICES ASSUME Inv, NEW n \in out
               PROVE  Blocked(n) \/ expiry[n] <= now \/ n \in unkept
    BY DEF LogoutRevokes
  <2>1. n \in Logins /\ Secured(n, expiry, block, now, unkept)
    BY DEF Inv, AllSecured
  <2> QED BY <2>1 DEF Secured, Blocked, Inv, ServerGood, Logins
<1> QED BY <1>1, SessionInvariant, PTL
=============================================================================
