---------------------------- MODULE AdminSession ----------------------------
(***************************************************************************)
(* The administrator's session: the tokens of internal/auth, the blocklist *)
(* of internal/cache, the handlers Login, Refresh and Logout of            *)
(* internal/admin, and the page web/dashboard.html, whose calls run        *)
(* concurrently and refresh or end the session on a 401.                   *)
(*                                                                         *)
(* An access token is never blocked and nothing else tells two of them     *)
(* apart, so it is its expiry time; a refresh token is the number of its   *)
(* login. 0 is no token. The page uses each token for its own purpose      *)
(* only: the audience written into a token is never checked.               *)
(***************************************************************************)
EXTENDS Naturals, FiniteSets

CONSTANTS
    Calls,       \* calls of the page that can be in flight at once
    AccessTTL, RefreshTTL,
    MaxLogins,   \* bound: logins
    MaxTime,     \* bound: the clock
    MaxFaults    \* bound: failed Redis commands, evictions, requests that throw

ASSUME SessionAssumption ==
    /\ AccessTTL \in Nat \ {0} /\ RefreshTTL \in Nat \ {0}
    /\ MaxLogins \in Nat /\ MaxTime \in Nat \ {0} /\ MaxFaults \in Nat

Logins == 1 .. MaxLogins

VARIABLES
    now,
    expiry,    \* of each refresh token, 0 before its login
    block,     \* when its blocklist entry expires, 0 without one
    access,    \* accessToken of the page
    refresh,   \* refreshToken of the page: 0 on the login screen
    calls,     \* what each call of the page is at
    faults,
    spent,     \* refresh tokens a refresh or a logout has used up
    out,       \* refresh tokens of sessions the page has ended
    unkept     \* tokens whose block or logout a fault has lost

server == <<now, expiry, block>>
page == <<access, refresh, calls>>
ghosts == <<spent, out, unkept>>
vars == <<server, page, ghosts, faults>>

(* op: what was called; try: first or second fetch of apiFetch; pc: where  *)
(* its request is; tok, body: the tokens it carries; here: the page has    *)
(* not been reloaded since; stale: body was spent when it was sent;        *)
(* unread: IsJWTBlocked failed.                                            *)
Call == [op : {"page", "logout"}, try : 1 .. 2,
         pc : {"auth", "check", "mint", "revoke", "block"},
         tok : 0 .. MaxTime + AccessTTL, body : 0 .. MaxLogins,
         here : BOOLEAN, stale : BOOLEAN, unread : BOOLEAN]
Idle == [op |-> "none"]

Init ==
    /\ now = 1
    /\ expiry = [n \in Logins |-> 0]
    /\ block = [n \in Logins |-> 0]
    /\ access = 0 /\ refresh = 0
    /\ calls = [c \in Calls |-> Idle]
    /\ faults = 0
    /\ spent = {} /\ out = {} /\ unkept = {}

Fault == faults < MaxFaults /\ faults' = faults + 1
NoFault == UNCHANGED faults

-----------------------------------------------------------------------------
(* The server.                                                             *)

MakeToken(ttl) == now + ttl
Blocked(n) == block[n] > now

(* ValidateAdminToken of a refresh token: a blocklist that cannot be read  *)
(* lets the token pass.                                                    *)
Validate(c, unread) ==
    /\ expiry[calls[c].body] > now
    /\ IF unread THEN Fault ELSE ~Blocked(calls[c].body) /\ NoFault
Rejected(c) == expiry[calls[c].body] <= now \/ Blocked(calls[c].body)

(* Mutant: the entry lives as long as an access token.                     *)
UntilAccessTTL(n) == now + AccessTTL
(* The entry lives for what remains of the token.                          *)
Until(n) == expiry[n]

(* BlockJWT. Neither caller hears of a SET that fails.                     *)
BlockJWT(n) ==
    IF expiry[n] <= now THEN UNCHANGED <<block, unkept>> /\ NoFault
    ELSE \/ block' = [block EXCEPT ![n] = Until(n)] /\ UNCHANGED unkept /\ NoFault
         \/ unkept' = unkept \cup {n} /\ UNCHANGED block /\ Fault

(* Mutant: the token that was refreshed stays good.                        *)
MintOnly(n) == UNCHANGED <<block, unkept>> /\ NoFault
BlockRefreshed(n) == BlockJWT(n)

-----------------------------------------------------------------------------
(* The page.                                                               *)

Request(op) ==
    [op |-> op, try |-> 1, pc |-> "auth", tok |-> access, body |-> refresh,
     here |-> TRUE, stale |-> refresh \in spent, unread |-> FALSE]

(* doLogout beside the running calls. When every call is taken, one more   *)
(* logout is left out of the model.                                        *)
WithLogout(cs) ==
    IF \E d \in Calls : cs[d] = Idle
    THEN [cs EXCEPT ![CHOOSE d \in Calls : cs[d] = Idle] = Request("logout")]
    ELSE cs

(* Mutant: the login screen is shown without a reload.                     *)
StillWaited(cs) == cs
Orphaned(cs) == [d \in Calls |-> IF cs[d] = Idle THEN Idle ELSE [cs[d] EXCEPT !.here = FALSE]]

(* The end of doLogout, however its request went: the tokens are removed   *)
(* and the reload leaves the other requests without a page.                *)
Reload(cs) ==
    /\ calls' = Orphaned(cs)
    /\ access' = 0 /\ refresh' = 0
    /\ out' = out \cup {refresh}

Stay == UNCHANGED <<access, refresh, out>>

(* Call c is over, and cs is what it leaves.                               *)
Without(c) == [calls EXCEPT ![c] = Idle]
End(c, cs) ==
    IF calls[c].op = "logout" /\ calls[c].here THEN Reload(cs) ELSE calls' = cs /\ Stay

At(c, pc) == calls[c] # Idle /\ calls[c].pc = pc

(* Mutant: a second 401 is taken for a first one.                          *)
RetryAlways(c) == 1
SecondTry(c) == 2

(* The second fetch of apiFetch, with the page's token as it is by then.   *)
Refetch(c, cs, tok) ==
    calls' = [cs EXCEPT ![c] = [@ EXCEPT !.pc = "auth", !.try = SecondTry(c), !.tok = tok]]

(* doLogin with the right password.                                        *)
AdminLogin(n) ==
    /\ expiry[n] = 0 /\ \A m \in 1 .. n - 1 : expiry[m] # 0
    /\ expiry' = [expiry EXCEPT ![n] = MakeToken(RefreshTTL)]
    /\ access' = MakeToken(AccessTTL)
Login(n) ==
    /\ refresh = 0
    /\ AdminLogin(n)
    /\ refresh' = n
    /\ UNCHANGED <<now, block, calls, ghosts, faults>>

StartCall(c, op) ==
    /\ refresh # 0
    /\ calls[c] = Idle
    /\ calls' = [calls EXCEPT ![c] = Request(op)]
    /\ UNCHANGED <<server, access, refresh, ghosts, faults>>

(* JWTMiddleware lets the call through.                                    *)
Authorized(c) ==
    /\ At(c, "auth") /\ calls[c].tok > now
    /\ IF calls[c].op = "page" THEN End(c, Without(c))
       ELSE calls' = [calls EXCEPT ![c].pc = "revoke"] /\ Stay
    /\ UNCHANGED <<server, spent, unkept, faults>>

(* A 401: the page refreshes once and then logs out.                       *)
Unauthorized(c) ==
    /\ At(c, "auth") /\ calls[c].tok <= now
    /\ IF ~calls[c].here THEN End(c, Without(c))
       ELSE IF calls[c].try = 1
       THEN /\ calls' = [calls EXCEPT ![c] =
                  [@ EXCEPT !.pc = "check", !.body = refresh, !.stale = refresh \in spent]]
            /\ Stay
       ELSE End(c, WithLogout(Without(c)))
    /\ UNCHANGED <<server, spent, unkept, faults>>

(* POST /auth/refresh up to the check of the blocklist.                    *)
RefreshValid(c, unread) ==
    /\ At(c, "check") /\ Validate(c, unread)
    /\ calls' = [calls EXCEPT ![c] = [@ EXCEPT !.pc = "mint", !.unread = unread]]
    /\ UNCHANGED <<server, access, refresh, ghosts>>

RefreshRefused(c) ==
    /\ At(c, "check") /\ Rejected(c)
    /\ IF calls[c].here THEN Refetch(c, WithLogout(calls), access) /\ Stay ELSE End(c, Without(c))
    /\ UNCHANGED <<server, spent, unkept, faults>>

(* The rest of it: the token is blocked and the page gets an access token, *)
(* unless the answer is lost.                                              *)
Mint(c, answered) ==
    /\ At(c, "mint")
    /\ BlockRefreshed(calls[c].body)
    /\ spent' = spent \cup {calls[c].body}
    /\ IF ~calls[c].here THEN End(c, Without(c))
       ELSE /\ access' = IF answered THEN MakeToken(AccessTTL) ELSE access
            /\ Refetch(c, calls, access')
            /\ UNCHANGED <<refresh, out>>
    /\ UNCHANGED <<now, expiry>>

LoseAnswer(c) ==
    /\ calls[c] # Idle /\ calls[c].here
    /\ Mint(c, FALSE)

(* Logout: RevokeAdminToken up to the check of the blocklist; the handler  *)
(* answers 200 whatever it returns.                                        *)
RevokeValid(c, unread) ==
    /\ At(c, "revoke") /\ Validate(c, unread)
    /\ calls' = [calls EXCEPT ![c] = [@ EXCEPT !.pc = "block", !.unread = unread]]
    /\ UNCHANGED <<server, access, refresh, ghosts>>

RevokeRefused(c) ==
    /\ At(c, "revoke") /\ Rejected(c)
    /\ End(c, Without(c))
    /\ UNCHANGED <<server, spent, unkept, faults>>

Revoke(c) ==
    /\ At(c, "block")
    /\ BlockJWT(calls[c].body)
    /\ spent' = spent \cup {calls[c].body}
    /\ End(c, Without(c))
    /\ UNCHANGED <<now, expiry>>

CallStep(c) ==
    \/ Authorized(c) \/ Unauthorized(c)
    \/ RefreshValid(c, FALSE) \/ RefreshRefused(c) \/ Mint(c, TRUE)
    \/ RevokeValid(c, FALSE) \/ RevokeRefused(c) \/ Revoke(c)

(* The request is lost: fetch throws. tryRefresh swallows that, doLogout   *)
(* too, and a page shows its error.                                        *)
Throw(c) ==
    /\ calls[c] # Idle /\ calls[c].here /\ Fault
    /\ unkept' = IF calls[c].op = "logout" THEN unkept \cup {calls[c].body} ELSE unkept
    /\ IF calls[c].pc \in {"check", "mint"} THEN Refetch(c, calls, access) /\ Stay ELSE End(c, Without(c))
    /\ UNCHANGED <<server, spent>>

(* A request whose page is gone may stop with its connection.              *)
Abandon(c) ==
    /\ calls[c] # Idle /\ ~calls[c].here
    /\ End(c, Without(c))
    /\ UNCHANGED <<server, spent, unkept, faults>>

-----------------------------------------------------------------------------
(* The environment.                                                        *)

Tick ==
    /\ now < MaxTime
    /\ now' = now + 1
    /\ UNCHANGED <<expiry, block, page, ghosts, faults>>

(* The blocklist lives in the Redis with allkeys-lru.                      *)
Evict(n) ==
    /\ Blocked(n) /\ Fault
    /\ block' = [block EXCEPT ![n] = 0]
    /\ unkept' = unkept \cup {n}
    /\ UNCHANGED <<now, expiry, page, spent, out>>

Next ==
    \/ Tick
    \/ \E n \in Logins : Login(n) \/ Evict(n)
    \/ \E c \in Calls :
          \/ \E op \in {"page", "logout"} : StartCall(c, op)
          \/ CallStep(c)
          \/ RefreshValid(c, TRUE) \/ RevokeValid(c, TRUE) \/ LoseAnswer(c)
          \/ Throw(c) \/ Abandon(c)

(* A request is answered or fails in the end.                              *)
Spec == Init /\ [][Next]_vars /\ \A c \in Calls : WF_vars(CallStep(c))

-----------------------------------------------------------------------------
(* Properties.                                                             *)

(* Every variable stays in its type, and a call that the page waits for    *)
(* carries the tokens of the session on the screen.                        *)
TypeOK ==
    /\ now \in 1 .. MaxTime
    /\ expiry \in [Logins -> 0 .. MaxTime + RefreshTTL]
    /\ block \in [Logins -> 0 .. MaxTime + RefreshTTL]
    /\ access \in 0 .. MaxTime + AccessTTL
    /\ refresh \in 0 .. MaxLogins
    /\ calls \in [Calls -> Call \cup {Idle}]
    /\ faults \in 0 .. MaxFaults
    /\ spent \subseteq Logins /\ out \subseteq Logins /\ unkept \subseteq Logins
    /\ \A c \in Calls : calls[c] # Idle /\ calls[c].here => refresh # 0 /\ calls[c].body = refresh

(* Between the check of the blocklist and the block another request may    *)
(* use the same refresh token, but only one that was already under way: a  *)
(* token a refresh or a logout has used up is refused from then until it   *)
(* expires, unless Redis lost its entry or could not be read.              *)
SpentStaysSpent ==
    \A c \in Calls : (At(c, "mint") \/ At(c, "block")) /\ calls[c].stale =>
        calls[c].unread \/ calls[c].body \in unkept

(* The logout endpoint itself needs a good access token and answers 200    *)
(* whatever RevokeAdminToken returns. Still a session the page has ended   *)
(* cannot be refreshed: its token is blocked until it expires, whichever   *)
(* way the logout went, unless a request or a Redis command failed.        *)
LogoutRevokes == \A n \in out : Blocked(n) \/ expiry[n] <= now \/ n \in unkept

(* doLogout calls apiFetch, which calls doLogout on a 401, directly and    *)
(* through tryRefresh: the page still reaches the login screen.            *)
LoggingOut == \E c \in Calls : calls[c] # Idle /\ calls[c].here /\ calls[c].op = "logout"
LogoutCompletes == LoggingOut ~> refresh = 0
=============================================================================
