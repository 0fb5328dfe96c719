-------------------------------- MODULE Sessions --------------------------------
(***************************************************************************)
(* Refresh-token rotation: the auth service with its Redis blocklist, and   *)
(* the two clients of the storefront that refresh.                          *)
(*                                                                         *)
(* A Browser is a NextAuth session: its jwt callback refreshes on the       *)
(* server and keeps the new access token.  A Caller passes refreshToken and *)
(* onTokenRefreshed to apiFetch and keeps what the callback is given.       *)
(*                                                                         *)
(* RefreshTokensUseCase takes no lock: its Redis commands of several        *)
(* requests interleave, and the clock runs on between them.                 *)
(***************************************************************************)
EXTENDS Integers, Sequences

CONSTANTS
  User,
  Seeded,     \* users whose accounts exist: the admins of SeedAdminCommand, or earlier ones
  Browser,    \* NextAuth sessions
  Caller,     \* callers of apiFetch that follow its contract
  Owner,      \* Owner[c]: the user signed in at c
  Request,    \* requests a client may have in flight at once: tabs, prefetches, polls
  Asker,      \* Asker[r]: the client that sends r
  AccessTtl, RefreshTtl,  \* JWT_ACCESS_TTL_SECONDS, JWT_REFRESH_TTL_SECONDS, in ticks
  MaxClock, MaxPairs, MaxFaults  \* bounds of one behaviour

Client == Browser \union Caller

ASSUME SessionsAssumption ==
  /\ Seeded \subseteq User
  /\ Browser \intersect Caller = {}
  /\ Owner \in [Client -> User] /\ Asker \in [Request -> Client]
  /\ AccessTtl \in Nat \ {0} /\ RefreshTtl \in Nat /\ AccessTtl <= RefreshTtl
  /\ MaxClock \in Nat /\ MaxPairs \in Nat /\ MaxFaults \in Nat

VARIABLES
  clock,
  accounts,   \* users who have registered
  pairs,      \* token pairs in the order they were signed
  blocked,    \* blocked[t]: when the blocklist key of t's jti expires
  revoked,    \* revoked[u]: when the key of blockAllForUser(u) expires
  pc,         \* pc[r]: where request r is in execute
  token,      \* token[r]: the refresh token r presents
  answer,     \* answer[r]: the pair signed for r
  stored,     \* stored[c]: the refresh token c keeps; 0 when signed out
  access,     \* access[c]: the pair whose access token c uses
  expired,    \* expired[c]: session.error = AccessTokenExpired, or AuthRedirectError
  contended,  \* tokens that two parties used at once
  faults

requestVars == <<pc, token, answer>>
clientVars == <<stored, access, expired>>
vars == <<clock, accounts, pairs, blocked, revoked, requestVars, clientVars, contended, faults>>

NoToken == 0
Token == 1..Len(pairs)

InHand == {"present", "verified", "unrevoked", "reused", "fresh", "rotated"}
InFlight(r) == pc[r] # "idle"
Busy(c) == \E r \in Request : InFlight(r) /\ Asker[r] = c

UserOf(t) == pairs[t].user
RefreshExp(t) == pairs[t].iat + RefreshTtl
AccessExp(t) == pairs[t].iat + AccessTtl
Revoked(u) == clock < revoked[u]
Blocked(t) == clock < blocked[t]

Init ==
  /\ clock = 0
  /\ accounts = Seeded
  /\ pairs = << >>
  /\ blocked = [t \in 1..MaxPairs |-> 0]
  /\ revoked = [u \in User |-> 0]
  /\ pc = [r \in Request |-> "idle"]
  /\ token = [r \in Request |-> NoToken]
  /\ answer = [r \in Request |-> NoToken]
  /\ stored = [c \in Client |-> NoToken]
  /\ access = [c \in Client |-> NoToken]
  /\ expired = [c \in Client |-> FALSE]
  /\ contended = {}
  /\ faults = 0

Fault == faults < MaxFaults /\ faults' = faults + 1

(* Mutant: the blocklist keys live as long as an access token. *)
KeyExpiryTooShort(t) == AccessExp(t)

(* block and blockAllForUser set a key that lives as long as the token. *)
KeyExpiry(t) == RefreshExp(t)

(* signTokenPair for the request that presents parent, or for a login. *)
SignTokenPair(u, parent) ==
  /\ Len(pairs) < MaxPairs
  /\ pairs' = Append(pairs, [user |-> u, parent |-> parent, iat |-> clock])

(* block(jti, exp): no key once the token has expired. *)
Block(t) == blocked' = IF clock < RefreshExp(t) THEN [blocked EXCEPT ![t] = KeyExpiry(t)] ELSE blocked

Tick ==
  /\ clock < MaxClock
  /\ clock' = clock + 1
  /\ UNCHANGED <<accounts, pairs, blocked, revoked, requestVars, clientVars, contended, faults>>
--------------------------------------------------------------------------------
(* Clients. *)

(* POST /auth/register: a second one for the address is refused.  The form of the storefront *)
(* drops the pair and signs in; an error after the create leaves the account.               *)
Register(c) ==
  /\ Owner[c] \notin accounts
  /\ accounts' = accounts \union {Owner[c]}
  /\ \/ SignTokenPair(Owner[c], NoToken) /\ UNCHANGED faults
     \/ Fault /\ UNCHANGED pairs
  /\ LET signedIn == c \in Caller /\ pairs' # pairs IN
       /\ stored' = IF signedIn THEN [stored EXCEPT ![c] = Len(pairs')] ELSE stored
       /\ access' = IF signedIn THEN [access EXCEPT ![c] = Len(pairs')] ELSE access
  /\ UNCHANGED <<clock, blocked, revoked, requestVars, expired, contended>>

(* authorize: the login form, or the login of an API client. *)
SignIn(c) ==
  /\ Owner[c] \in accounts
  /\ stored[c] = NoToken \/ expired[c]
  /\ ~Busy(c)
  /\ SignTokenPair(Owner[c], NoToken)
  /\ stored' = [stored EXCEPT ![c] = Len(pairs) + 1]
  /\ access' = [access EXCEPT ![c] = Len(pairs) + 1]
  /\ expired' = [expired EXCEPT ![c] = FALSE]
  /\ UNCHANGED <<clock, accounts, blocked, revoked, requestVars, contended, faults>>

(* signOut of NextAuth drops the cookie; the storefront does not call /auth/logout. *)
SignOut(b) ==
  /\ b \in Browser /\ stored[b] # NoToken /\ ~Busy(b)
  /\ stored' = [stored EXCEPT ![b] = NoToken]
  /\ access' = [access EXCEPT ![b] = NoToken]
  /\ expired' = [expired EXCEPT ![b] = FALSE]
  /\ UNCHANGED <<clock, accounts, pairs, blocked, revoked, requestVars, contended, faults>>

(* POST /auth/logout, which swallows every error. *)
Logout(c) ==
  /\ c \in Caller /\ stored[c] # NoToken
  /\ \/ Block(stored[c]) /\ UNCHANGED faults
     \/ Fault /\ UNCHANGED blocked
  /\ stored' = [stored EXCEPT ![c] = NoToken]
  /\ access' = [access EXCEPT ![c] = NoToken]
  /\ expired' = [expired EXCEPT ![c] = FALSE]
  /\ contended' = IF Busy(c) THEN contended \union {stored[c]} ELSE contended
  /\ UNCHANGED <<clock, accounts, pairs, revoked, requestVars>>

(* The jwt callback past the expiry of the access token (its window of 60 s is below a *)
(* tick), or apiFetch after a 401.                                                     *)
Present(r) ==
  LET c == Asker[r] IN
    /\ pc[r] = "idle"
    /\ stored[c] # NoToken
    /\ clock >= AccessExp(access[c])
    /\ pc' = [pc EXCEPT ![r] = "present"]
    /\ token' = [token EXCEPT ![r] = stored[c]]
    /\ contended' = IF \E q \in Request : token[q] = stored[c]
                    THEN contended \union {stored[c]} ELSE contended
    /\ UNCHANGED <<clock, accounts, pairs, blocked, revoked, answer, clientVars, faults>>

(* Mutant: onTokenRefreshed keeps only the access token. *)
KeepsOnlyAccess(c, old, new) == old

(* What the client keeps as its refresh token: the jwt callback never assigns it. *)
KeepsRefresh(c, old, new) == IF c \in Caller THEN new ELSE old

Return(r) ==
  /\ pc' = [pc EXCEPT ![r] = "idle"]
  /\ token' = [token EXCEPT ![r] = NoToken]
  /\ answer' = [answer EXCEPT ![r] = NoToken]

(* The answer arrives.  A session that was ended meanwhile is left alone. *)
Answer(r) ==
  /\ pc[r] \in {"granted", "refused"}
  /\ Return(r)
  /\ LET c == Asker[r] IN
       IF pc[r] = "granted" /\ stored[c] # NoToken
       THEN /\ stored' = [stored EXCEPT ![c] = KeepsRefresh(c, @, answer[r])]
            /\ access' = [access EXCEPT ![c] = answer[r]]
            /\ expired' = [expired EXCEPT ![c] = FALSE]
       ELSE /\ expired' = [expired EXCEPT ![c] = stored[c] # NoToken]
            /\ UNCHANGED <<stored, access>>
  /\ UNCHANGED <<clock, accounts, pairs, blocked, revoked, contended, faults>>

(* The request or its answer is lost; a server component that refreshed cannot set the cookie. *)
AnswerLost(r) ==
  /\ InFlight(r) /\ pc[r] \notin InHand
  /\ Fault
  /\ Return(r)
  /\ expired' = [expired EXCEPT ![Asker[r]] = stored[Asker[r]] # NoToken]
  /\ UNCHANGED <<clock, accounts, pairs, blocked, revoked, stored, access, contended>>
--------------------------------------------------------------------------------
(* RefreshTokensUseCase.execute. *)

Goto(r, from, to) == pc[r] = from /\ pc' = [pc EXCEPT ![r] = to]

VerifyRefresh(r) ==
  /\ Goto(r, "present", IF clock < RefreshExp(token[r]) THEN "verified" ELSE "refused")
  /\ UNCHANGED <<clock, accounts, pairs, blocked, revoked, token, answer, clientVars, contended, faults>>

(* Mutant: the old jti is blocked before the blocklist is read. *)
IsUserSessionRevokedThenBlock(r) ==
  /\ Goto(r, "verified", IF Revoked(UserOf(token[r])) THEN "refused" ELSE "unrevoked")
  /\ Block(token[r])
  /\ UNCHANGED <<clock, accounts, pairs, revoked, token, answer, clientVars, contended, faults>>

IsUserSessionRevoked(r) ==
  /\ Goto(r, "verified", IF Revoked(UserOf(token[r])) THEN "refused" ELSE "unrevoked")
  /\ UNCHANGED <<clock, accounts, pairs, blocked, revoked, token, answer, clientVars, contended, faults>>

IsBlocked(r) ==
  /\ Goto(r, "unrevoked", IF Blocked(token[r]) THEN "reused" ELSE "fresh")
  /\ UNCHANGED <<clock, accounts, pairs, blocked, revoked, token, answer, clientVars, contended, faults>>

BlockAllForUser(r) ==
  /\ Goto(r, "reused", "refused")
  /\ revoked' = IF clock < RefreshExp(token[r])
                THEN [revoked EXCEPT ![UserOf(token[r])] = KeyExpiry(token[r])] ELSE revoked
  /\ UNCHANGED <<clock, accounts, pairs, blocked, token, answer, clientVars, contended, faults>>

(* findById, and the rotation. *)
Rotate(r) ==
  /\ Goto(r, "fresh", "rotated")
  /\ UserOf(token[r]) \in accounts
  /\ Block(token[r])
  /\ UNCHANGED <<clock, accounts, pairs, revoked, token, answer, clientVars, contended, faults>>

Sign(r) ==
  /\ Goto(r, "rotated", "granted")
  /\ SignTokenPair(UserOf(token[r]), token[r])
  /\ answer' = [answer EXCEPT ![r] = Len(pairs) + 1]
  /\ UNCHANGED <<clock, accounts, blocked, revoked, token, clientVars, contended, faults>>

(* A Redis command or the process fails: the client gets an error. *)
ServerFails(r) ==
  /\ pc[r] \in InHand
  /\ Fault
  /\ pc' = [pc EXCEPT ![r] = "refused"]
  /\ UNCHANGED <<clock, accounts, pairs, blocked, revoked, token, answer, clientVars, contended>>

Execute(r) ==
  \/ VerifyRefresh(r) \/ IsUserSessionRevoked(r) \/ IsBlocked(r)
  \/ BlockAllForUser(r) \/ Rotate(r) \/ Sign(r)

Next ==
  \/ Tick
  \/ \E c \in Client : Register(c) \/ SignIn(c) \/ SignOut(c) \/ Logout(c)
  \/ \E r \in Request : Present(r) \/ Execute(r) \/ ServerFails(r) \/ Answer(r) \/ AnswerLost(r)

Spec == Init /\ [][Next]_vars
--------------------------------------------------------------------------------
Pc == InHand \union {"idle", "granted", "refused"}

(* Type correctness of the service and its clients, with what being idle and being signed out fix. *)
TypeOK ==
  /\ clock \in 0..MaxClock
  /\ accounts \subseteq User
  /\ \A t \in Token : UserOf(t) \in accounts
  /\ pairs \in Seq([user : User, parent : 0..MaxPairs, iat : 0..MaxClock]) /\ Len(pairs) <= MaxPairs
  /\ blocked \in [1..MaxPairs -> Nat] /\ revoked \in [User -> Nat]
  /\ pc \in [Request -> Pc]
  /\ token \in [Request -> {NoToken} \union Token] /\ answer \in [Request -> {NoToken} \union Token]
  /\ stored \in [Client -> {NoToken} \union Token] /\ access \in [Client -> {NoToken} \union Token]
  /\ expired \in [Client -> BOOLEAN]
  /\ contended \subseteq Token
  /\ faults \in 0..MaxFaults
  /\ \A r \in Request : (pc[r] = "idle" <=> token[r] = NoToken) /\ (pc[r] = "granted" <=> answer[r] # NoToken)
  /\ \A c \in Client : (stored[c] = NoToken <=> access[c] = NoToken) /\ (expired[c] => stored[c] # NoToken)

(* A refresh token buys one new pair.  RefreshTokensUseCase asks isBlocked and blocks in two  *)
(* commands, so two pairs for one token take two requests with it in flight at once, or one   *)
(* that was verified in time and reads the blocklist when the key has expired with the token. *)
OnlyOverlapForks ==
  \A i, j \in Token :
    i < j /\ pairs[i].parent = pairs[j].parent /\ pairs[i].parent # NoToken
      => pairs[i].parent \in contended \/ pairs[j].iat >= RefreshExp(pairs[i].parent)

(* Where a user has no browser session, no request failed or was lost and no token was used   *)
(* twice at once, rotation and its reuse detection never hit that user.                       *)
Untroubled(u) ==
  /\ \A c \in Browser : Owner[c] # u
  /\ faults = 0
  /\ \A t \in contended : UserOf(t) # u

RevocationHasCause == \A u \in User : Untroubled(u) => revoked[u] = 0

(* A caller that keeps what onTokenRefreshed gives it holds, whenever it is at rest, a token  *)
(* the blocklist does not have: its next refresh succeeds as long as the token lives.         *)
CallersKeepTheirSession ==
  \A c \in Caller :
    Untroubled(Owner[c]) /\ stored[c] # NoToken /\ ~Busy(c) => blocked[stored[c]] = 0
================================================================================
