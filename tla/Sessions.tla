------------------------------- MODULE Sessions -------------------------------
(***************************************************************************)
(* Sessions and access tokens of one server, with the login module as an   *)
(* external party (app/api/auth, app/auth, app/database/session_store.go). *)
(*                                                                         *)
(* A login stores a session with a refresh token and an access token.      *)
(* Refreshing asks the login module for new tokens: it revokes the refresh *)
(* token that was used, so two requests for one session must not use the   *)
(* same one.  A lock of the process keeps them apart.  Temporary users     *)
(* have one session without a refresh token, and disappear after it.       *)
(***************************************************************************)
EXTENDS Integers, FiniteSets, FiniteSetsExt

CONSTANTS
  Regular, Temporary,  \* possible users of each kind
  SessionIds,          \* possible ids of sessions, random in the code
  TokenRequests,            \* requests in progress at the same time
  MaxSessions,         \* sessions a login keeps (10 in the code)
  Lifetime,            \* until an access token expires
  LastInstant,         \* bound on the instants considered
  MaxTokens,           \* bound on the tokens issued
  NoRefreshToken

ASSUME SessionsAssumption == Regular \cap Temporary = {}

VARIABLES
  accounts,     \* rows of users
  linked,       \* users the login module has linked to this platform
  owner,        \* rows of sessions: session id -> user
  refreshToken, \* session id -> sessions.refresh_token
  tokens,       \* rows of access_tokens: [id, session, issued, expires]
  issuedTokens, \* access tokens issued so far
  current,      \* session id -> the refresh token the login module accepts
  request,      \* per request, where it is and what it read
  sessionLocks, \* sessionIDsInProgress
  instant,      \* NOW()
  stranded      \* history: sessions whose new refresh token was not stored

sessionVars == <<accounts, linked, owner, refreshToken, tokens, issuedTokens, current,
                 request, sessionLocks, instant, stranded>>

AllUsers == Regular \union Temporary
Open == DOMAIN owner
SessionsOf(u) == {s \in Open : owner[s] = u}
TokensOf(s) == {t \in tokens : t.session = s}
IsValid(t) == instant < t.expires

Idle == [pc |-> "idle"]
Restricted(f, S) == [x \in S |-> f[x]]
WithRow(f, s, v) == [x \in DOMAIN f \union {s} |-> IF x = s THEN v ELSE f[x]]

NewToken(s) == [id |-> issuedTokens + 1, session |-> s, issued |-> instant,
                expires |-> instant + Lifetime]

\* ON DELETE CASCADE from users to sessions and access_tokens.
DropSessions(gone) ==
  /\ owner' = Restricted(owner, Open \ gone)
  /\ refreshToken' = Restricted(refreshToken, Open \ gone)
  /\ tokens' = {t \in tokens : t.session \notin gone}

SessionsInit ==
  /\ accounts = {} /\ linked = {} /\ tokens = {} /\ issuedTokens = 0
  /\ owner = <<>> /\ refreshToken = <<>> /\ current = <<>>
  /\ request = [r \in TokenRequests |-> Idle]
  /\ sessionLocks = {} /\ instant = 0 /\ stranded = {}

-----------------------------------------------------------------------------
(* Logging in.                                                             *)

\* Ids are random: one that was never used.
Unused(s) == s \notin DOMAIN current

LastIssued(ts, s) == Max({t.issued : t \in {x \in ts : x.session = s}} \union {-1})

\* Sessions beyond the maximum, those with the oldest tokens (or none) first;
\* ORDER BY issued_at DESC, session_id.
SessionsToDelete(own, ts, u) ==
  LET before(a, b) == \/ LastIssued(ts, a) > LastIssued(ts, b)
                      \/ LastIssued(ts, a) = LastIssued(ts, b) /\ a < b
      mine == {s \in DOMAIN own : own[s] = u}
  IN {s \in mine : Cardinality({z \in mine : before(z, s)}) >= MaxSessions}

createOrUpdateUser(u) == accounts' = accounts \union {u}

\* createAccessToken with a code: the user is created or updated, a session
\* stored and the oldest sessions deleted in one transaction, after the login
\* module answered.
Login(u, s) ==
  /\ u \in Regular /\ Unused(s) /\ issuedTokens < MaxTokens
  /\ createOrUpdateUser(u)
  /\ linked' = linked \union {u}
  /\ current' = WithRow(current, s, 1)
  /\ issuedTokens' = issuedTokens + 1
  /\ LET own == WithRow(owner, s, u)
         ts == tokens \union {NewToken(s)}
         gone == SessionsToDelete(own, ts, u)
     IN /\ owner' = Restricted(own, DOMAIN own \ gone)
        /\ refreshToken' = Restricted(WithRow(refreshToken, s, 1), DOMAIN own \ gone)
        /\ tokens' = {t \in ts : t.session \notin gone}
  /\ UNCHANGED <<request, sessionLocks, instant, stranded>>

CreateTempUser(u, s) ==
  /\ u \in Temporary \ accounts /\ Unused(s) /\ issuedTokens < MaxTokens
  /\ accounts' = accounts \union {u}
  /\ owner' = WithRow(owner, s, u)
  /\ refreshToken' = WithRow(refreshToken, s, NoRefreshToken)
  /\ current' = WithRow(current, s, NoRefreshToken)
  /\ tokens' = tokens \union {NewToken(s)} /\ issuedTokens' = issuedTokens + 1
  /\ UNCHANGED <<linked, request, sessionLocks, instant, stranded>>

-----------------------------------------------------------------------------
(* Refreshing, one action per step between which others may come.          *)

\* ValidatesUserAuthentication.
Authenticate(r, t) ==
  /\ request[r] = Idle
  /\ t \in tokens /\ IsValid(t)
  /\ request' = [request EXCEPT ![r] = [pc |-> "newest", token |-> t]]
  /\ UNCHANGED <<accounts, linked, owner, refreshToken, tokens, issuedTokens, current,
                 sessionLocks, instant, stranded>>

SessionOf(r) == request[r].token.session
At(r, pc) == request[r].pc = pc
Goto(r, pc) == request' = [request EXCEPT ![r].pc = pc]
Finished(r) == request' = [request EXCEPT ![r] = Idle]

\* The newest token of the session is returned when it is another one, or too
\* new; an error when the session is gone.
ReadNewestToken(r) ==
  /\ At(r, "newest")
  /\ LET own == TokensOf(SessionOf(r))
         next(t) == IF t # request[r].token \/ t.issued = instant THEN Finished(r)
                    ELSE Goto(r, IF owner[SessionOf(r)] \in Temporary THEN "temp" ELSE "lock")
     IN IF own = {} THEN Finished(r)
        ELSE \E newest \in {t \in own : \A x \in own : x.expires <= t.expires} : next(newest)
  /\ UNCHANGED <<accounts, linked, owner, refreshToken, tokens, issuedTokens, current,
                 sessionLocks, instant, stranded>>

\* RefreshTempUserSession; it fails when the session was deleted meanwhile.
RefreshTempUserSession(r) ==
  /\ At(r, "temp") /\ issuedTokens < MaxTokens
  /\ IF SessionOf(r) \in Open
     THEN /\ tokens' = tokens \union {NewToken(SessionOf(r))}
          /\ issuedTokens' = issuedTokens + 1
          /\ Goto(r, "clean")
     ELSE Finished(r) /\ UNCHANGED <<tokens, issuedTokens>>
  /\ UNCHANGED <<accounts, linked, owner, refreshToken, current, sessionLocks, instant, stranded>>

\* Mutant: nobody is waited for.
MayEnter(r) == TRUE

\* LoadOrStore of a mutex of the session succeeds.
LockIsFree(r) == SessionOf(r) \notin sessionLocks

WithLock(r) ==
  /\ At(r, "lock")
  /\ LockIsFree(r)
  /\ sessionLocks' = sessionLocks \union {SessionOf(r)}
  /\ Goto(r, "read")
  /\ UNCHANGED <<accounts, linked, owner, refreshToken, tokens, issuedTokens, current,
                 instant, stranded>>

\* The request is cancelled or times out while it waits.
Cancel(r) ==
  /\ At(r, "lock") /\ ~LockIsFree(r)
  /\ Finished(r)
  /\ UNCHANGED <<accounts, linked, owner, refreshToken, tokens, issuedTokens, current,
                 sessionLocks, instant, stranded>>

Release(r) == sessionLocks' = sessionLocks \ {SessionOf(r)}

ReadRefreshToken(r) ==
  /\ At(r, "read")
  /\ IF SessionOf(r) \in Open
     THEN /\ request' = [request EXCEPT ![r] = [pc |-> "exchange", token |-> @.token,
                                                refresh |-> refreshToken[SessionOf(r)]]]
          /\ UNCHANGED sessionLocks
     ELSE Finished(r) /\ Release(r)
  /\ UNCHANGED <<accounts, linked, owner, refreshToken, tokens, issuedTokens, current,
                 instant, stranded>>

\* The login module gives a new pair of tokens for the refresh token it
\* accepts, and revokes it.
Exchange(r) ==
  /\ At(r, "exchange") /\ request[r].refresh = current[SessionOf(r)]
  /\ current' = [current EXCEPT ![SessionOf(r)] = @ + 1]
  /\ Goto(r, "store")
  /\ UNCHANGED <<accounts, linked, owner, refreshToken, tokens, issuedTokens, sessionLocks,
                 instant, stranded>>

\* It refuses a revoked one, or is not reached.
ExchangeFails(r) ==
  /\ At(r, "exchange")
  /\ Finished(r) /\ Release(r)
  /\ UNCHANGED <<accounts, linked, owner, refreshToken, tokens, issuedTokens, current,
                 instant, stranded>>

\* The new tokens are stored if the session still exists (foreign key).
StoreTokens(r) ==
  /\ At(r, "store") /\ issuedTokens < MaxTokens
  /\ Release(r)
  /\ IF SessionOf(r) \in Open
     THEN /\ refreshToken' = [refreshToken EXCEPT ![SessionOf(r)] = request[r].refresh + 1]
          /\ tokens' = tokens \union {NewToken(SessionOf(r))}
          /\ issuedTokens' = issuedTokens + 1
          /\ Goto(r, "clean")
     ELSE Finished(r) /\ UNCHANGED <<refreshToken, tokens, issuedTokens>>
  /\ UNCHANGED <<accounts, linked, owner, current, instant, stranded>>

\* The answer of the login module is lost, or the database fails.
StoreFails(r) ==
  /\ At(r, "store")
  /\ Finished(r) /\ Release(r)
  /\ stranded' = stranded \union {SessionOf(r)}
  /\ UNCHANGED <<accounts, linked, owner, refreshToken, tokens, issuedTokens, current, instant>>

DeleteExpiredTokensOfUser(r) ==
  /\ At(r, "clean")
  /\ LET mine == IF SessionOf(r) \in Open THEN SessionsOf(owner[SessionOf(r)]) ELSE {}
     IN tokens' = {t \in tokens : t.session \in mine => IsValid(t)}
  /\ Finished(r)
  /\ UNCHANGED <<accounts, linked, owner, refreshToken, issuedTokens, current, sessionLocks,
                 instant, stranded>>

-----------------------------------------------------------------------------
(* Logging out and deletion.                                               *)

Logout(t) ==
  /\ t \in tokens /\ IsValid(t)
  /\ DropSessions({t.session})
  /\ UNCHANGED <<accounts, linked, issuedTokens, current, request, sessionLocks, instant, stranded>>

\* The user deletes itself: everything here first, then the link in the login
\* module, unless the user is temporary.  It is refused while a lock on a
\* membership is in force; memberships are not part of this module, so any
\* call may be refused, and none has to be made.
DeleteCurrentUser(r, t) ==
  /\ request[r] = Idle
  /\ t \in tokens /\ IsValid(t)
  /\ LET u == owner[t.session]
     IN /\ accounts' = accounts \ {u}
        /\ DropSessions(SessionsOf(u))
        /\ request' = IF u \in Temporary THEN request
                      ELSE [request EXCEPT ![r] = [pc |-> "unlink", token |-> t, user |-> u]]
  /\ UNCHANGED <<linked, issuedTokens, current, sessionLocks, instant, stranded>>

\* UnlinkClient, which may fail.
UnlinkClient(r) ==
  /\ At(r, "unlink")
  /\ linked' \in {linked, linked \ {request[r].user}}
  /\ Finished(r)
  /\ UNCHANGED <<accounts, owner, refreshToken, tokens, issuedTokens, current, sessionLocks,
                 instant, stranded>>

\* DeleteTemporaryWithTraps: LEFT JOIN on the sessions and on their live
\* tokens; a row without a token selects the user.
IsAbandoned(u) ==
  /\ u \in Temporary \intersect accounts
  /\ \/ SessionsOf(u) = {}
     \/ \E s \in SessionsOf(u) : ~\E t \in TokensOf(s) : IsValid(t)

\* One batch of the command delete-temp-users.
DeleteTempUsers ==
  LET gone == {u \in accounts : IsAbandoned(u)}
  IN /\ gone # {}
     /\ accounts' = accounts \ gone
     /\ DropSessions(UNION {SessionsOf(u) : u \in gone})
     /\ UNCHANGED <<linked, issuedTokens, current, request, sessionLocks, instant, stranded>>

-----------------------------------------------------------------------------
Clock ==
  /\ instant < LastInstant
  /\ instant' = instant + 1
  /\ UNCHANGED <<accounts, linked, owner, refreshToken, tokens, issuedTokens, current, request,
                 sessionLocks, stranded>>

\* The server dies with its requests and its locks.
ServerDies ==
  /\ \E r \in TokenRequests : request[r] # Idle
  /\ request' = [r \in TokenRequests |-> Idle]
  /\ sessionLocks' = {}
  /\ stranded' = stranded \union {SessionOf(r) : r \in {q \in TokenRequests : At(q, "store")}}
  /\ UNCHANGED <<accounts, linked, owner, refreshToken, tokens, issuedTokens, current, instant>>

SessionsNext ==
  \/ \E u \in Regular, s \in SessionIds : Login(u, s)
  \/ \E u \in Temporary, s \in SessionIds : CreateTempUser(u, s)
  \/ \E r \in TokenRequests, t \in tokens : Authenticate(r, t)
  \/ \E r \in TokenRequests : ReadNewestToken(r)
  \/ \E r \in TokenRequests : RefreshTempUserSession(r)
  \/ \E r \in TokenRequests : WithLock(r)
  \/ \E r \in TokenRequests : Cancel(r)
  \/ \E r \in TokenRequests : ReadRefreshToken(r)
  \/ \E r \in TokenRequests : Exchange(r)
  \/ \E r \in TokenRequests : ExchangeFails(r)
  \/ \E r \in TokenRequests : StoreTokens(r)
  \/ \E r \in TokenRequests : StoreFails(r)
  \/ \E r \in TokenRequests : DeleteExpiredTokensOfUser(r)
  \/ \E t \in tokens : Logout(t)
  \/ \E r \in TokenRequests, t \in tokens : DeleteCurrentUser(r, t)
  \/ \E r \in TokenRequests : UnlinkClient(r)
  \/ DeleteTempUsers
  \/ Clock
  \/ ServerDies

SessionsSpec == SessionsInit /\ [][SessionsNext]_sessionVars

-----------------------------------------------------------------------------
\* Foreign keys: sessions are of existing users and tokens of existing
\* sessions, so that a session that was ended is never usable again; a
\* temporary user has at most one session.
SessionsTypeOK ==
  /\ accounts \subseteq AllUsers
  /\ Open \subseteq SessionIds /\ DOMAIN refreshToken = Open
  /\ \A s \in Open : owner[s] \in accounts
  /\ \A t \in tokens : t.session \in Open
  /\ \A u \in Temporary : Cardinality(SessionsOf(u)) <= 1

\* A refresh never presents a revoked refresh token to the login module: what
\* a request read in the lock is what the login module accepts, and so is what
\* the sessions table holds when no request is in the lock.  Excepted are the
\* sessions whose new token was lost by a failure or a crash.
RefreshUsesAcceptedToken ==
  \A s \in Open \ stranded :
    /\ \A r \in TokenRequests : At(r, "exchange") /\ SessionOf(r) = s => request[r].refresh = current[s]
    /\ s \notin sessionLocks => refreshToken[s] = current[s]

=============================================================================
