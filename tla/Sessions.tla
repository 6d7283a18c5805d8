------------------------------ MODULE Sessions ------------------------------
(***************************************************************************)
(* Staying signed in: the tokens in the memory of a page, their refresh by *)
(* concurrent api() calls (apps/web: api/client.js, store/auth.js), and    *)
(* the sessions rows behind them (apps/core-banking-api:                   *)
(* services/session.js, routes/auth.js), for one customer.                 *)
(*                                                                         *)
(* The server knows a refresh token by its hash only, one row of sessions  *)
(* per token: the model uses the row for both.  Time is abstract: a token  *)
(* or a session may run out at any moment.                                 *)
(***************************************************************************)
EXTENDS Naturals

CONSTANTS
    Devices,        \* browser pages, each with its tokens in module memory
    Calls, Owner,   \* api() calls that may be in flight, and their page
    Tokens,         \* rows of sessions that may be inserted
    NoToken

ASSUME SessionAssumption == Owner \in [Calls -> Devices] /\ NoToken \notin Tokens

VARIABLES
    session,    \* the sessions rows
    page,       \* what a page shows and keeps in memory
    call,       \* the api() calls
    disturbed   \* observed only: pages whose refreshes overlapped or got lost

sessionVars == <<session, page, call, disturbed>>
-----------------------------------------------------------------------------
SessionRow == [family : Tokens \cup {NoToken}, status : {"none", "live", "revoked", "deleted"},
        reason : {"none", "rotated", "logout"}, expired : BOOLEAN]

(* step: what the page waits for; sent: the token of its login or logout.  *)
Page == [shows : {"login", "app"}, access : {"none", "valid", "expired"},
         refresh : Tokens \cup {NoToken}, sent : Tokens \cup {NoToken},
         step : {"idle", "login", "loggedIn", "logout", "loggedOut"}]

ApiCall == [step : {"idle", "unauthorized", "refreshing", "rotating", "rotated", "refused"},
            token : Tokens \cup {NoToken}, next : Tokens \cup {NoToken}]

SessionTypeOK ==
    /\ session \in [Tokens -> SessionRow]
    /\ page \in [Devices -> Page]
    /\ call \in [Calls -> ApiCall]
    /\ disturbed \subseteq Devices

SignedOut == [shows |-> "login", access |-> "none", refresh |-> NoToken,
              sent |-> NoToken, step |-> "idle"]
NoCall == [step |-> "idle", token |-> NoToken, next |-> NoToken]
NoRow == [family |-> NoToken, status |-> "none", reason |-> "none", expired |-> FALSE]

SessionInit ==
    /\ session = [t \in Tokens |-> NoRow]
    /\ page = [d \in Devices |-> SignedOut]
    /\ call = [c \in Calls |-> NoCall]
    /\ disturbed = {}
-----------------------------------------------------------------------------
Live(t) == session[t].status = "live" /\ ~session[t].expired

(* A variant of RowLocked without the row lock.                            *)
NeverLocked(t) == FALSE

(* SELECT ... FOR UPDATE: the rotation that read the row holds its lock.   *)
RowLocked(t) == \E c \in Calls : call[c].step = "rotating" /\ call[c].token = t

(* create: a row in a family of its own, or in the family given.           *)
NewRow(family) == [family |-> family, status |-> "live", reason |-> "none", expired |-> FALSE]
Fresh(t) == session[t].status = "none"

(* A variant of Revoked that writes the reason into the status.            *)
RevokedAs(t, why) == [session[t] EXCEPT !.status = why]

Revoked(t, why) == [session[t] EXCEPT !.status = "revoked", !.reason = why]

(* setTokens, clearTokens: the module memory of the page.                  *)
TokensSet(p, t) == [p EXCEPT !.access = "valid", !.refresh = t]
TokensCleared(p) == [p EXCEPT !.access = "none", !.refresh = NoToken]
-----------------------------------------------------------------------------
(* The login form posts once and waits for the answer.                     *)
LoginSubmit(d) ==
    /\ page[d].shows = "login" /\ page[d].step = "idle"
    /\ page' = [page EXCEPT ![d].step = "login"]
    /\ UNCHANGED <<session, call, disturbed>>

(* The credentials were accepted (module Access): sessions.create.         *)
LoginCreate(d) ==
    /\ page[d].step = "login"
    /\ \E t \in Tokens :
         /\ Fresh(t)
         /\ session' = [session EXCEPT ![t] = NewRow(t)]
         /\ page' = [page EXCEPT ![d] = [@ EXCEPT !.step = "loggedIn", !.sent = t]]
    /\ UNCHANGED <<call, disturbed>>

LoginAnswered(d) ==
    /\ page[d].step = "loggedIn"
    /\ page' = [page EXCEPT ![d] = [shows |-> "app", access |-> "valid", refresh |-> page[d].sent,
                                    sent |-> NoToken, step |-> "idle"]]
    /\ UNCHANGED <<session, call, disturbed>>

(* Refused, or the answer never came.                                      *)
LoginFailed(d) ==
    /\ page[d].step \in {"login", "loggedIn"}
    /\ page' = [page EXCEPT ![d] = [@ EXCEPT !.step = "idle", !.sent = NoToken]]
    /\ UNCHANGED <<session, call, disturbed>>
-----------------------------------------------------------------------------
(* api(): requireAuth looks at the signature and the age of the access     *)
(* token only, so that a first request gets 401 once it has expired.  A    *)
(* refused login is such a 401 as well, on a page that still has tokens.   *)
ApiUnauthorized(c) ==
    /\ call[c].step = "idle"
    /\ \/ page[Owner[c]].access = "expired"
       \/ page[Owner[c]].step = "login" /\ page[Owner[c]].refresh # NoToken
    /\ call' = [call EXCEPT ![c].step = "unauthorized"]
    /\ UNCHANGED <<session, page, disturbed>>

Refreshing(c) == call[c].step \notin {"idle", "unauthorized"}

(* refreshAccess sends the token that is in memory now, if there is one.   *)
RefreshSend(c) ==
    LET d == Owner[c] IN
    /\ call[c].step = "unauthorized"
    /\ page[d].refresh # NoToken
    /\ call' = [call EXCEPT ![c] = [@ EXCEPT !.step = "refreshing", !.token = page[d].refresh]]
    /\ disturbed' = IF \E o \in Calls : Owner[o] = d /\ Refreshing(o)
                    THEN disturbed \cup {d} ELSE disturbed
    /\ UNCHANGED <<session, page>>

RefreshImpossible(c) ==
    /\ call[c].step = "unauthorized"
    /\ page[Owner[c]].refresh = NoToken
    /\ call' = [call EXCEPT ![c] = NoCall]
    /\ UNCHANGED <<session, page, disturbed>>

(* rotate reads and locks the row of the token.                            *)
RotateRead(c) ==
    /\ call[c].step = "refreshing" /\ ~RowLocked(call[c].token)
    /\ Live(call[c].token)
    /\ call' = [call EXCEPT ![c].step = "rotating"]
    /\ UNCHANGED <<session, page, disturbed>>

(* A variant of RotateRefuse that commits the revocation of the family.    *)
RefuseAndRevoke(c) ==
    LET old == call[c].token IN
    /\ call[c].step = "refreshing" /\ ~RowLocked(old)
    /\ ~Live(old)
    /\ session' = [t \in Tokens |->
                     IF session[old].status = "revoked" /\ session[t].family = session[old].family
                        /\ session[t].status = "live"
                     THEN Revoked(t, "rotated") ELSE session[t]]
    /\ call' = [call EXCEPT ![c].step = "refused"]
    /\ UNCHANGED <<page, disturbed>>

(* A revoked row: the family is revoked, and the error that is thrown next *)
(* rolls this back.  A deleted or expired row is refused as well.          *)
RotateRefuse(c) ==
    /\ call[c].step = "refreshing" /\ ~RowLocked(call[c].token)
    /\ ~Live(call[c].token)
    /\ call' = [call EXCEPT ![c].step = "refused"]
    /\ UNCHANGED <<session, page, disturbed>>

(* The old row is revoked, the next one inserted, in one commit.           *)
RotateCommit(c) ==
    LET old == call[c].token IN
    /\ call[c].step = "rotating"
    /\ \E t \in Tokens :
         /\ Fresh(t)
         /\ session' = [session EXCEPT ![old] = Revoked(old, "rotated"),
                                       ![t] = NewRow(session[old].family)]
         /\ call' = [call EXCEPT ![c] = [@ EXCEPT !.step = "rotated", !.next = t]]
    /\ UNCHANGED <<page, disturbed>>

(* A variant of RefreshAnswered that keeps the old refresh token.          *)
AnsweredWithAccess(c) ==
    /\ call[c].step = "rotated"
    /\ page' = [page EXCEPT ![Owner[c]].access = "valid"]
    /\ call' = [call EXCEPT ![c] = NoCall]
    /\ UNCHANGED <<session, disturbed>>

(* The tokens of the answer replace those in memory, whatever these are    *)
(* by now, and the request is sent once more.                              *)
RefreshAnswered(c) ==
    /\ call[c].step = "rotated"
    /\ page' = [page EXCEPT ![Owner[c]] = TokensSet(@, call[c].next)]
    /\ call' = [call EXCEPT ![c] = NoCall]
    /\ UNCHANGED <<session, disturbed>>

RefreshRefused(c) ==
    /\ call[c].step = "refused"
    /\ page' = [page EXCEPT ![Owner[c]] = TokensCleared(@)]
    /\ call' = [call EXCEPT ![c] = NoCall]
    /\ UNCHANGED <<session, disturbed>>

(* fetch fails or the server stops: an open transaction is rolled back,    *)
(* the tokens in memory stay.                                              *)
RefreshLost(c) ==
    /\ Refreshing(c)
    /\ call' = [call EXCEPT ![c] = NoCall]
    /\ disturbed' = disturbed \cup {Owner[c]}
    /\ UNCHANGED <<session, page>>
-----------------------------------------------------------------------------
LogoutSend(d) ==
    /\ page[d].shows = "app" /\ page[d].step = "idle"
    /\ page' = [page EXCEPT ![d] = [@ EXCEPT !.step = "logout", !.sent = page[d].refresh]]
    /\ UNCHANGED <<session, call, disturbed>>

(* A variant of LogoutRevoke whose UPDATE takes a revoked row as well.     *)
RevokeAnyRow(d) ==
    LET t == page[d].sent IN
    /\ page[d].step = "logout" /\ t # NoToken /\ ~RowLocked(t)
    /\ session' = [session EXCEPT ![t] = Revoked(t, "logout")]
    /\ page' = [page EXCEPT ![d].step = "loggedOut"]
    /\ UNCHANGED <<call, disturbed>>

(* revoke: one UPDATE ... WHERE revoked_at IS NULL, which waits for a      *)
(* rotation of the row and then looks again.                               *)
LogoutRevoke(d) ==
    LET t == page[d].sent IN
    /\ page[d].step = "logout" /\ t # NoToken /\ ~RowLocked(t)
    /\ session' = IF session[t].status = "live"
                  THEN [session EXCEPT ![t] = Revoked(t, "logout")] ELSE session
    /\ page' = [page EXCEPT ![d].step = "loggedOut"]
    /\ UNCHANGED <<call, disturbed>>

(* Answered, failed, or not even sent: the page forgets its tokens.        *)
LogoutDone(d) ==
    /\ page[d].step \in {"logout", "loggedOut"}
    /\ page' = [page EXCEPT ![d] = SignedOut]
    /\ UNCHANGED <<session, call, disturbed>>
-----------------------------------------------------------------------------
AccessExpires(d) ==
    /\ page[d].access = "valid"
    /\ page' = [page EXCEPT ![d].access = "expired"]
    /\ UNCHANGED <<session, call, disturbed>>

RefreshExpires(t) ==
    /\ Live(t)
    /\ session' = [session EXCEPT ![t].expired = TRUE]
    /\ UNCHANGED <<page, call, disturbed>>

(* The scheduler deletes rows revoked or expired days ago; a request does  *)
(* not stay open that long.                                                *)
InUse(t) == (\E c \in Calls : call[c].token = t) \/ (\E d \in Devices : page[d].sent = t)

SessionReaper(t) ==
    /\ session[t].status \in {"live", "revoked"} /\ ~Live(t)
    /\ ~InUse(t)
    /\ session' = [session EXCEPT ![t].status = "deleted"]
    /\ UNCHANGED <<page, call, disturbed>>
-----------------------------------------------------------------------------
SessionNext ==
    \/ \E d \in Devices :
         \/ LoginSubmit(d) \/ LoginCreate(d) \/ LoginAnswered(d) \/ LoginFailed(d)
         \/ LogoutSend(d) \/ LogoutRevoke(d) \/ LogoutDone(d) \/ AccessExpires(d)
    \/ \E c \in Calls :
         \/ ApiUnauthorized(c) \/ RefreshSend(c) \/ RefreshImpossible(c)
         \/ RotateRead(c) \/ RotateRefuse(c) \/ RotateCommit(c)
         \/ RefreshAnswered(c) \/ RefreshRefused(c) \/ RefreshLost(c)
    \/ \E t \in Tokens : RefreshExpires(t) \/ SessionReaper(t)

SessionSpec == SessionInit /\ [][SessionNext]_sessionVars
-----------------------------------------------------------------------------
(* Of the tokens of one family at most one can be used: of two calls that  *)
(* rotate one token at the same time exactly one succeeds                  *)
(* (services/session.js:30-35).                                            *)
OneLivePerFamily ==
    \A s, t \in Tokens :
        session[s].status = "live" /\ session[t].status = "live"
          /\ session[s].family = session[t].family => s = t

(* Once a logout has revoked a token of a family, no token of that family  *)
(* can be used, whatever refresh was in flight.                            *)
LoggedOutFamilyIsDead ==
    \A s, t \in Tokens :
        session[s].reason = "logout" /\ session[t].family = session[s].family
          => session[t].status # "live"

(* A session ends through its own token, by rotation or logout, or by age: *)
(* an older token of the family, which the handler answers with            *)
(* refresh_reused, leaves it alive.                                        *)
SessionEndsByItsToken ==
    [][\A t \in Tokens :
         session[t].status = "live" /\ session'[t].status # "live" =>
           \/ session[t].expired
           \/ \E c \in Calls : call[c].token = t /\ call[c].step = "rotating"
           \/ \E d \in Devices : page[d].sent = t /\ page[d].step = "logout"]_sessionVars

(* A page is refused a refresh while its session is alive only if two of   *)
(* its calls refreshed at once or an answer was lost.                      *)
RefusedOnlyIfDisturbed ==
    \A c \in Calls, t \in Tokens :
        call[c].step = "refused" /\ Live(t) /\ session[t].family = session[call[c].token].family
          => Owner[c] \in disturbed
=============================================================================
