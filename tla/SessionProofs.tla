---------------------------- MODULE SessionProofs ----------------------------
(***************************************************************************)
(* Proofs about sessions, for any pages, concurrent calls and tokens.      *)
(***************************************************************************)
EXTENDS Sessions, TLAPS

\* A token that was handed out belongs to a family named after a token that was
\* handed out; one that was not has neither family nor reason.
FamiliesNamed ==
    \A t \in Tokens :
        IF Fresh(t) THEN session[t].family = NoToken /\ session[t].reason = "none"
        ELSE session[t].family \in Tokens /\ ~Fresh(session[t].family)

\* A call at work has a token, and the row it has locked stays live, its own.
CallsHaveTokens ==
    \A c \in Calls :
        /\ Refreshing(c) => call[c].token \in Tokens
        /\ call[c].step = "rotating" => session[call[c].token].status = "live"

LocksExclude ==
    \A b, c \in Calls :
        call[b].step = "rotating" /\ call[c].step = "rotating" /\ call[b].token = call[c].token
          => b = c

SessionInv ==
    /\ SessionTypeOK /\ FamiliesNamed /\ CallsHaveTokens /\ LocksExclude
    /\ OneLivePerFamily /\ LoggedOutFamilyIsDead

-----------------------------------------------------------------------------
(* Types                                                                   *)

LEMMA InitType ==
  ASSUME SessionInit PROVE SessionTypeOK
  BY DEF SessionInit, SessionTypeOK, SessionRow, Page, ApiCall, SignedOut, NoCall, NoRow

LEMMA NextType ==
  ASSUME SessionTypeOK, CallsHaveTokens, [SessionNext]_sessionVars
  PROVE  SessionTypeOK'
<1> USE SessionAssumption DEF SessionTypeOK
<1>1. /\ \A t \in Tokens : session[t] \in SessionRow
      /\ \A d \in Devices : page[d] \in Page
      /\ \A c \in Calls : call[c] \in ApiCall /\ Owner[c] \in Devices
  OBVIOUS
<1>2. ASSUME NEW d \in Devices, LoginSubmit(d) PROVE SessionTypeOK'
  <2>1. page' \in [Devices -> Page]
    BY <1>1, <1>2 DEF LoginSubmit, Page
  <2> QED
    BY <1>2, <2>1 DEF LoginSubmit
<1>3. ASSUME NEW d \in Devices, LoginCreate(d) PROVE SessionTypeOK'
  <2>1. PICK t \in Tokens :
          /\ session' = [session EXCEPT ![t] = NewRow(t)]
          /\ page' = [page EXCEPT ![d] = [@ EXCEPT !.step = "loggedIn", !.sent = t]]
    BY <1>3 DEF LoginCreate
  <2>2. page' \in [Devices -> Page]
    BY <1>1, <2>1 DEF Page
  <2>3. session' \in [Tokens -> SessionRow]
    BY <2>1 DEF NewRow, SessionRow
  <2> QED
    BY <1>3, <2>2, <2>3 DEF LoginCreate
<1>4. ASSUME NEW d \in Devices, LoginAnswered(d) PROVE SessionTypeOK'
  <2>1. page' \in [Devices -> Page]
    BY <1>1, <1>4 DEF LoginAnswered, Page
  <2> QED
    BY <1>4, <2>1 DEF LoginAnswered
<1>5. ASSUME NEW d \in Devices, LoginFailed(d) PROVE SessionTypeOK'
  <2>1. page' \in [Devices -> Page]
    BY <1>1, <1>5 DEF LoginFailed, Page
  <2> QED
    BY <1>5, <2>1 DEF LoginFailed
<1>6. ASSUME NEW d \in Devices, LogoutSend(d) PROVE SessionTypeOK'
  <2>1. page' \in [Devices -> Page]
    BY <1>1, <1>6 DEF LogoutSend, Page
  <2> QED
    BY <1>6, <2>1 DEF LogoutSend
<1>7. ASSUME NEW d \in Devices, LogoutRevoke(d) PROVE SessionTypeOK'
  <2>1. page' \in [Devices -> Page]
    BY <1>1, <1>7 DEF LogoutRevoke, Page
  <2>2. page[d].sent \in Tokens
    BY <1>1, <1>7 DEF LogoutRevoke, Page
  <2>3. session' \in [Tokens -> SessionRow]
    BY <1>1, <1>7, <2>2 DEF LogoutRevoke, Revoked, SessionRow
  <2> QED
    BY <1>7, <2>1, <2>3 DEF LogoutRevoke
<1>8. ASSUME NEW d \in Devices, LogoutDone(d) \/ AccessExpires(d) PROVE SessionTypeOK'
  <2>1. page' \in [Devices -> Page]
    BY <1>1, <1>8 DEF LogoutDone, AccessExpires, SignedOut, Page
  <2> QED
    BY <1>8, <2>1 DEF LogoutDone, AccessExpires
<1>9. ASSUME NEW c \in Calls, ApiUnauthorized(c) \/ RotateRead(c) \/ RotateRefuse(c)
      PROVE  SessionTypeOK'
  <2>1. call' \in [Calls -> ApiCall]
    BY <1>1, <1>9 DEF ApiUnauthorized, RotateRead, RotateRefuse, ApiCall
  <2> QED
    BY <1>9, <2>1 DEF ApiUnauthorized, RotateRead, RotateRefuse
<1>10. ASSUME NEW c \in Calls, RefreshSend(c) PROVE SessionTypeOK'
  <2>1. page[Owner[c]].refresh \in Tokens
    BY <1>1, <1>10 DEF RefreshSend, Page
  <2>2. call' \in [Calls -> ApiCall]
    BY <1>1, <1>10, <2>1 DEF RefreshSend, ApiCall
  <2>3. disturbed' \subseteq Devices
    BY <1>1, <1>10 DEF RefreshSend
  <2> QED
    BY <1>10, <2>2, <2>3 DEF RefreshSend
<1>11. ASSUME NEW c \in Calls, RefreshImpossible(c) \/ RefreshLost(c) PROVE SessionTypeOK'
  <2>1. call' \in [Calls -> ApiCall]
    BY <1>11 DEF RefreshImpossible, RefreshLost, NoCall, ApiCall
  <2> QED
    BY <1>1, <1>11, <2>1 DEF RefreshImpossible, RefreshLost
<1>12. ASSUME NEW c \in Calls, RotateCommit(c) PROVE SessionTypeOK'
  <2>1. call[c].token \in Tokens
    BY <1>12 DEF RotateCommit, CallsHaveTokens, Refreshing
  <2>2. PICK t \in Tokens :
          /\ session' = [session EXCEPT ![call[c].token] = Revoked(call[c].token, "rotated"),
                                        ![t] = NewRow(session[call[c].token].family)]
          /\ call' = [call EXCEPT ![c] = [@ EXCEPT !.step = "rotated", !.next = t]]
    BY <1>12 DEF RotateCommit
  <2>3. call' \in [Calls -> ApiCall]
    BY <1>1, <2>2 DEF ApiCall
  <2>4. session' \in [Tokens -> SessionRow]
    BY <1>1, <2>1, <2>2 DEF Revoked, NewRow, SessionRow
  <2> QED
    BY <1>12, <2>3, <2>4 DEF RotateCommit
<1>13. ASSUME NEW c \in Calls, RefreshAnswered(c) \/ RefreshRefused(c) PROVE SessionTypeOK'
  <2> DEFINE p == page[Owner[c]]
  <2>0. p \in Page /\ call[c].next \in Tokens \cup {NoToken}
    BY <1>1 DEF ApiCall
  <2>1. TokensSet(p, call[c].next) \in Page /\ TokensCleared(p) \in Page
    <3> HIDE DEF p
    <3>1. [p EXCEPT !.access = "valid", !.refresh = call[c].next] \in Page
      BY <2>0 DEF Page
    <3>2. [p EXCEPT !.access = "none", !.refresh = NoToken] \in Page
      BY <2>0 DEF Page
    <3> QED
      BY <3>1, <3>2 DEF TokensSet, TokensCleared
  <2>2. page' \in [Devices -> Page]
    BY <1>13, <2>1 DEF RefreshAnswered, RefreshRefused
  <2>3. call' \in [Calls -> ApiCall]
    BY <1>13 DEF RefreshAnswered, RefreshRefused, NoCall, ApiCall
  <2> QED
    BY <1>13, <2>2, <2>3 DEF RefreshAnswered, RefreshRefused
<1>14. ASSUME NEW t \in Tokens, RefreshExpires(t) PROVE SessionTypeOK'
  <2>1. session' \in [Tokens -> SessionRow]
    BY <1>1, <1>14 DEF RefreshExpires, SessionRow
  <2> QED
    BY <1>14, <2>1 DEF RefreshExpires
<1>15. ASSUME NEW t \in Tokens, SessionReaper(t) PROVE SessionTypeOK'
  <2>1. session' \in [Tokens -> SessionRow]
    BY <1>1, <1>15 DEF SessionReaper, SessionRow
  <2> QED
    BY <1>15, <2>1 DEF SessionReaper
<1> QED
  BY <1>2, <1>3, <1>4, <1>5, <1>6, <1>7, <1>8, <1>9, <1>10, <1>11, <1>12, <1>13, <1>14, <1>15
     DEF SessionNext, sessionVars

-----------------------------------------------------------------------------
(* The invariant                                                           *)

Rest == FamiliesNamed /\ CallsHaveTokens /\ LocksExclude /\ OneLivePerFamily
          /\ LoggedOutFamilyIsDead

\* Steps that leave the rows of sessions and the locks alone.
LEMMA QuietStep ==
  ASSUME SessionInv, session' = session,
         \A c \in Calls : \/ call'[c] = call[c]
                          \/ call'[c].step \in {"idle", "unauthorized", "refused"}
                               /\ (Refreshing(c)' => call'[c].token \in Tokens)
                          \/ call'[c].step = "refreshing" /\ call'[c].token \in Tokens
  PROVE  Rest'
<1> USE DEF SessionInv, Rest
<1>1. CallsHaveTokens' /\ LocksExclude'
  BY DEF CallsHaveTokens, LocksExclude, Refreshing
<1>2. FamiliesNamed' /\ OneLivePerFamily' /\ LoggedOutFamilyIsDead'
  BY DEF FamiliesNamed, OneLivePerFamily, LoggedOutFamilyIsDead, Fresh
<1> QED
  BY <1>1, <1>2

\* A token no row knew becomes live, in a family that has no live token and no
\* logout by then.
LEMMA NewToken ==
  ASSUME SessionInv, NEW t \in Tokens, Fresh(t), NEW family \in Tokens,
         family = t \/ ~Fresh(family),
         NEW rows \in [Tokens -> SessionRow],
         \A s \in Tokens : rows[s].family = session[s].family
                            /\ (rows[s].status = "none" <=> session[s].status = "none")
                            /\ (rows[s].status = "live" => session[s].status = "live")
                            /\ (rows[s].reason = "logout" => session[s].reason = "logout")
                            /\ (rows[s].status = "none" => rows[s].reason = "none"),
         \A s \in Tokens : rows[s].family = family =>
                            rows[s].status # "live" /\ rows[s].reason # "logout",
         session' = [rows EXCEPT ![t] = NewRow(family)]
  PROVE  FamiliesNamed' /\ OneLivePerFamily' /\ LoggedOutFamilyIsDead'
<1> USE SessionAssumption DEF SessionInv
<1>1. /\ session'[t] = NewRow(family)
      /\ \A s \in Tokens : s # t => session'[s] = rows[s]
  OBVIOUS
<1>2. FamiliesNamed'
  BY <1>1 DEF FamiliesNamed, Fresh, NewRow
<1>3. OneLivePerFamily'
  BY <1>1 DEF OneLivePerFamily, NewRow
<1>4. LoggedOutFamilyIsDead'
  BY <1>1 DEF LoggedOutFamilyIsDead, NewRow
<1> QED
  BY <1>2, <1>3, <1>4

\* A row that is not locked loses its life, or a live one its reason to.
LEMMA RowEnds ==
  ASSUME SessionInv, NEW t \in Tokens, NEW row \in SessionRow, call' = call,
         \A c \in Calls : call[c].step = "rotating" => call[c].token # t \/ row.status = "live",
         session' = [session EXCEPT ![t] = row],
         row.family = session[t].family, ~Fresh(t), row.status # "none",
         row.status = "live" => session[t].status = "live",
         row.reason = "logout" => (\/ session[t].reason = "logout"
                                   \/ session[t].status = "live" /\ row.status # "live")
  PROVE  Rest'
<1> USE DEF SessionInv
<1>1. session'[t] = row /\ \A s \in Tokens : s # t => session'[s] = session[s]
  BY DEF SessionTypeOK
<1>2. FamiliesNamed'
  BY <1>1 DEF FamiliesNamed, Fresh
<1>3. CallsHaveTokens' /\ LocksExclude'
  BY <1>1 DEF CallsHaveTokens, LocksExclude, Refreshing
<1>4. OneLivePerFamily'
  BY <1>1 DEF OneLivePerFamily
<1>5. LoggedOutFamilyIsDead'
  BY <1>1 DEF LoggedOutFamilyIsDead, OneLivePerFamily
<1> QED
  BY <1>2, <1>3, <1>4, <1>5 DEF Rest

LEMMA InitInv ==
  ASSUME SessionInit PROVE SessionInv
<1>1. SessionTypeOK
  BY InitType
<1>2. Rest
  BY SessionAssumption DEF SessionInit, Rest, FamiliesNamed, CallsHaveTokens, LocksExclude,
     OneLivePerFamily, LoggedOutFamilyIsDead, Refreshing, Fresh, NoCall, NoRow
<1> QED
  BY <1>1, <1>2 DEF SessionInv, Rest

LEMMA NextInv ==
  ASSUME SessionInv, [SessionNext]_sessionVars
  PROVE  SessionInv'
<1> USE SessionAssumption DEF SessionInv
<1>0. /\ SessionTypeOK'
      /\ \A t \in Tokens : session[t] \in SessionRow
      /\ \A d \in Devices : page[d] \in Page
      /\ \A c \in Calls : call[c] \in ApiCall
  BY NextType DEF SessionTypeOK
<1>1. ASSUME NEW d \in Devices, LoginCreate(d) PROVE Rest'
  <2>1. PICK t \in Tokens : Fresh(t) /\ session' = [session EXCEPT ![t] = NewRow(t)]
    BY <1>1 DEF LoginCreate
  <2>2. \A s \in Tokens : session[s].family # t
    BY <2>1 DEF FamiliesNamed
  <2>3. \A s \in Tokens : session[s].status = "none" => session[s].reason = "none"
    BY DEF FamiliesNamed, Fresh
  <2>4. FamiliesNamed' /\ OneLivePerFamily' /\ LoggedOutFamilyIsDead'
    BY <2>1, <2>2, <2>3, NewToken DEF SessionTypeOK
  <2>5. CallsHaveTokens' /\ LocksExclude'
    BY <1>0, <1>1, <2>1 DEF LoginCreate, CallsHaveTokens, LocksExclude, Refreshing, NewRow,
       SessionTypeOK
  <2> QED
    BY <2>4, <2>5 DEF Rest
<1>2. ASSUME NEW d \in Devices, LogoutRevoke(d) PROVE Rest'
  <2> DEFINE t == page[d].sent
  <2>1. t \in Tokens
    BY <1>0, <1>2 DEF LogoutRevoke, Page
  <2>2. CASE session[t].status = "live"
    <3>1. session' = [session EXCEPT ![t] = Revoked(t, "logout")]
      BY <1>2, <2>2 DEF LogoutRevoke
    <3>2. /\ Revoked(t, "logout") \in SessionRow
          /\ Revoked(t, "logout").family = session[t].family
          /\ Revoked(t, "logout").status = "revoked"
      BY <1>0, <2>1 DEF Revoked, SessionRow
    <3>3. \A c \in Calls : call[c].step = "rotating" => call[c].token # t
      BY <1>2 DEF LogoutRevoke, RowLocked
    <3> HIDE DEF t
    <3> QED
      BY <1>2, <2>1, <2>2, <3>1, <3>2, <3>3, RowEnds DEF LogoutRevoke, Fresh
  <2>3. CASE session[t].status # "live"
    BY <1>2, <2>3, QuietStep DEF LogoutRevoke
  <2> QED
    BY <2>2, <2>3
<1>3. ASSUME NEW c \in Calls, RotateRead(c) PROVE Rest'
  <2>1. /\ call[c].token \in Tokens /\ session[call[c].token].status = "live"
        /\ \A b \in Calls : call[b].step = "rotating" => call[b].token # call[c].token
    BY <1>3 DEF RotateRead, RowLocked, Live, CallsHaveTokens, Refreshing
  <2>2. /\ call'[c].step = "rotating" /\ call'[c].token = call[c].token
        /\ \A b \in Calls : b # c => call'[b] = call[b]
    BY <1>0, <1>3 DEF RotateRead, ApiCall, SessionTypeOK
  <2>3. CallsHaveTokens' /\ LocksExclude'
    BY <1>3, <2>1, <2>2 DEF RotateRead, CallsHaveTokens, LocksExclude, Refreshing
  <2>4. FamiliesNamed' /\ OneLivePerFamily' /\ LoggedOutFamilyIsDead'
    BY <1>3 DEF RotateRead, FamiliesNamed, OneLivePerFamily, LoggedOutFamilyIsDead, Fresh
  <2> QED
    BY <2>3, <2>4 DEF Rest
<1>4. ASSUME NEW c \in Calls, RotateCommit(c) PROVE Rest'
  <2> DEFINE old == call[c].token
             family == session[old].family
  <2>1. PICK t \in Tokens :
          /\ Fresh(t)
          /\ session' = [session EXCEPT ![old] = Revoked(old, "rotated"), ![t] = NewRow(family)]
          /\ call' = [call EXCEPT ![c] = [@ EXCEPT !.step = "rotated", !.next = t]]
    BY <1>4 DEF RotateCommit
  <2>2. /\ old \in Tokens /\ session[old].status = "live" /\ ~Fresh(old)
        /\ family \in Tokens /\ ~Fresh(family)
    BY <1>4 DEF RotateCommit, CallsHaveTokens, Refreshing, FamiliesNamed, Fresh
  <2> DEFINE row == Revoked(old, "rotated")
             rows == [session EXCEPT ![old] = row]
  <2>3. /\ row \in SessionRow /\ row.family = family
        /\ row.status = "revoked" /\ row.reason = "rotated"
    <3> DEFINE r == session[old]
    <3>1. r \in SessionRow /\ row = [r EXCEPT !.status = "revoked", !.reason = "rotated"]
      BY <2>2 DEF Revoked, SessionTypeOK
    <3> HIDE DEF row
    <3>2. row \in SessionRow /\ row.family = r.family
          /\ row.status = "revoked" /\ row.reason = "rotated"
      <4> HIDE DEF r
      <4> QED
        BY ONLY <3>1 DEF SessionRow
    <3> QED
      BY <3>2
  <2>4. /\ call'[c].step = "rotated" /\ call'[c].token = old
        /\ \A b \in Calls : b # c => call'[b] = call[b]
    BY <1>0, <2>1 DEF ApiCall, SessionTypeOK
  <2> HIDE DEF row
  <2>5. rows \in [Tokens -> SessionRow] /\ rows[old] = row
        /\ \A s \in Tokens : s # old => rows[s] = session[s]
    BY <2>2, <2>3 DEF SessionTypeOK
  <2>6. session' = [rows EXCEPT ![t] = NewRow(family)] /\ t # old
    BY <2>1, <2>2, <2>5 DEF row, SessionTypeOK
  <2>7. \A s \in Tokens : rows[s].family = family =>
           rows[s].status # "live" /\ rows[s].reason # "logout"
    BY <2>2, <2>3, <2>5 DEF OneLivePerFamily, LoggedOutFamilyIsDead
  <2>8. \A s \in Tokens : session[s].status = "none" => session[s].reason = "none"
    BY DEF FamiliesNamed, Fresh
  <2>9. \A s \in Tokens : /\ rows[s].family = session[s].family
                           /\ (rows[s].status = "none" <=> session[s].status = "none")
                           /\ (rows[s].status = "live" => session[s].status = "live")
                           /\ (rows[s].reason = "logout" => session[s].reason = "logout")
                           /\ (rows[s].status = "none" => rows[s].reason = "none")
    BY <2>2, <2>3, <2>5, <2>8
  <2> HIDE DEF family, rows, old
  <2>10. FamiliesNamed' /\ OneLivePerFamily' /\ LoggedOutFamilyIsDead'
    <3>1. SessionInv /\ Fresh(t) /\ family \in Tokens /\ ~Fresh(family)
      BY <2>1, <2>2
    <3>2. rows \in [Tokens -> SessionRow]
      BY <2>5
    <3> QED
      BY <3>1, <3>2, <2>6, <2>7, <2>9, NewToken
  <2>11. CallsHaveTokens' /\ LocksExclude'
    <3>1. \A b \in Calls : call'[b].step = "rotating" =>
             call[b].step = "rotating" /\ call'[b].token = call[b].token /\ call[b].token # old
      BY <1>4, <2>4 DEF LocksExclude, RotateCommit, old
    <3>2. \A s \in Tokens : s # old /\ session[s].status = "live" => session'[s].status = "live"
      BY <2>1, <2>5, <2>6 DEF Fresh
    <3>3. \A b \in Calls : Refreshing(b)' => call'[b].token \in Tokens
      BY <2>2, <2>4 DEF CallsHaveTokens, Refreshing
    <3>4. \A b \in Calls : call[b].step = "rotating" =>
             call[b].token \in Tokens /\ session[call[b].token].status = "live"
      BY DEF CallsHaveTokens, Refreshing
    <3> QED
      BY <3>1, <3>2, <3>3, <3>4 DEF CallsHaveTokens, LocksExclude
  <2> QED
    BY <2>10, <2>11 DEF Rest
<1>5. ASSUME NEW t \in Tokens, RefreshExpires(t) PROVE Rest'
  <2> DEFINE row == [session[t] EXCEPT !.expired = TRUE]
  <2>1. /\ row \in SessionRow /\ row.family = session[t].family
        /\ row.status = session[t].status /\ row.reason = session[t].reason
    BY <1>0 DEF SessionRow
  <2>2. /\ session' = [session EXCEPT ![t] = row] /\ call' = call
        /\ session[t].status = "live" /\ ~Fresh(t)
    BY <1>5 DEF RefreshExpires, Live, Fresh
  <2> HIDE DEF row
  <2>3. /\ row.status # "none"
        /\ row.status = "live" => session[t].status = "live"
        /\ row.reason = "logout" => session[t].reason = "logout"
        /\ \A c \in Calls : call[c].step = "rotating" =>
              call[c].token # t \/ row.status = "live"
    BY <2>1, <2>2
  <2>4. SessionInv
    OBVIOUS
  <2> QED
    BY <2>1, <2>2, <2>3, <2>4, RowEnds
<1>6. ASSUME NEW t \in Tokens, SessionReaper(t) PROVE Rest'
  <2> DEFINE row == [session[t] EXCEPT !.status = "deleted"]
  <2>1. /\ row \in SessionRow /\ row.family = session[t].family
        /\ row.status = "deleted" /\ row.reason = session[t].reason
    BY <1>0 DEF SessionRow
  <2>2. session' = [session EXCEPT ![t] = row] /\ ~Fresh(t)
    BY <1>6 DEF SessionReaper, Fresh
  <2>3. \A c \in Calls : call[c].token # t
    BY <1>6 DEF SessionReaper, InUse
  <2> HIDE DEF row
  <2> QED
    BY <1>6, <2>1, <2>2, <2>3, RowEnds DEF SessionReaper
<1>7. ASSUME NEW c \in Calls,
             \/ ApiUnauthorized(c) \/ RefreshImpossible(c) \/ RotateRefuse(c)
             \/ RefreshAnswered(c) \/ RefreshRefused(c) \/ RefreshLost(c)
      PROVE  Rest'
  <2>1. session' = session /\ \A b \in Calls : b # c => call'[b] = call[b]
    BY <1>7 DEF ApiUnauthorized, RefreshImpossible, RotateRefuse, RefreshAnswered,
       RefreshRefused, RefreshLost, SessionTypeOK
  <2>2. /\ call'[c].step \in {"idle", "unauthorized", "refused"}
        /\ call'[c].step = "refused" => call[c].step = "refreshing" /\ call'[c].token = call[c].token
    BY <1>0, <1>7 DEF ApiUnauthorized, RefreshImpossible, RotateRefuse, RefreshAnswered,
       RefreshRefused, RefreshLost, NoCall, ApiCall, SessionTypeOK
  <2>3. Refreshing(c)' => call'[c].token \in Tokens
    BY <2>2 DEF Refreshing, CallsHaveTokens
  <2> QED
    BY <2>1, <2>2, <2>3, QuietStep
<1>8. ASSUME NEW c \in Calls, RefreshSend(c) PROVE Rest'
  <2>1. page[Owner[c]].refresh \in Tokens
    BY <1>0, <1>8 DEF RefreshSend, Page
  <2>2. call'[c].step = "refreshing" /\ call'[c].token \in Tokens
        /\ \A b \in Calls : b # c => call'[b] = call[b]
    BY <1>0, <1>8, <2>1 DEF RefreshSend, ApiCall, SessionTypeOK
  <2> QED
    BY <1>8, <2>2, QuietStep DEF RefreshSend
<1>9. ASSUME NEW d \in Devices,
             \/ LoginSubmit(d) \/ LoginAnswered(d) \/ LoginFailed(d)
             \/ LogoutSend(d) \/ LogoutDone(d) \/ AccessExpires(d)
      PROVE  Rest'
  <2>1. session' = session /\ call' = call
    BY <1>9 DEF LoginSubmit, LoginAnswered, LoginFailed, LogoutSend, LogoutDone, AccessExpires
  <2> QED
    BY <2>1, QuietStep
<1>10. ASSUME UNCHANGED sessionVars PROVE Rest'
  BY <1>10, QuietStep DEF sessionVars
<1>11. Rest'
  BY <1>1, <1>2, <1>3, <1>4, <1>5, <1>6, <1>7, <1>8, <1>9, <1>10 DEF SessionNext
<1> QED
  BY <1>0, <1>11 DEF Rest

\* Types, named families, locks and the two invariants below hold together.
THEOREM SessionInvariant == SessionSpec => []SessionInv
<1>1. SessionInit => SessionInv
  BY InitInv
<1>2. SessionInv /\ [SessionNext]_sessionVars => SessionInv'
  BY NextInv
<1> QED
  BY <1>1, <1>2, PTL DEF SessionSpec

\* Of two rotations of one token exactly one succeeds, for any number of pages
\* and concurrent calls.
THEOREM OneTokenPerFamily == SessionSpec => []OneLivePerFamily
<1>1. SessionInv => OneLivePerFamily
  BY DEF SessionInv
<1> QED
  BY <1>1, SessionInvariant, PTL

\* Once a logout has revoked a token no token of the family is accepted, whatever
\* refresh was in flight.
THEOREM LogoutEndsFamily == SessionSpec => []LoggedOutFamilyIsDead
<1>1. SessionInv => LoggedOutFamilyIsDead
  BY DEF SessionInv
<1> QED
  BY <1>1, SessionInvariant, PTL

-----------------------------------------------------------------------------
(* Who may end a session                                                   *)

Keeps(t) ==
    session[t].status = "live" /\ session'[t].status # "live" =>
      \/ session[t].expired
      \/ \E c \in Calls : call[c].token = t /\ call[c].step = "rotating"
      \/ \E d \in Devices : page[d].sent = t /\ page[d].step = "logout"

LEMMA StepKeeps ==
  ASSUME SessionInv, [SessionNext]_sessionVars, NEW t \in Tokens
  PROVE  Keeps(t)
<1> USE DEF SessionInv, SessionTypeOK
<1>1. ASSUME NEW d \in Devices, LoginCreate(d) PROVE Keeps(t)
  BY <1>1 DEF LoginCreate, Fresh, Keeps
<1>2. ASSUME NEW d \in Devices, LogoutRevoke(d) PROVE Keeps(t)
  BY <1>2 DEF LogoutRevoke, Keeps
<1>3. ASSUME NEW c \in Calls, RotateCommit(c) PROVE Keeps(t)
  BY <1>3 DEF RotateCommit, Fresh, Keeps
<1>4. ASSUME NEW s \in Tokens, RefreshExpires(s) PROVE Keeps(t)
  BY <1>4 DEF RefreshExpires, SessionRow, Keeps
<1>5. ASSUME NEW s \in Tokens, SessionReaper(s) PROVE Keeps(t)
  BY <1>5 DEF SessionReaper, Live, Keeps
<1>6. CASE session' = session
  BY <1>6 DEF Keeps
<1> QED
  BY <1>1, <1>2, <1>3, <1>4, <1>5, <1>6
     DEF SessionNext, sessionVars, LoginSubmit, LoginAnswered, LoginFailed, LogoutSend,
         LogoutDone, AccessExpires, ApiUnauthorized, RefreshSend, RefreshImpossible,
         RotateRead, RotateRefuse, RefreshAnswered, RefreshRefused, RefreshLost

\* A live session ends by its own rotation, its own logout or its age; the reuse
\* of an older token of its family does not end it.
THEOREM EndsByOwnToken == SessionSpec => SessionEndsByItsToken
<1>1. SessionInv /\ [SessionNext]_sessionVars => [\A t \in Tokens : Keeps(t)]_sessionVars
  BY StepKeeps
<1>2. [\A t \in Tokens : Keeps(t)]_sessionVars =>
        [\A t \in Tokens :
         session[t].status = "live" /\ session'[t].status # "live" =>
           \/ session[t].expired
           \/ \E c \in Calls : call[c].token = t /\ call[c].step = "rotating"
           \/ \E d \in Devices : page[d].sent = t /\ page[d].step = "logout"]_sessionVars
  BY DEF Keeps
<1> QED
  BY <1>1, <1>2, SessionInvariant, PTL DEF SessionSpec, SessionEndsByItsToken
-----------------------------------------------------------------------------
(* Refused refreshes                                                       *)

\* The tokens a page has in memory or in one of its requests.
KeptBy(d, t) ==
    \/ page[d].refresh = t
    \/ page[d].sent = t
    \/ \E c \in Calls :
         /\ Owner[c] = d /\ Refreshing(c)
         /\ call[c].token = t \/ (call[c].step = "rotated" /\ call[c].next = t)

KeptReal == \A d \in Devices, t \in Tokens : KeptBy(d, t) => ~Fresh(t)

\* Two pages never have tokens of one family.
FamiliesApart ==
    \A d, e \in Devices, s, t \in Tokens :
        d # e /\ KeptBy(d, s) /\ KeptBy(e, t) => session[s].family # session[t].family

\* The token of a new login is nowhere else yet.
NewLogin ==
    \A d \in Devices : page[d].step = "loggedIn" =>
        /\ page[d].sent \in Tokens /\ page[d].sent # page[d].refresh
        /\ \A c \in Calls : Owner[c] = d /\ Refreshing(c) =>
             /\ call[c].token # page[d].sent
             /\ call[c].step = "rotated" => call[c].next # page[d].sent

OneRefresh ==
    \A b, c \in Calls :
        Refreshing(b) /\ Refreshing(c) /\ Owner[b] = Owner[c] /\ Owner[c] \notin disturbed => b = c

\* No token of the family but t can be alive.
Head(t) ==
    \A s \in Tokens : session[s].status = "live" /\ session[s].family = session[t].family => s = t

\* Of a page that was not disturbed every token is the head of its family, but
\* one in memory whose successor is on the way.
MemoryIsHead(d) ==
    page[d].refresh \in Tokens =>
      \/ Head(page[d].refresh)
      \/ \E c \in Calls :
           Owner[c] = d /\ call[c].step = "rotated" /\ call[c].token = page[d].refresh

CallIsHead(c) ==
    /\ call[c].step \in {"refreshing", "rotating", "refused"} => Head(call[c].token)
    /\ call[c].step = "rotated" => call[c].next \in Tokens /\ Head(call[c].next)

HeadsKept ==
    \A d \in Devices : d \notin disturbed =>
        /\ MemoryIsHead(d)
        /\ page[d].step = "loggedIn" => Head(page[d].sent)
        /\ \A c \in Calls : Owner[c] = d => CallIsHead(c)

RefusedIsDead == \A c \in Calls : call[c].step = "refused" => ~Live(call[c].token)

PageInv ==
    KeptReal /\ FamiliesApart /\ NewLogin /\ OneRefresh /\ HeadsKept /\ RefusedIsDead

\* Rows that were handed out stay so, in their families, and none comes alive.
RowsAge ==
    \A s \in Tokens :
        /\ Fresh(s) <=> Fresh(s)'
        /\ session'[s].family = session[s].family
        /\ session'[s].status = "live" => session[s].status = "live"
        /\ Live(s)' => Live(s)

LEMMA KeepingLess ==
  ASSUME PageInv,
         \A s \in Tokens : ~Fresh(s) => ~Fresh(s)' /\ session'[s].family = session[s].family,
         \A d \in Devices, t \in Tokens : KeptBy(d, t)' => KeptBy(d, t)
  PROVE  KeptReal' /\ FamiliesApart'
<1> USE DEF PageInv
<1>1. KeptReal'
  BY DEF KeptReal
<1>2. ASSUME NEW d \in Devices, NEW e \in Devices, NEW s \in Tokens, NEW t \in Tokens,
             d # e, KeptBy(d, s)', KeptBy(e, t)'
      PROVE  session'[s].family # session'[t].family
  <2>1. KeptBy(d, s) /\ KeptBy(e, t) /\ ~Fresh(s) /\ ~Fresh(t)
    BY <1>2 DEF KeptReal
  <2>2. session[s].family # session[t].family
    BY <1>2, <2>1 DEF FamiliesApart
  <2> QED
    BY <2>1, <2>2
<1>3. FamiliesApart'
  BY <1>2 DEF FamiliesApart
<1> QED
  BY <1>1, <1>3

LEMMA HeadStays ==
  ASSUME NEW t \in Tokens, RowsAge, Head(t) PROVE Head(t)'
  BY DEF RowsAge, Head

\* Steps of pages and of rows: the calls stay as they are.
LEMMA PagesMove ==
  ASSUME SessionInv, PageInv, RowsAge, call' = call, disturbed' = disturbed,
         SessionTypeOK',
         \A d \in Devices :
           /\ \/ page'[d].refresh = page[d].refresh
              \/ page'[d].refresh = NoToken
              \/ page[d].step = "loggedIn" /\ page'[d].refresh = page[d].sent
           /\ page'[d].sent \in {NoToken, page[d].sent, page[d].refresh}
           /\ page'[d].step = "loggedIn" => /\ page[d].step = "loggedIn"
                                             /\ page'[d].refresh = page[d].refresh
                                             /\ page'[d].sent = page[d].sent
  PROVE  PageInv'
<1> USE SessionAssumption DEF PageInv
<1>0. /\ \A d \in Devices : page[d] \in Page
      /\ \A c \in Calls : call[c] \in ApiCall /\ Owner[c] \in Devices
      /\ \A c \in Calls : Refreshing(c)' <=> Refreshing(c)
      /\ \A c \in Calls : Refreshing(c) => call[c].token \in Tokens
  BY DEF SessionInv, SessionTypeOK, CallsHaveTokens, Refreshing
<1>1. KeptReal' /\ FamiliesApart'
  <2>1. \A d \in Devices, t \in Tokens : KeptBy(d, t)' => KeptBy(d, t)
    BY <1>0 DEF KeptBy
  <2> QED
    BY <2>1, KeepingLess DEF RowsAge
<1>2. NewLogin'
  BY <1>0 DEF NewLogin
<1>3. OneRefresh'
  BY <1>0 DEF OneRefresh
<1>4. RefusedIsDead'
  BY <1>0 DEF RefusedIsDead, RowsAge, Refreshing
<1>5. ASSUME NEW d \in Devices, d \notin disturbed
      PROVE  /\ MemoryIsHead(d)'
             /\ page'[d].step = "loggedIn" => Head(page[d].sent)'
             /\ \A c \in Calls : Owner[c] = d => CallIsHead(c)'
  <2>1. /\ MemoryIsHead(d)
        /\ page[d].step = "loggedIn" => Head(page[d].sent)
        /\ \A c \in Calls : Owner[c] = d => CallIsHead(c)
    BY <1>5 DEF HeadsKept
  <2>2. \A s \in Tokens : page[d].step = "loggedIn" /\ s = page[d].sent => Head(s)'
    BY <2>1, HeadStays
  <2>3. MemoryIsHead(d)'
    <3>1. CASE page'[d].refresh = page[d].refresh
      <4>1. \A s \in Tokens : s = page[d].refresh /\ Head(s) => Head(s)'
        BY HeadStays
      <4> QED
        BY <2>1, <3>1, <4>1 DEF MemoryIsHead, Head
    <3>2. CASE page'[d].refresh = NoToken
      BY <3>2 DEF MemoryIsHead
    <3>3. CASE page[d].step = "loggedIn" /\ page'[d].refresh = page[d].sent
      BY <2>2, <3>3 DEF MemoryIsHead, Head
    <3> QED
      BY <3>1, <3>2, <3>3
  <2>4. ASSUME NEW c \in Calls, Owner[c] = d PROVE CallIsHead(c)'
    <3>1. call[c].step \in {"refreshing", "rotating", "refused"} =>
            call[c].token \in Tokens /\ Head(call[c].token)'
      BY <1>0, <2>1, <2>4, HeadStays DEF CallIsHead, Refreshing
    <3>2. call[c].step = "rotated" => call[c].next \in Tokens /\ Head(call[c].next)'
      BY <2>1, <2>4, HeadStays DEF CallIsHead
    <3> QED
      BY <3>1, <3>2 DEF CallIsHead, Head
  <2>5. page'[d].step = "loggedIn" => Head(page[d].sent)'
    BY <2>2 DEF Head, NewLogin
  <2> QED
    BY <2>3, <2>4, <2>5
<1>6. HeadsKept'
  BY <1>5 DEF HeadsKept, Head
<1> QED
  BY <1>1, <1>2, <1>3, <1>4, <1>6

\* Steps after which the call is not refreshing; only the one that has the answer
\* writes the tokens of its page, unless the page forgets them.
LEMMA CallEnds ==
  ASSUME SessionInv, PageInv, session' = session, NEW c \in Calls,
         \A b \in Calls : b # c => call'[b] = call[b],
         ~Refreshing(c)', call'[c].step \in {"idle", "unauthorized"},
         disturbed \subseteq disturbed',
         \A d \in Devices : page'[d].sent = page[d].sent /\ page'[d].step = page[d].step,
         \A d \in Devices : d # Owner[c] => page'[d].refresh = page[d].refresh,
         \/ page'[Owner[c]].refresh = NoToken
         \/ /\ page'[Owner[c]].refresh = page[Owner[c]].refresh
            /\ call[c].step = "rotated" => Owner[c] \in disturbed'
         \/ call[c].step = "rotated" /\ page'[Owner[c]].refresh = call[c].next
  PROVE  PageInv'
<1> USE SessionAssumption DEF PageInv
<1>0. /\ \A b \in Calls : Owner[b] \in Devices
      /\ \A b \in Calls : Refreshing(b)' => Refreshing(b) /\ b # c
      /\ call[c].step = "rotated" => Refreshing(c)
      /\ \A t \in Tokens : Head(t)' <=> Head(t)
  BY DEF Refreshing, Head
<1>1. KeptReal' /\ FamiliesApart'
  <2>1. \A d \in Devices, t \in Tokens : KeptBy(d, t)' => KeptBy(d, t)
    BY <1>0 DEF KeptBy
  <2> QED
    BY <2>1, KeepingLess DEF Fresh
<1>2. NewLogin'
  BY <1>0 DEF NewLogin
<1>3. OneRefresh'
  BY <1>0 DEF OneRefresh
<1>4. RefusedIsDead'
  BY <1>0 DEF RefusedIsDead, Live
<1>5. ASSUME NEW d \in Devices, d \notin disturbed'
      PROVE  /\ MemoryIsHead(d)'
             /\ page'[d].step = "loggedIn" => Head(page[d].sent)'
             /\ \A b \in Calls : Owner[b] = d => CallIsHead(b)'
  <2>1. /\ MemoryIsHead(d)
        /\ page[d].step = "loggedIn" => Head(page[d].sent)
        /\ \A b \in Calls : Owner[b] = d => CallIsHead(b)
    BY <1>5 DEF HeadsKept
  <2>2. page'[d].step = "loggedIn" => Head(page[d].sent)'
    BY <2>1, <1>0 DEF NewLogin
  <2>3. \A b \in Calls : Owner[b] = d => CallIsHead(b)'
    BY <2>1, <1>0 DEF CallIsHead, Head
  <2>4. ASSUME page'[d].refresh = page[d].refresh PROVE MemoryIsHead(d)'
    <3>1. ASSUME NEW b \in Calls, Owner[b] = d, call[b].step = "rotated",
                 call[b].token = page[d].refresh, page[d].refresh \in Tokens, b = c
          PROVE  MemoryIsHead(d)'
      <4>1. page'[d].refresh \in {NoToken, call[c].next}
        BY <3>1, <1>5
      <4>2. \A s \in Tokens : s = call[c].next => Head(s)'
        BY <1>0, <2>1, <3>1 DEF CallIsHead
      <4> QED
        BY <4>1, <4>2 DEF MemoryIsHead, Head
    <3> QED
      BY <1>0, <2>1, <2>4, <3>1 DEF MemoryIsHead, Head
  <2>5. ASSUME page'[d].refresh # page[d].refresh PROVE MemoryIsHead(d)'
    <3>1. d = Owner[c]
      BY <2>5
    <3>2. \/ page'[d].refresh = NoToken
          \/ call[c].step = "rotated" /\ page'[d].refresh = call[c].next
      BY <2>5, <3>1
    <3>3. /\ call[c].step = "rotated" => call[c].next \in Tokens
          /\ \A s \in Tokens : call[c].step = "rotated" /\ s = call[c].next => Head(s)'
      BY <1>0, <2>1, <3>1 DEF CallIsHead
    <3> QED
      BY <3>2, <3>3 DEF MemoryIsHead, Head
  <2> QED
    BY <2>2, <2>3, <2>4, <2>5
<1>6. HeadsKept'
  BY <1>5 DEF HeadsKept, Head
<1> QED
  BY <1>1, <1>2, <1>3, <1>4, <1>6

\* The server looks at the row: the call goes on with its token.
LEMMA CallGoesOn ==
  ASSUME SessionInv, PageInv, session' = session, page' = page, disturbed' = disturbed,
         NEW c \in Calls, call[c].step = "refreshing",
         \A b \in Calls : b # c => call'[b] = call[b],
         call'[c].token = call[c].token, call'[c].step \in {"rotating", "refused"},
         call'[c].step = "refused" => ~Live(call[c].token)
  PROVE  PageInv'
<1> USE SessionAssumption DEF PageInv
<1>0. /\ \A b \in Calls : Refreshing(b)' <=> Refreshing(b)
      /\ \A b \in Calls : call'[b].token = call[b].token
      /\ \A b \in Calls : call'[b].step = "rotated" <=> call[b].step = "rotated"
      /\ \A b \in Calls : call'[b].step = "rotated" => call'[b].next = call[b].next
  BY DEF Refreshing
<1>1. KeptReal' /\ FamiliesApart'
  <2>1. \A d \in Devices, t \in Tokens : KeptBy(d, t)' => KeptBy(d, t)
    BY <1>0 DEF KeptBy
  <2> QED
    BY <2>1, KeepingLess DEF Fresh
<1>2. NewLogin'
  BY <1>0 DEF NewLogin
<1>3. OneRefresh'
  BY <1>0 DEF OneRefresh
<1>4. RefusedIsDead'
  BY <1>0 DEF RefusedIsDead, Live
<1>5. \A b \in Calls : CallIsHead(b) => CallIsHead(b)'
  BY <1>0 DEF CallIsHead, Head
<1>6. \A d \in Devices : MemoryIsHead(d) => MemoryIsHead(d)'
  BY <1>0 DEF MemoryIsHead, Head
<1>7. HeadsKept'
  BY <1>5, <1>6 DEF HeadsKept, Head
<1> QED
  BY <1>1, <1>2, <1>3, <1>4, <1>7

\* The token of the page goes out: it is the head, since no answer is on the way.
LEMMA SendStep ==
  ASSUME SessionInv, PageInv, NEW c \in Calls, RefreshSend(c)
  PROVE  PageInv'
<1> USE SessionAssumption DEF PageInv
<1> DEFINE d == Owner[c]
           t == page[d].refresh
<1>0. /\ \A b \in Calls : Owner[b] \in Devices
      /\ d \in Devices /\ t \in Tokens
      /\ session' = session /\ page' = page
      /\ ~Refreshing(c) /\ Refreshing(c)'
      /\ call'[c].step = "refreshing" /\ call'[c].token = t
      /\ \A b \in Calls : b # c => call'[b] = call[b]
  BY DEF RefreshSend, SessionInv, SessionTypeOK, Page, ApiCall, Refreshing
<1>1. /\ \A b \in Calls : b # c => (Refreshing(b)' <=> Refreshing(b))
      /\ disturbed \subseteq disturbed'
      /\ (\E b \in Calls : Owner[b] = d /\ Refreshing(b)) => d \in disturbed'
      /\ \A e \in Devices : e # d => (e \in disturbed' <=> e \in disturbed)
  BY <1>0 DEF RefreshSend, Refreshing
<1> HIDE DEF d, t
<1>d. d = Owner[c] /\ t = page[d].refresh
  BY DEF d, t
<1>2. KeptReal' /\ FamiliesApart'
  <2>1. \A e \in Devices, s \in Tokens : KeptBy(e, s)' => KeptBy(e, s)
    BY <1>0, <1>1, <1>d DEF KeptBy
  <2> QED
    BY <1>0, <2>1, KeepingLess DEF Fresh
<1>3. NewLogin'
  BY <1>0, <1>1, <1>d DEF NewLogin
<1>4. OneRefresh'
  BY <1>0, <1>1, <1>d DEF OneRefresh
<1>5. RefusedIsDead'
  BY <1>0 DEF RefusedIsDead, Live
<1>6. ASSUME NEW e \in Devices, e \notin disturbed'
      PROVE  /\ MemoryIsHead(e)'
             /\ page'[e].step = "loggedIn" => Head(page[e].sent)'
             /\ \A b \in Calls : Owner[b] = e => CallIsHead(b)'
  <2>1. /\ MemoryIsHead(e)
        /\ page[e].step = "loggedIn" => Head(page[e].sent)
        /\ \A b \in Calls : Owner[b] = e => CallIsHead(b)
    BY <1>1, <1>6 DEF HeadsKept
  <2>2. MemoryIsHead(e)'
    BY <1>0, <2>1 DEF MemoryIsHead, Head, Refreshing
  <2>3. page'[e].step = "loggedIn" => Head(page[e].sent)'
    BY <1>0, <2>1 DEF Head
  <2>4. ASSUME NEW b \in Calls, Owner[b] = e, b # c PROVE CallIsHead(b)'
    BY <1>0, <2>1, <2>4 DEF CallIsHead, Head
  <2>5. ASSUME e = d PROVE CallIsHead(c)'
    <3>1. \A b \in Calls : Owner[b] = d => call[b].step # "rotated"
      BY <1>1, <1>6, <2>5 DEF Refreshing
    <3>2. Head(t)
      BY <1>0, <1>d, <2>1, <2>5, <3>1 DEF MemoryIsHead
    <3> QED
      BY <1>0, <3>2 DEF CallIsHead, Head
  <2> QED
    BY <1>d, <2>2, <2>3, <2>4, <2>5
<1>7. HeadsKept'
  BY <1>0, <1>6 DEF HeadsKept, Head
<1> QED
  BY <1>2, <1>3, <1>4, <1>5, <1>7

\* A login opens a family of its own.
LEMMA LoginStep ==
  ASSUME SessionInv, PageInv, NEW d \in Devices, LoginCreate(d)
  PROVE  PageInv'
<1> USE SessionAssumption DEF PageInv
<1>0. PICK t \in Tokens :
        /\ Fresh(t)
        /\ session' = [session EXCEPT ![t] = NewRow(t)]
        /\ page' = [page EXCEPT ![d] = [@ EXCEPT !.step = "loggedIn", !.sent = t]]
  BY DEF LoginCreate
<1>1. /\ session'[t] = NewRow(t)
      /\ \A s \in Tokens : s # t => session'[s] = session[s]
      /\ page'[d].step = "loggedIn" /\ page'[d].sent = t /\ page'[d].refresh = page[d].refresh
      /\ \A e \in Devices : e # d => page'[e] = page[e]
      /\ call' = call /\ disturbed' = disturbed
      /\ \A c \in Calls : Owner[c] \in Devices /\ (Refreshing(c) => call[c].token \in Tokens)
      /\ \A c \in Calls : Refreshing(c)' <=> Refreshing(c)
  BY <1>0 DEF LoginCreate, SessionInv, SessionTypeOK, Page, CallsHaveTokens, Refreshing
<1>2. /\ \A e \in Devices : ~KeptBy(e, t)
      /\ \A s \in Tokens : session[s].family # t
  BY <1>0 DEF KeptReal, SessionInv, FamiliesNamed
<1>3. \A e \in Devices, s \in Tokens : KeptBy(e, s)' => KeptBy(e, s) \/ (e = d /\ s = t)
  BY <1>1 DEF KeptBy
<1>4. KeptReal'
  BY <1>1, <1>3 DEF KeptReal, Fresh, NewRow
<1>5. FamiliesApart'
  BY <1>1, <1>2, <1>3 DEF FamiliesApart, NewRow
<1>6. NewLogin'
  <2>1. /\ page[d].refresh # t
        /\ \A c \in Calls : Owner[c] = d /\ Refreshing(c) =>
             call[c].token # t /\ (call[c].step = "rotated" => call[c].next # t)
    BY <1>2 DEF KeptBy
  <2> QED
    BY <1>0, <1>1, <2>1 DEF NewLogin
<1>7. OneRefresh'
  BY <1>1 DEF OneRefresh
<1>8. RefusedIsDead'
  <2>1. \A c \in Calls : call[c].step = "refused" => call[c].token # t
    BY <1>1, <1>2 DEF KeptBy, Refreshing
  <2> QED
    BY <1>1, <2>1 DEF RefusedIsDead, Live, Refreshing
<1>9. \A s \in Tokens : s # t /\ Head(s) => Head(s)'
  BY <1>1, <1>2 DEF Head, NewRow
<1>10. Head(t)'
  BY <1>1, <1>2 DEF Head, NewRow
<1>11. ASSUME NEW e \in Devices, e \notin disturbed
       PROVE  /\ MemoryIsHead(e)'
              /\ page'[e].step = "loggedIn" => Head(page[e].sent)'
              /\ \A c \in Calls : Owner[c] = e => CallIsHead(c)'
  <2>1. /\ MemoryIsHead(e)
        /\ page[e].step = "loggedIn" => Head(page[e].sent)
        /\ \A c \in Calls : Owner[c] = e => CallIsHead(c)
    BY <1>11 DEF HeadsKept
  <2>2. MemoryIsHead(e)'
    <3>1. page'[e].refresh = page[e].refresh /\ page[e].refresh # t
      BY <1>1, <1>2 DEF KeptBy
    <3> QED
      BY <1>1, <1>9, <2>1, <3>1 DEF MemoryIsHead, Head
  <2>3. page'[e].step = "loggedIn" => Head(page[e].sent)'
    <3>1. CASE e = d
      BY <1>1, <1>10, <3>1 DEF Head
    <3>2. CASE e # d
      <4>1. page[e].step = "loggedIn" => page[e].sent \in Tokens /\ page[e].sent # t
        BY <1>2 DEF NewLogin, KeptBy
      <4> QED
        BY <1>1, <1>9, <2>1, <3>2, <4>1 DEF Head
    <3> QED
      BY <3>1, <3>2
  <2>4. ASSUME NEW c \in Calls, Owner[c] = e PROVE CallIsHead(c)'
    <3>1. /\ call[c].step \in {"refreshing", "rotating", "refused"} =>
                call[c].token \in Tokens /\ call[c].token # t
          /\ call[c].step = "rotated" => call[c].next # t
      BY <1>1, <1>2, <2>4 DEF KeptBy, Refreshing
    <3> QED
      BY <1>1, <1>9, <2>1, <2>4, <3>1 DEF CallIsHead, Head
  <2> QED
    BY <2>2, <2>3, <2>4
<1>12. HeadsKept'
  BY <1>1, <1>11 DEF HeadsKept, Head
<1> QED
  BY <1>4, <1>5, <1>6, <1>7, <1>8, <1>12

\* The successor of a token is the new head; what else its page has of the family
\* has been replaced already or is about to be.
LEMMA CommitStep ==
  ASSUME SessionInv, PageInv, NEW c \in Calls, RotateCommit(c)
  PROVE  PageInv'
<1> USE SessionAssumption DEF PageInv
<1> DEFINE old == call[c].token
           d == Owner[c]
<1>0. PICK t \in Tokens :
        /\ Fresh(t)
        /\ session' = [session EXCEPT ![old] = Revoked(old, "rotated"),
                                      ![t] = NewRow(session[old].family)]
        /\ call' = [call EXCEPT ![c] = [@ EXCEPT !.step = "rotated", !.next = t]]
  BY DEF RotateCommit
<1>1. /\ call[c].step = "rotating" /\ Refreshing(c)
      /\ old \in Tokens /\ session[old].status = "live" /\ old # t
      /\ \A b \in Calls : Owner[b] \in Devices /\ (Refreshing(b) => call[b].token \in Tokens)
  BY <1>0 DEF RotateCommit, SessionInv, CallsHaveTokens, Refreshing, Fresh
<1>2. /\ session'[t] = NewRow(session[old].family)
      /\ session'[old] = Revoked(old, "rotated")
      /\ \A s \in Tokens : s # t /\ s # old => session'[s] = session[s]
  BY <1>0, <1>1 DEF SessionInv, SessionTypeOK
<1>3. /\ session'[t].family = session[old].family
      /\ session'[t].status = "live"
      /\ session'[old].family = session[old].family
      /\ session'[old].status = "revoked"
  <2> DEFINE r == session[old]
  <2>1. r \in SessionRow /\ session'[old] = [r EXCEPT !.status = "revoked", !.reason = "rotated"]
    BY <1>1, <1>2 DEF Revoked, SessionInv, SessionTypeOK
  <2> HIDE DEF r
  <2>2. session'[old].family = r.family /\ session'[old].status = "revoked"
    BY ONLY <2>1 DEF SessionRow
  <2> QED
    BY <1>2, <2>2 DEF NewRow, r
<1>4. /\ page' = page /\ disturbed' = disturbed
      /\ call'[c].step = "rotated" /\ call'[c].token = old /\ call'[c].next = t
      /\ \A b \in Calls : b # c => call'[b] = call[b]
      /\ \A b \in Calls : Refreshing(b)' <=> Refreshing(b)
  BY <1>0, <1>1 DEF RotateCommit, SessionInv, SessionTypeOK, ApiCall, Refreshing
<1> HIDE DEF old, d
<1>d. d = Owner[c] /\ call[c].token = old
  BY DEF d, old
<1>5. /\ \A e \in Devices : ~KeptBy(e, t)
      /\ KeptBy(d, old)
  BY <1>0, <1>1, <1>d DEF KeptReal, KeptBy
<1>6. /\ \A s \in Tokens : ~Fresh(s) => ~Fresh(s)' /\ session'[s].family = session[s].family
      /\ \A s \in Tokens : s # t /\ session'[s].status = "live" =>
            session[s].status = "live" /\ s # old /\ session'[s] = session[s]
  BY <1>0, <1>1, <1>2, <1>3 DEF Fresh
<1>7. \A e \in Devices, s \in Tokens : KeptBy(e, s)' => KeptBy(e, s) \/ (e = d /\ s = t)
  BY <1>1, <1>4, <1>d DEF KeptBy
<1>8. KeptReal'
  BY <1>3, <1>6, <1>7 DEF KeptReal, Fresh
<1>9. FamiliesApart'
  <2>1. ASSUME NEW e \in Devices, NEW s \in Tokens, e # d, KeptBy(e, s)
        PROVE  session'[s].family # session'[t].family
    <3>1. session[s].family # session[old].family
      BY <1>1, <1>5, <2>1, <1>d DEF FamiliesApart
    <3>2. session'[s].family = session[s].family
      BY <1>6, <2>1 DEF KeptReal
    <3> QED
      BY <1>3, <3>1, <3>2
  <2>2. ASSUME NEW e \in Devices, NEW f \in Devices, NEW r \in Tokens, NEW s \in Tokens,
               e # f, KeptBy(e, r), KeptBy(f, s)
        PROVE  session'[r].family # session'[s].family
    <3>1. session[r].family # session[s].family
      BY <2>2 DEF FamiliesApart
    <3>2. session'[r].family = session[r].family /\ session'[s].family = session[s].family
      BY <1>6, <2>2 DEF KeptReal
    <3> QED
      BY <3>1, <3>2
  <2>3. ASSUME NEW e \in Devices, NEW f \in Devices, NEW r \in Tokens, NEW s \in Tokens,
               e # f, KeptBy(e, r)', KeptBy(f, s)'
        PROVE  session'[r].family # session'[s].family
    BY <1>7, <2>1, <2>2, <2>3
  <2> QED
    BY <2>3 DEF FamiliesApart
<1>10. NewLogin'
  <2>1. \A e \in Devices : page[e].step = "loggedIn" => page[e].sent # t
    BY <1>5 DEF KeptBy
  <2> QED
    BY <1>1, <1>4, <1>d, <2>1 DEF NewLogin
<1>11. OneRefresh'
  BY <1>4 DEF OneRefresh
<1>12. RefusedIsDead'
  <2>1. ASSUME NEW b \in Calls, call'[b].step = "refused" PROVE ~Live(call[b].token)'
    <3>1. /\ b # c /\ call'[b] = call[b] /\ Refreshing(b)
          /\ call[b].token # t /\ call[b].token \in Tokens /\ ~Live(call[b].token)
      BY <1>1, <1>4, <1>5, <2>1 DEF KeptBy, RefusedIsDead, Refreshing
    <3> QED
      BY <1>6, <3>1 DEF Live
  <2> QED
    BY <2>1 DEF RefusedIsDead
<1>13. Head(t)'
  <2>1. \A s \in Tokens : session[s].status = "live" /\ session[s].family = session[old].family
           => s = old
    BY <1>1 DEF SessionInv, OneLivePerFamily
  <2> QED
    BY <1>3, <1>6, <2>1 DEF Head
\* The heads of other families stay; of the family only the old token was a head.
<1>14. ASSUME NEW s \in Tokens, ~Fresh(s), Head(s), s # old PROVE Head(s)'
  <2>1. session[s].family # session[old].family
    BY <1>1, <1>14 DEF Head
  <2> QED
    BY <1>3, <1>6, <1>14, <2>1 DEF Head
<1>15. ASSUME NEW e \in Devices, e \notin disturbed
       PROVE  /\ MemoryIsHead(e)'
              /\ page'[e].step = "loggedIn" => Head(page[e].sent)'
              /\ \A b \in Calls : Owner[b] = e => CallIsHead(b)'
  <2>1. /\ MemoryIsHead(e)
        /\ page[e].step = "loggedIn" => Head(page[e].sent)
        /\ \A b \in Calls : Owner[b] = e => CallIsHead(b)
    BY <1>15 DEF HeadsKept
  <2>2. \A s \in Tokens : KeptBy(e, s) => ~Fresh(s) /\ (s = old => e = d)
    BY <1>1, <1>5, <1>d DEF KeptReal, FamiliesApart
  <2>3. MemoryIsHead(e)'
    <3> SUFFICES ASSUME page[e].refresh \in Tokens PROVE MemoryIsHead(e)'
      BY <1>4 DEF MemoryIsHead
    <3>1. KeptBy(e, page[e].refresh)
      BY DEF KeptBy
    <3>2. CASE page[e].refresh = old
      BY <1>4, <1>d, <2>2, <3>1, <3>2 DEF MemoryIsHead
    <3>3. CASE page[e].refresh # old /\ Head(page[e].refresh)
      <4>1. Head(page[e].refresh)'
        BY <1>4, <1>14, <2>2, <3>1, <3>3 DEF Head
      <4> QED
        BY <4>1 DEF MemoryIsHead
    <3>4. ASSUME NEW b \in Calls, Owner[b] = e, call[b].step = "rotated",
                 call[b].token = page[e].refresh
          PROVE  MemoryIsHead(e)'
      BY <1>1, <1>4, <3>4 DEF MemoryIsHead
    <3> QED
      BY <2>1, <3>2, <3>3, <3>4 DEF MemoryIsHead
  <2>4. page'[e].step = "loggedIn" => Head(page[e].sent)'
    <3> SUFFICES ASSUME page[e].step = "loggedIn" PROVE Head(page[e].sent)'
      BY <1>4
    <3>1. page[e].sent \in Tokens /\ KeptBy(e, page[e].sent)
      BY DEF NewLogin, KeptBy
    <3>2. page[e].sent # old
      BY <1>1, <1>d, <2>2, <3>1 DEF NewLogin
    <3> QED
      BY <1>4, <1>14, <2>1, <2>2, <3>1, <3>2 DEF Head
  <2>5. ASSUME NEW b \in Calls, Owner[b] = e PROVE CallIsHead(b)'
    <3>1. CASE b = c
      BY <1>4, <1>13, <3>1 DEF CallIsHead, Head
    <3>2. CASE b # c /\ ~Refreshing(b)
      BY <1>4, <3>2 DEF CallIsHead, Refreshing
    <3>3. CASE b # c /\ Refreshing(b)
      <4>1. e # d
        BY <1>1, <1>15, <1>d, <2>5, <3>3 DEF OneRefresh
      <4>2. call[b].token \in Tokens /\ KeptBy(e, call[b].token)
        BY <1>1, <2>5, <3>3 DEF KeptBy
      <4>3. call[b].step = "rotated" => call[b].next \in Tokens /\ KeptBy(e, call[b].next)
        BY <2>1, <2>5, <3>3 DEF KeptBy, CallIsHead
      <4>4. \A s \in Tokens : KeptBy(e, s) /\ Head(s) => Head(s)'
        BY <1>14, <2>2, <4>1
      <4>5. CallIsHead(b) /\ call'[b] = call[b]
        BY <1>4, <2>1, <2>5, <3>3
      <4> QED
        BY <4>2, <4>3, <4>4, <4>5 DEF CallIsHead, Head
    <3> QED
      BY <3>1, <3>2, <3>3
  <2> QED
    BY <2>3, <2>4, <2>5
<1>16. HeadsKept'
  BY <1>4, <1>15 DEF HeadsKept, Head
<1> QED
  BY <1>8, <1>9, <1>10, <1>11, <1>12, <1>16

LEMMA PageStep ==
  ASSUME SessionInv, SessionInv', PageInv, [SessionNext]_sessionVars
  PROVE  PageInv'
<1> USE SessionAssumption
<1>0. /\ \A t \in Tokens : session[t] \in SessionRow
      /\ \A d \in Devices : page[d] \in Page
      /\ \A c \in Calls : call[c] \in ApiCall /\ Owner[c] \in Devices
      /\ SessionTypeOK /\ SessionTypeOK'
  BY DEF SessionInv, SessionTypeOK
<1>1. ASSUME NEW d \in Devices,
             \/ LoginSubmit(d) \/ LoginAnswered(d) \/ LoginFailed(d)
             \/ LogoutSend(d) \/ LogoutDone(d) \/ AccessExpires(d)
      PROVE  PageInv'
  <2>1. session' = session /\ call' = call /\ disturbed' = disturbed
        /\ \A e \in Devices : e # d => page'[e] = page[e]
    BY <1>0, <1>1 DEF SessionTypeOK, LoginSubmit, LoginAnswered, LoginFailed, LogoutSend,
       LogoutDone, AccessExpires
  <2>2. /\ \/ page'[d].refresh = page[d].refresh
           \/ page'[d].refresh = NoToken
           \/ page[d].step = "loggedIn" /\ page'[d].refresh = page[d].sent
        /\ page'[d].sent \in {NoToken, page[d].sent, page[d].refresh}
        /\ page'[d].step = "loggedIn" => /\ page[d].step = "loggedIn"
                                          /\ page'[d].refresh = page[d].refresh
                                          /\ page'[d].sent = page[d].sent
    <3>1. CASE LoginSubmit(d) \/ AccessExpires(d)
      BY <1>0, <3>1 DEF SessionTypeOK, LoginSubmit, AccessExpires, Page
    <3>2. CASE LoginFailed(d) \/ LogoutSend(d)
      <4> DEFINE p == page[d]
      <4>1. \/ page'[d] = [p EXCEPT !.step = "idle", !.sent = NoToken]
            \/ page'[d] = [p EXCEPT !.step = "logout", !.sent = p.refresh]
        BY <1>0, <3>2 DEF SessionTypeOK, LoginFailed, LogoutSend
      <4>2. p \in Page
        BY <1>0
      <4>3. page'[d].refresh = p.refresh /\ page'[d].step # "loggedIn"
            /\ page'[d].sent \in {NoToken, p.refresh}
        <5> HIDE DEF p
        <5> QED
          BY <4>1, <4>2 DEF Page
      <4> QED
        BY <4>3
    <3>3. CASE LoginAnswered(d) \/ LogoutDone(d)
      BY <1>0, <3>3 DEF SessionTypeOK, LoginAnswered, LogoutDone, SignedOut
    <3> QED
      BY <1>1, <3>1, <3>2, <3>3
  <2>3. RowsAge
    BY <2>1 DEF RowsAge, Fresh, Live
  <2> QED
    BY <1>0, <2>1, <2>2, <2>3, PagesMove
<1>2. ASSUME NEW d \in Devices, LogoutRevoke(d) PROVE PageInv'
  <2>1. call' = call /\ disturbed' = disturbed /\ page'[d].step = "loggedOut"
        /\ page'[d].refresh = page[d].refresh /\ page'[d].sent = page[d].sent
        /\ \A e \in Devices : e # d => page'[e] = page[e]
    BY <1>0, <1>2 DEF SessionTypeOK, LogoutRevoke, Page
  <2>2. RowsAge
    BY <1>0, <1>2 DEF SessionTypeOK, LogoutRevoke, RowsAge, Fresh, Live, Revoked, SessionRow
  <2> QED
    BY <1>0, <2>1, <2>2, PagesMove
<1>3. ASSUME NEW t \in Tokens, RefreshExpires(t) \/ SessionReaper(t) PROVE PageInv'
  <2>1. page' = page /\ call' = call /\ disturbed' = disturbed
    BY <1>3 DEF RefreshExpires, SessionReaper
  <2>2. RowsAge
    BY <1>0, <1>3 DEF SessionTypeOK, RefreshExpires, SessionReaper, RowsAge, Fresh, Live,
       SessionRow
  <2> QED
    BY <1>0, <2>1, <2>2, PagesMove
<1>4. ASSUME NEW c \in Calls,
             ApiUnauthorized(c) \/ RefreshImpossible(c) \/ RefreshAnswered(c)
               \/ RefreshRefused(c) \/ RefreshLost(c)
      PROVE  PageInv'
  <2>1. /\ session' = session
        /\ \A b \in Calls : b # c => call'[b] = call[b]
        /\ call'[c].step \in {"idle", "unauthorized"} /\ ~Refreshing(c)'
        /\ disturbed \subseteq disturbed'
    BY <1>0, <1>4 DEF SessionTypeOK, ApiUnauthorized, RefreshImpossible, RefreshAnswered,
       RefreshRefused, RefreshLost, NoCall, Refreshing, ApiCall
  <2>2. \A d \in Devices : d # Owner[c] => page'[d] = page[d]
    BY <1>0, <1>4 DEF SessionTypeOK, ApiUnauthorized, RefreshImpossible, RefreshAnswered,
       RefreshRefused, RefreshLost
  <2>3. /\ page'[Owner[c]].sent = page[Owner[c]].sent
        /\ page'[Owner[c]].step = page[Owner[c]].step
        /\ \/ page'[Owner[c]].refresh = NoToken
           \/ /\ page'[Owner[c]].refresh = page[Owner[c]].refresh
              /\ call[c].step = "rotated" => Owner[c] \in disturbed'
           \/ call[c].step = "rotated" /\ page'[Owner[c]].refresh = call[c].next
    <3>1. CASE ApiUnauthorized(c) \/ RefreshImpossible(c) \/ RefreshLost(c)
      BY <3>1 DEF ApiUnauthorized, RefreshImpossible, RefreshLost
    <3>2. CASE RefreshAnswered(c)
      BY <1>0, <3>2 DEF SessionTypeOK, RefreshAnswered, TokensSet, Page
    <3>3. CASE RefreshRefused(c)
      BY <1>0, <3>3 DEF SessionTypeOK, RefreshRefused, TokensCleared, Page
    <3> QED
      BY <1>4, <3>1, <3>2, <3>3
  <2> QED
    BY <2>1, <2>2, <2>3, CallEnds
<1>5. ASSUME NEW c \in Calls, RotateRead(c) \/ RotateRefuse(c) PROVE PageInv'
  <2>1. /\ session' = session /\ page' = page /\ disturbed' = disturbed
        /\ call[c].step = "refreshing"
        /\ \A b \in Calls : b # c => call'[b] = call[b]
        /\ call'[c].token = call[c].token
        /\ call'[c].step \in {"rotating", "refused"}
        /\ call'[c].step = "refused" => ~Live(call[c].token)
    BY <1>0, <1>5 DEF SessionTypeOK, RotateRead, RotateRefuse, ApiCall
  <2> QED
    BY <2>1, CallGoesOn
<1>6. CASE UNCHANGED sessionVars
  <2>1. session' = session /\ page' = page /\ call' = call /\ disturbed' = disturbed
    BY <1>6 DEF sessionVars
  <2>2. RowsAge
    BY <2>1 DEF RowsAge, Fresh, Live
  <2> QED
    BY <1>0, <2>1, <2>2, PagesMove
<1> QED
  BY <1>1, <1>2, <1>3, <1>4, <1>5, <1>6, SendStep, LoginStep, CommitStep DEF SessionNext

\* A page is refused a refresh while its session is alive only if two of its calls
\* refreshed at once or an answer was lost, for any pages, calls and tokens.
THEOREM RefusedWithReason == SessionSpec => []RefusedOnlyIfDisturbed
<1>1. SessionInit => SessionInv /\ PageInv
  <2>1. ASSUME SessionInit PROVE PageInv
    BY <2>1, SessionAssumption DEF SessionInit, PageInv, KeptReal, FamiliesApart, NewLogin,
       OneRefresh, HeadsKept, RefusedIsDead, KeptBy, MemoryIsHead, CallIsHead, Refreshing,
       SignedOut, NoCall
  <2> QED
    BY <2>1, InitInv
<1>2. SessionInv /\ PageInv /\ [SessionNext]_sessionVars => (SessionInv /\ PageInv)'
  BY NextInv, PageStep
<1>3. SessionInv /\ PageInv => RefusedOnlyIfDisturbed
  <2> SUFFICES ASSUME SessionInv, PageInv, NEW c \in Calls, NEW t \in Tokens,
                      call[c].step = "refused", Live(t),
                      session[t].family = session[call[c].token].family, Owner[c] \notin disturbed
               PROVE  FALSE
    BY DEF RefusedOnlyIfDisturbed
  <2>1. Head(call[c].token)
    BY SessionAssumption DEF PageInv, HeadsKept, CallIsHead
  <2>2. t = call[c].token
    BY <2>1 DEF Head, Live
  <2> QED
    BY <2>2 DEF PageInv, RefusedIsDead
<1> QED
  BY <1>1, <1>2, <1>3, PTL DEF SessionSpec
=============================================================================
