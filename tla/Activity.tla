------------------------------ MODULE Activity ------------------------------
(***************************************************************************)
(* What a customer sees of the transactions: the list with its filter and  *)
(* its pages (apps/web: pages/Transactions; apps/core-banking-api:         *)
(* routes/transactions), and the alerts with their badge, fed by the       *)
(* socket of the realtime gateway and by the list of recent transactions   *)
(* (apps/web: store/notifications, pages/Notifications, components/        *)
(* AppShell, realtime/socket; apps/realtime-gateway).                      *)
(*                                                                         *)
(* Filters by account and by status work like the filter by type and are   *)
(* left out, and so is the limit of 200 alerts the store keeps.            *)
(***************************************************************************)
EXTENDS Naturals, Sequences, FiniteSets

CONSTANTS
    Types,     \* transactions.type
    Every,       \* no filter
    Filters,   \* bound: filters that are chosen
    MaxRows,   \* bound: transactions, numbered by created_at
    Instant,   \* the millisecond of a transaction's created_at
    PageSize,  \* LIMIT of a page
    Loads      \* bound: requests for pages of the list under way at a time

Rows == 1..MaxRows

ASSUME ActivityAssumption ==
    /\ MaxRows \in Nat /\ PageSize \in Nat \ {0}
    /\ Every \notin Types /\ Filters \subseteq Types \cup {Every}
    /\ Instant \in [Rows -> Nat \ {0}]
    /\ \A i, j \in Rows : i < j => Instant[i] <= Instant[j]

VARIABLES
    made,    \* the type of each committed transaction, Every before
    list,    \* the Transactions page
    load,    \* its requests
    live,    \* events for this customer not published yet, and the socket
    alert,   \* the alerts in the store
    badge,   \* unread, the number on the badge
    page     \* the Notifications page, and its request

activityVars == <<made, list, load, live, alert, badge, page>>
-----------------------------------------------------------------------------
Made == {i \in Rows : made[i] # Every}

(* cursor: the instant of the last row, 0 for null.  clean: nothing was    *)
(* under way when the rows were last asked for anew, and that request did  *)
(* not fail.                                                               *)
List == [filter : Types \cup {Every}, items : Seq(Rows), cursor : Nat, loading : BOOLEAN,
         clean : BOOLEAN]

Load == [step : {"unused", "sent", "answered"}, reset : BOOLEAN, filter : Types \cup {Every},
         cursor : Nat, rows : Seq(Rows), next : Nat]

Unused == [step |-> "unused", reset |-> FALSE, filter |-> Every, cursor |-> 0, rows |-> <<>>, next |-> 0]

(* "stale": the socket lost its connection after the access token it was   *)
(* made with had run out; it is made once and offers that token again.     *)
Live == [due : SUBSET Rows, socket : {"open", "closed", "stale"}]

(* "new": pushed by an event and not read; "seeded": added from the list   *)
(* of recent transactions and not read.                                    *)
Alerts == {"none", "new", "seeded", "read"}

ActivityTypeOK ==
    /\ made \in [Rows -> Types \cup {Every}]
    /\ list \in List /\ load \in [Loads -> Load]
    /\ live \in Live
    /\ alert \in [Rows -> Alerts] /\ badge \in 0..MaxRows
    /\ page \in [shown : BOOLEAN, asks : BOOLEAN]

(* The customer is logged in and opens the list: its first load is sent.   *)
ActivityInit ==
    /\ made = [i \in Rows |-> Every]
    /\ list = [filter |-> Every, items |-> <<>>, cursor |-> 0, loading |-> FALSE, clean |-> FALSE]
    /\ load = [c \in Loads |-> Unused]
    /\ live = [due |-> {}, socket |-> "open"]
    /\ alert = [i \in Rows |-> "none"] /\ badge = 0
    /\ page = [shown |-> FALSE, asks |-> FALSE]

UnderWay(c) == load[c].step # "unused"
Busy == \E c \in Loads : UnderWay(c)
-----------------------------------------------------------------------------
(* A transaction of the customer commits.  created_at is the time it began *)
(* at, so that an older one may appear later.                              *)
CommitTransaction(i, type) ==
    /\ made[i] = Every
    /\ made' = [made EXCEPT ![i] = type]
    /\ live' = [live EXCEPT !.due = @ \cup {i}]
    /\ UNCHANGED <<list, load, alert, badge, page>>
-----------------------------------------------------------------------------
(* GET /transactions.  The rows of a page, newest first.  The cursor has   *)
(* milliseconds while the column has microseconds, so rows of the instant  *)
(* it names do not come after it.                                          *)
Matching(filter, cursor) ==
    {i \in Made : filter \in {Every, made[i]} /\ (cursor # 0 => Instant[i] < cursor)}

NewestFirst(S, n) ==
    LET rank(i) == Cardinality({j \in S : j >= i})
    IN [k \in 1..(IF Cardinality(S) < n THEN Cardinality(S) ELSE n) |->
            CHOOSE i \in S : rank(i) = k]

PageOf(filter, cursor) == NewestFirst(Matching(filter, cursor), PageSize)

NextCursor(rows) == IF Len(rows) = PageSize THEN Instant[rows[PageSize]] ELSE 0

AnswerList(c) ==
    LET rows == PageOf(load[c].filter, load[c].cursor) IN
    /\ load[c].step = "sent"
    /\ load' = [load EXCEPT ![c].step = "answered", ![c].rows = rows, ![c].next = NextCursor(rows)]
    /\ UNCHANGED <<made, list, live, alert, badge, page>>
-----------------------------------------------------------------------------
(* The page.  load(reset): a reset replaces the rows, a load of more rows  *)
(* appends to them.                                                        *)
Send(c, reset, filter, cursor) ==
    /\ ~UnderWay(c)
    /\ load' = [load EXCEPT ![c] = [Unused EXCEPT !.step = "sent", !.reset = reset,
                                                  !.filter = filter, !.cursor = cursor]]
    /\ list' = [list EXCEPT !.filter = filter, !.cursor = IF reset THEN 0 ELSE @,
                            !.loading = TRUE, !.clean = IF reset THEN ~Busy ELSE @]
    /\ UNCHANGED <<made, live, alert, badge, page>>

(* Opening the page and choosing a filter load at once, whatever is under  *)
(* way; the button for more rows is there with a cursor, and not while     *)
(* loading is set.                                                         *)
ChooseFilter(c, filter) == Send(c, TRUE, filter, 0)

(* A variant of LoadMore whose button is not disabled while loading.       *)
LoadMoreAnytime(c) == list.cursor # 0 /\ Send(c, FALSE, list.filter, list.cursor)

LoadMore(c) == list.cursor # 0 /\ ~list.loading /\ Send(c, FALSE, list.filter, list.cursor)

ShowRows(c) ==
    /\ load[c].step = "answered"
    /\ list' = [list EXCEPT !.items = IF load[c].reset THEN load[c].rows ELSE @ \o load[c].rows,
                            !.cursor = load[c].next, !.loading = FALSE]
    /\ load' = [load EXCEPT ![c] = Unused]
    /\ UNCHANGED <<made, live, alert, badge, page>>

(* The request fails: the rows shown stay.                                 *)
LoadFails(c) ==
    /\ UnderWay(c)
    /\ list' = [list EXCEPT !.loading = FALSE, !.clean = @ /\ ~load[c].reset]
    /\ load' = [load EXCEPT ![c] = Unused]
    /\ UNCHANGED <<made, live, alert, badge, page>>
-----------------------------------------------------------------------------
(* The store.  AppShell and the Notifications page both listen, and each   *)
(* pushes what it hears; an alert of the same transaction is not added     *)
(* twice.                                                                  *)
(* A variant of Push that adds one for each listener.                      *)
PushEach(i) ==
    /\ alert' = [alert EXCEPT ![i] = "new"]
    /\ badge' = badge + (IF alert[i] # "none" THEN 0 ELSE IF page.shown THEN 2 ELSE 1)

Push(i) ==
    IF alert[i] = "none"
    THEN alert' = [alert EXCEPT ![i] = "new"] /\ badge' = badge + 1
    ELSE UNCHANGED <<alert, badge>>

(* The handler publishes its event with the customer's id, and the gateway *)
(* emits it to the room of the customer's sockets; no one keeps it.        *)
EmitEvent(i) ==
    /\ i \in live.due
    /\ live' = [live EXCEPT !.due = @ \ {i}]
    /\ IF live.socket = "open" THEN Push(i) ELSE UNCHANGED <<alert, badge>>
    /\ UNCHANGED <<made, list, load, page>>

(* The connection drops; it is tried again with the token of old, which    *)
(* the gateway refuses once it has run out.                                *)
Disconnect ==
    /\ live.socket = "open"
    /\ \E s \in {"closed", "stale"} : live' = [live EXCEPT !.socket = s]
    /\ UNCHANGED <<made, list, load, alert, badge, page>>

Reconnect ==
    /\ live.socket = "closed"
    /\ live' = [live EXCEPT !.socket = "open"]
    /\ UNCHANGED <<made, list, load, alert, badge, page>>

(* Opening the Notifications page marks everything as read and asks for    *)
(* recent transactions.                                                    *)
OpenAlerts ==
    /\ ~page.shown
    /\ page' = [shown |-> TRUE, asks |-> TRUE]
    /\ alert' = [i \in Rows |-> IF alert[i] = "none" THEN "none" ELSE "read"]
    /\ badge' = 0
    /\ UNCHANGED <<made, list, load, live>>

CloseAlerts ==
    /\ page.shown
    /\ page' = [page EXCEPT !.shown = FALSE]
    /\ UNCHANGED <<made, list, load, live, alert, badge>>

(* Their answer, also after the page was left: seed adds those without an  *)
(* alert, as of the answer, and does not touch the badge.                  *)
Seed ==
    /\ page.asks
    /\ page' = [page EXCEPT !.asks = FALSE]
    /\ \E old \in SUBSET Made :
          alert' = [i \in Rows |-> IF i \in old /\ alert[i] = "none" THEN "seeded" ELSE alert[i]]
    /\ UNCHANGED <<made, list, load, live, badge>>

SeedFails ==
    /\ page.asks
    /\ page' = [page EXCEPT !.asks = FALSE]
    /\ UNCHANGED <<made, list, load, live, alert, badge>>
-----------------------------------------------------------------------------
ActivityNext ==
    \/ \E i \in Rows, type \in Types : CommitTransaction(i, type)
    \/ \E c \in Loads :
          \/ \E filter \in Filters : ChooseFilter(c, filter)
          \/ LoadMore(c) \/ AnswerList(c) \/ ShowRows(c) \/ LoadFails(c)
    \/ \E i \in Rows : EmitEvent(i)
    \/ Disconnect \/ Reconnect
    \/ OpenAlerts \/ CloseAlerts \/ Seed \/ SeedFails

ActivitySpec == ActivityInit /\ [][ActivityNext]_activityVars
-----------------------------------------------------------------------------
(* A list asked for while nothing was under way, and loaded page by page,  *)
(* holds rows of its filter only, in order and none of them twice,         *)
(* whatever was committed between two pages.                               *)
ListInOrder ==
    list.clean /\ ~Busy =>
        /\ \A k \in 1..Len(list.items) : list.filter \in {Every, made[list.items[k]]}
        /\ \A k \in 2..Len(list.items) : list.items[k] < list.items[k - 1]

(* The badge counts the alerts that arrived as events and were not read,   *)
(* however many components heard each of them, and however events, seeds   *)
(* and visits of the page meet.                                            *)
BadgeCountsNews == badge = Cardinality({i \in Rows : alert[i] = "new"})
=============================================================================
