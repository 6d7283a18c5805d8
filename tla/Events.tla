------------------------------- MODULE Events -------------------------------
(***************************************************************************)
(* Events about transactions: the outbox and its relays (packages/lib-     *)
(* queue), publishing and subscribing over LISTEN/NOTIFY (packages/lib-    *)
(* events), the fraud engine that scores what it hears (apps/fraud-        *)
(* engine), and the administrator's release and reversal of a transaction  *)
(* (apps/admin-api: routes/transactions), which meet it at the same rows.  *)
(*                                                                         *)
(* Of all events the engine handles only transaction.posted and            *)
(* transaction.created; the others are left out, but for the outbox rows   *)
(* they come from.                                                         *)
(***************************************************************************)
EXTENDS Naturals, FiniteSets, Sequences

CONSTANTS
    Txns,
    NoTxn,
    Relays,     \* processes with an outbox relay: both APIs and their replicas
    Scorers,    \* handlers the engine has under way at a time
    Tended,     \* bound: transactions that may wait, be released and be reversed
    MaxReleases, \* bound: releases of a transaction
    MaxHeard,   \* bound: notifications on their way at a time
    MaxFaults   \* bound: stops, dropped connections and statements that fail, the next one with it

ASSUME EventAssumption == NoTxn \notin Txns /\ Tended \subseteq Txns /\ MaxHeard \in Nat \ {0}
                          /\ MaxFaults \in Nat /\ MaxReleases \in Nat

VARIABLES
    status,     \* transactions.status
    outbox,     \* the outbox row of a transaction
    notice,     \* events a handler publishes itself, after its commit
    released,   \* releases of a transaction so far
    reversal,   \* the reversal of a transaction
    relay,      \* the relays
    engine,     \* the engine's subscription, and notifications on their way to it
    scorer,     \* scoreTransaction under way
    alerts,     \* transactions with rows in fraud_alerts
    fate,       \* history: what came first, a complete scoring or a fault that took an event
    faults      \* faults so far

tableVars == <<status, outbox, alerts>>
historyVars == <<fate, faults>>
eventVars == <<tableVars, notice, released, reversal, relay, engine, scorer, historyVars>>
-----------------------------------------------------------------------------
(* topic: the status in the row's topic, transaction.<status>.  "waiting": *)
(* delivered_at is null.  It is set in the other three, which the table    *)
(* does not tell apart: claimed, published, and dropped by a relay.        *)
Row == [state : {"none", "waiting", "claimed", "told", "lost"},
        topic : {"posted", "pending", "pending_review"}]

(* batch: claimed rows still to be published; refused: the row whose       *)
(* publish has thrown, until it is given back.                             *)
Relay == [batch : SUBSET Txns, refused : Txns \cup {NoTxn}]

Scorer == [step : {"idle", "begun", "read", "rated", "alerted", "flagged"}, txn : Txns \cup {NoTxn},
           seen : {"none", "posted", "pending", "pending_review", "reversed"}]

Idle == [step |-> "idle", txn |-> NoTxn, seen |-> "none"]

(* "deaf": the process runs, its LISTEN connection is gone.                *)
Engine == [sub : {"listening", "deaf", "down"}, heard : Seq(Txns)]

EventTypeOK ==
    /\ status \in [Txns -> {"none", "posted", "pending", "pending_review", "reversed"}]
    /\ outbox \in [Txns -> Row]
    /\ notice \in [Txns -> SUBSET {"transfer", "later"}]
    /\ released \in [Txns -> 0..MaxReleases]
    /\ reversal \in [Txns -> {"none", "posted", "marked"}]
    /\ relay \in [Relays -> Relay]
    /\ engine \in Engine /\ Len(engine.heard) <= MaxHeard
    /\ scorer \in [Scorers -> Scorer]
    /\ alerts \in SUBSET Txns
    /\ fate \in [Txns -> {"open", "scored", "spoilt"}]
    /\ faults \in 0..MaxFaults

EventInit ==
    /\ status = [t \in Txns |-> "none"]
    /\ outbox = [t \in Txns |-> [state |-> "none", topic |-> "posted"]]
    /\ notice = [t \in Txns |-> {}]
    /\ released = [t \in Txns |-> 0]
    /\ reversal = [t \in Txns |-> "none"]
    /\ relay = [r \in Relays |-> [batch |-> {}, refused |-> NoTxn]]
    /\ engine = [sub |-> "listening", heard |-> <<>>]
    /\ scorer = [s \in Scorers |-> Idle]
    /\ alerts = {}
    /\ fate = [t \in Txns |-> "open"]
    /\ faults = 0

Waiting == {t \in Txns : outbox[t].state = "waiting"}

MarkRows(T, s) == outbox' = [t \in Txns |-> IF t \in T THEN [outbox[t] EXCEPT !.state = s] ELSE outbox[t]]

Ends(T, f) == fate' = [t \in Txns |-> IF t \in T /\ fate[t] = "open" THEN f ELSE fate[t]]

Fault == faults < MaxFaults /\ faults' = faults + 1

(* pg_notify of an event the engine handles: only who listens at the       *)
(* moment gets it, in the order of the commits.                            *)
Notify(t) ==
    \/ /\ engine.sub = "listening" /\ Len(engine.heard) < MaxHeard
       /\ engine' = [engine EXCEPT !.heard = Append(@, t)]
       /\ fate' = fate
    \/ /\ engine.sub # "listening"
       /\ Ends({t}, "spoilt")
       /\ engine' = engine
-----------------------------------------------------------------------------
(* Handlers.  A transfer commits its transaction and the outbox row in one *)
(* database transaction, and publishes another event of its own later, the *)
(* fraud engine's business unless the transfer begins under review.        *)
PostTransfer(t, s) ==
    /\ status[t] = "none"
    /\ status' = [status EXCEPT ![t] = s]
    /\ outbox' = [outbox EXCEPT ![t] = [state |-> "waiting", topic |-> s]]
    /\ notice' = [notice EXCEPT ![t] = IF s = "pending_review" THEN {} ELSE {"transfer"}]
    /\ UNCHANGED <<alerts, released, reversal, relay, engine, scorer, historyVars>>

PublishNotice(t, n) ==
    /\ n \in notice[t]
    /\ notice' = [notice EXCEPT ![t] = @ \ {n}]
    /\ Notify(t)
    /\ UNCHANGED <<tableVars, released, reversal, relay, scorer, faults>>

(* The publish throws, or the process stops before it: no row remembers    *)
(* the event.                                                              *)
LoseNotice(t, n) ==
    /\ n \in notice[t]
    /\ notice' = [notice EXCEPT ![t] = @ \ {n}]
    /\ UNCHANGED <<tableVars, released, reversal, relay, engine, scorer, historyVars>>

(* The administrator's release, and settlement by the transaction worker   *)
(* (module Settlement), post a transaction and publish the event again.    *)
Release(t) ==
    /\ status[t] \in {"pending_review", "pending"} /\ released[t] < MaxReleases
    /\ released' = [released EXCEPT ![t] = @ + 1]
    /\ status' = [status EXCEPT ![t] = "posted"]
    /\ notice' = [notice EXCEPT ![t] = @ \cup {"later"}]
    /\ UNCHANGED <<outbox, alerts, reversal, relay, engine, scorer, historyVars>>

(* The reversal reads the status without a lock, posts the mirrored        *)
(* entries in a database transaction (in one step here), and marks the row *)
(* in a statement of its own, whatever its status is by then.              *)
ReversePost(t) ==
    /\ reversal[t] = "none" /\ status[t] = "posted"
    /\ reversal' = [reversal EXCEPT ![t] = "posted"]
    /\ UNCHANGED <<tableVars, notice, released, relay, engine, scorer, historyVars>>

ReverseMark(t) ==
    /\ reversal[t] = "posted"
    /\ status' = [status EXCEPT ![t] = "reversed"]
    /\ reversal' = [reversal EXCEPT ![t] = "marked"]
    /\ UNCHANGED <<outbox, alerts, notice, released, relay, engine, scorer, historyVars>>

(* The handler ends early.  A new call posts the mirrored entries under    *)
(* the same key, so they are found, not posted again.                      *)
ReverseCut(t) ==
    /\ reversal[t] = "posted"
    /\ reversal' = [reversal EXCEPT ![t] = "none"]
    /\ UNCHANGED <<tableVars, notice, released, relay, engine, scorer, historyVars>>
-----------------------------------------------------------------------------
(* The relay.  One statement claims what waits and sets delivered_at; the  *)
(* rows are published after its commit, one by one.                        *)
ClaimRows(r) ==
    /\ relay[r].batch = {} /\ relay[r].refused = NoTxn
    /\ Waiting # {}
    /\ relay' = [relay EXCEPT ![r].batch = Waiting]
    /\ MarkRows(Waiting, "claimed")
    /\ UNCHANGED <<status, alerts, notice, released, reversal, engine, scorer, historyVars>>

PublishRow(r, t) ==
    /\ t \in relay[r].batch /\ relay[r].refused = NoTxn
    /\ relay' = [relay EXCEPT ![r].batch = @ \ {t}]
    /\ MarkRows({t}, "told")
    /\ IF outbox[t].topic = "posted" THEN Notify(t) ELSE UNCHANGED <<engine, fate>>
    /\ UNCHANGED <<status, alerts, notice, released, reversal, scorer, faults>>

(* publish throws: nothing was sent, or only the answer got lost.          *)
PublishThrows(r, t) ==
    /\ t \in relay[r].batch /\ relay[r].refused = NoTxn
    /\ Fault
    /\ relay' = [relay EXCEPT ![r] = [batch |-> relay[r].batch \ {t}, refused |-> t]]
    /\ \/ outbox[t].topic = "posted" /\ Notify(t)
       \/ UNCHANGED <<engine, fate>>
    /\ UNCHANGED <<tableVars, notice, released, reversal, scorer>>

(* A variant of GiveBack: the error is noted, delivered_at stays.          *)
NoteError(r) ==
    /\ relay[r].refused # NoTxn
    /\ relay' = [relay EXCEPT ![r].refused = NoTxn]
    /\ UNCHANGED <<tableVars, notice, released, reversal, engine, scorer, historyVars>>

GiveBack(r) ==
    /\ relay[r].refused # NoTxn
    /\ relay' = [relay EXCEPT ![r].refused = NoTxn]
    /\ MarkRows({relay[r].refused}, "waiting")
    /\ UNCHANGED <<status, alerts, notice, released, reversal, engine, scorer, historyVars>>

Held(r) == relay[r].batch \cup ({relay[r].refused} \ {NoTxn})

(* What a relay holds goes with it, when its UPDATE fails as well (the     *)
(* loop starts over) and when its process stops (and is started again).    *)
DropBatch(r) ==
    /\ relay' = [relay EXCEPT ![r] = [batch |-> {}, refused |-> NoTxn]]
    /\ MarkRows(Held(r), "lost")
    /\ Ends(Held(r), "spoilt")
    /\ UNCHANGED <<status, alerts, notice, released, reversal, engine, scorer>>

GiveBackFails(r) == relay[r].refused # NoTxn /\ DropBatch(r) /\ faults' = faults

StopRelay(r) == Held(r) # {} /\ DropBatch(r) /\ Fault

-----------------------------------------------------------------------------
(* The fraud engine.  Each notification starts a handler; handlers do not  *)
(* wait for each other.                                                    *)
OnMessage(s) ==
    /\ engine.sub = "listening" /\ engine.heard # <<>>
    /\ scorer[s] = Idle
    /\ engine' = [engine EXCEPT !.heard = Tail(@)]
    /\ scorer' = [scorer EXCEPT ![s].step = "begun", ![s].txn = Head(engine.heard)]
    /\ UNCHANGED <<tableVars, notice, released, reversal, relay, historyVars>>

ReadTransaction(s) ==
    /\ scorer[s].step = "begun"
    /\ scorer' = [scorer EXCEPT ![s].step = "read", ![s].seen = status[scorer[s].txn]]
    /\ UNCHANGED <<tableVars, notice, released, reversal, relay, engine, historyVars>>

StepOn(s, step) == scorer' = [scorer EXCEPT ![s].step = step]

Finish(s) ==
    /\ scorer' = [scorer EXCEPT ![s] = Idle]
    /\ Ends({scorer[s].txn}, "scored")

(* The rules, each a query of its own, and the score in the row.  They may *)
(* find anything; below the threshold that is all.                         *)
Rate(s) ==
    /\ scorer[s].step = "read"
    /\ \/ StepOn(s, "rated") /\ fate' = fate
       \/ Finish(s)
    /\ UNCHANGED <<tableVars, notice, released, reversal, relay, engine, faults>>

InsertAlerts(s) ==
    /\ scorer[s].step = "rated"
    /\ alerts' = alerts \cup {scorer[s].txn}
    /\ StepOn(s, "alerted")
    /\ UNCHANGED <<status, outbox, notice, released, reversal, relay, engine, historyVars>>

(* A variant of Flag that relies on the status read before the rules ran.  *)
FlagAsRead(s) ==
    /\ scorer[s].step = "alerted"
    /\ status' = IF scorer[s].seen \in {"posted", "pending"}
                 THEN [status EXCEPT ![scorer[s].txn] = "pending_review"] ELSE status
    /\ StepOn(s, "flagged")
    /\ UNCHANGED <<outbox, alerts, notice, released, reversal, relay, engine, historyVars>>

Flag(s) ==
    LET t == scorer[s].txn IN
    /\ scorer[s].step = "alerted"
    /\ status' = IF {scorer[s].seen, status[t]} \subseteq {"posted", "pending"}
                 THEN [status EXCEPT ![t] = "pending_review"] ELSE status
    /\ StepOn(s, "flagged")
    /\ UNCHANGED <<outbox, alerts, notice, released, reversal, relay, engine, historyVars>>

(* publish of fraud.alert, an event for others.                            *)
PublishAlert(s) ==
    /\ scorer[s].step = "flagged"
    /\ Finish(s)
    /\ UNCHANGED <<tableVars, notice, released, reversal, relay, engine, faults>>

(* A query or the publish throws: the handler ends and is only logged.     *)
ScoreFails(s) ==
    /\ scorer[s].step # "idle"
    /\ Fault
    /\ scorer' = [scorer EXCEPT ![s] = Idle]
    /\ Ends({scorer[s].txn}, "spoilt")
    /\ UNCHANGED <<tableVars, notice, released, reversal, relay, engine>>

(* The connection drops: the error is logged, and that is all.             *)
OnItsWay == {engine.heard[i] : i \in 1..Len(engine.heard)}
UnderWay == {scorer[s].txn : s \in {x \in Scorers : scorer[x].step # "idle"}}

DropConnection ==
    /\ engine.sub = "listening"
    /\ Fault
    /\ engine' = [sub |-> "deaf", heard |-> <<>>]
    /\ Ends(OnItsWay, "spoilt")
    /\ UNCHANGED <<tableVars, notice, released, reversal, relay, scorer>>

StopEngine ==
    /\ engine.sub # "down"
    /\ Fault
    /\ engine' = [sub |-> "down", heard |-> <<>>]
    /\ scorer' = [s \in Scorers |-> Idle]
    /\ Ends(OnItsWay \cup UnderWay, "spoilt")
    /\ UNCHANGED <<tableVars, notice, released, reversal, relay>>

StartEngine ==
    /\ engine.sub = "down"
    /\ engine' = [engine EXCEPT !.sub = "listening"]
    /\ UNCHANGED <<tableVars, notice, released, reversal, relay, scorer, historyVars>>
-----------------------------------------------------------------------------
HandlerNext(t) ==
    \/ PostTransfer(t, "posted")
    \/ t \in Tended /\ (PostTransfer(t, "pending") \/ PostTransfer(t, "pending_review"))
    \/ \E n \in {"transfer", "later"} : PublishNotice(t, n) \/ LoseNotice(t, n)
    \/ t \in Tended /\ (Release(t) \/ ReversePost(t))
    \/ ReverseMark(t) \/ ReverseCut(t)

RelayNext(r) ==
    \/ ClaimRows(r)
    \/ \E t \in Txns : PublishRow(r, t)
    \/ GiveBack(r)

RelayFault(r) ==
    \/ \E t \in Txns : PublishThrows(r, t)
    \/ GiveBackFails(r)
    \/ StopRelay(r)

ScorerNext(s) ==
    \/ OnMessage(s) \/ ReadTransaction(s)
    \/ Rate(s) \/ InsertAlerts(s) \/ Flag(s) \/ PublishAlert(s)

EngineFault == DropConnection \/ StopEngine \/ \E s \in Scorers : ScoreFails(s)

EventNext ==
    \/ \E t \in Txns : HandlerNext(t)
    \/ \E r \in Relays : RelayNext(r) \/ RelayFault(r)
    \/ \E s \in Scorers : ScorerNext(s)
    \/ StartEngine
    \/ EngineFault

(* A relay's loop has no end, an engine that stopped is started again, and  *)
(* a handler of the engine goes from query to query.                       *)
EventFairness ==
    /\ \A r \in Relays : WF_eventVars(RelayNext(r))
    /\ \A s \in Scorers : WF_eventVars(ScorerNext(s))
    /\ WF_eventVars(StartEngine)

EventSpec == EventInit /\ [][EventNext]_eventVars /\ EventFairness
-----------------------------------------------------------------------------
(* What is under review has alerts to say why, unless it began there, and  *)
(* it is not a transaction already marked as reversed, however old the     *)
(* status is that the engine read.                                         *)
ReviewsAreSound ==
    \A t \in Txns : status[t] = "pending_review" =>
        /\ t \in alerts \/ outbox[t].topic = "pending_review"
        /\ reversal[t] # "marked"

(* A transaction that is committed as posted is scored in the end, unless  *)
(* a fault took its event from a relay or from the engine: the outbox      *)
(* makes up for a publish that throws, and for nothing else.               *)
EveryPostingIsScored ==
    \A t \in Txns :
        outbox[t] = [state |-> "waiting", topic |-> "posted"] ~> fate[t] # "open"
=============================================================================
