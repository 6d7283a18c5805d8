----------------------------- MODULE EventProofs -----------------------------
(***************************************************************************)
(* Proofs about the outbox and the fraud engine, for any transactions,     *)
(* relays and handlers.                                                    *)
(***************************************************************************)
EXTENDS Events, SequenceTheorems, TLAPS

\* What relay r holds is claimed, and by no other relay: SKIP LOCKED and
\* delivered_at keep the relays apart.
RowsHeldOnce ==
    \A r \in Relays : \A t \in Held(r) :
        /\ outbox[t].state = "claimed"
        /\ relay[r].refused \notin relay[r].batch
        /\ \A q \in Relays : t \in Held(q) => q = r

\* A handler of the engine has a transaction, and alerts for it by the time it
\* looks at the status again.
ScorersKnow ==
    \A s \in Scorers :
        /\ scorer[s].step # "idle" => scorer[s].txn \in Txns
        /\ scorer[s].step \in {"alerted", "flagged"} => scorer[s].txn \in alerts

\* The outbox row is committed with the transaction.
RowsFollow == \A t \in Txns : status[t] = "none" => outbox[t].state = "none"

MarkedIsReversed == \A t \in Txns : reversal[t] = "marked" => status[t] = "reversed"

EventInv ==
    /\ EventTypeOK /\ RowsHeldOnce /\ RowsFollow /\ ScorersKnow
    /\ MarkedIsReversed /\ ReviewsAreSound

-----------------------------------------------------------------------------
(* Types                                                                   *)

LEMMA EventInitType ==
  ASSUME EventInit PROVE EventTypeOK
<1> USE EventAssumption
<1>1. engine \in Engine /\ Len(engine.heard) <= MaxHeard
  BY DEF EventInit, Engine
<1>2. outbox \in [Txns -> Row] /\ relay \in [Relays -> Relay] /\ scorer \in [Scorers -> Scorer]
  BY DEF EventInit, Row, Relay, Scorer, Idle
<1>3. released \in [Txns -> 0..MaxReleases] /\ faults \in 0..MaxFaults
  BY DEF EventInit
<1> QED
  BY <1>1, <1>2, <1>3 DEF EventInit, EventTypeOK

LEMMA MarkRowsType ==
  ASSUME EventTypeOK, NEW T, NEW s \in {"waiting", "claimed", "told", "lost"}, MarkRows(T, s)
  PROVE  /\ outbox' \in [Txns -> Row]
         /\ \A t \in Txns : /\ outbox'[t].topic = outbox[t].topic
                            /\ outbox'[t].state = IF t \in T THEN s ELSE outbox[t].state
<1>1. \A t \in Txns : outbox[t] \in Row
  BY DEF EventTypeOK
<1>2. \A t \in Txns : /\ [outbox[t] EXCEPT !.state = s] \in Row
                      /\ [outbox[t] EXCEPT !.state = s].topic = outbox[t].topic
                      /\ [outbox[t] EXCEPT !.state = s].state = s
  BY <1>1 DEF Row
<1>3. \A t \in Txns : outbox'[t] = IF t \in T THEN [outbox[t] EXCEPT !.state = s] ELSE outbox[t]
  BY DEF MarkRows
<1>4. outbox' \in [Txns -> Row]
  BY <1>1, <1>2, <1>3 DEF MarkRows
<1> QED
  BY <1>2, <1>3, <1>4

LEMMA EndsType ==
  ASSUME EventTypeOK, NEW T, NEW f \in {"scored", "spoilt"}, Ends(T, f)
  PROVE  fate' \in [Txns -> {"open", "scored", "spoilt"}]
  BY DEF EventTypeOK, Ends

LEMMA FaultType ==
  ASSUME EventTypeOK, Fault PROVE faults' \in 0..MaxFaults
  BY EventAssumption DEF EventTypeOK, Fault

LEMMA NotifyType ==
  ASSUME EventTypeOK, NEW t \in Txns, Notify(t)
  PROVE  /\ engine' \in Engine /\ Len(engine'.heard) <= MaxHeard
         /\ fate' \in [Txns -> {"open", "scored", "spoilt"}]
<1>1. engine \in Engine /\ engine.heard \in Seq(Txns) /\ Len(engine.heard) <= MaxHeard
  BY DEF EventTypeOK, Engine
<1>2. CASE /\ engine.sub = "listening" /\ Len(engine.heard) < MaxHeard
           /\ engine' = [engine EXCEPT !.heard = Append(@, t)]
           /\ fate' = fate
  <2> DEFINE h == Append(engine.heard, t)
  <2>1. h \in Seq(Txns) /\ Len(h) = Len(engine.heard) + 1
    BY <1>1
  <2>2. Len(h) <= MaxHeard
    BY <1>1, <1>2, <2>1, EventAssumption
  <2> HIDE DEF h
  <2>3. engine' \in Engine /\ engine'.heard = h
    BY <1>1, <1>2, <2>1 DEF Engine, h
  <2> QED
    BY <1>2, <2>2, <2>3 DEF EventTypeOK
<1>3. CASE engine.sub # "listening" /\ Ends({t}, "spoilt") /\ engine' = engine
  BY <1>1, <1>3, EndsType
<1> QED
  BY <1>2, <1>3 DEF Notify

LEMMA EventNextType ==
  ASSUME EventTypeOK, ScorersKnow, [EventNext]_eventVars
  PROVE  EventTypeOK'
<1> USE EventAssumption DEF EventTypeOK
<1> USE DEF tableVars, historyVars
<1>t. /\ \A t \in Txns : outbox[t] \in Row /\ released[t] \in 0..MaxReleases
                          /\ notice[t] \subseteq {"transfer", "later"}
      /\ \A r \in Relays : relay[r] \in Relay
      /\ \A s \in Scorers : scorer[s] \in Scorer
  OBVIOUS
<1>1. ASSUME NEW t \in Txns, NEW s \in {"posted", "pending", "pending_review"}, PostTransfer(t, s)
      PROVE  EventTypeOK'
  <2>1. outbox' \in [Txns -> Row]
    BY <1>t, <1>1 DEF PostTransfer, Row
  <2> QED
    BY <1>1, <2>1 DEF PostTransfer
<1>2. ASSUME NEW t \in Txns, NEW n \in {"transfer", "later"}, PublishNotice(t, n) PROVE EventTypeOK'
  <2>1. notice' \in [Txns -> SUBSET {"transfer", "later"}]
    BY <1>t, <1>2 DEF PublishNotice
  <2>2. Notify(t)
    BY <1>2 DEF PublishNotice
  <2> QED
    BY <1>2, <2>1, <2>2, NotifyType DEF PublishNotice
<1>3. ASSUME NEW t \in Txns, NEW n \in {"transfer", "later"}, LoseNotice(t, n) PROVE EventTypeOK'
  BY <1>t, <1>3 DEF LoseNotice
<1>4. ASSUME NEW t \in Txns, Release(t) PROVE EventTypeOK'
  <2>1. released' \in [Txns -> 0..MaxReleases]
    BY <1>t, <1>4 DEF Release
  <2>2. notice' \in [Txns -> SUBSET {"transfer", "later"}]
    BY <1>t, <1>4 DEF Release
  <2> QED
    BY <1>4, <2>1, <2>2 DEF Release
<1>5. ASSUME NEW t \in Txns, ReversePost(t) \/ ReverseMark(t) \/ ReverseCut(t) PROVE EventTypeOK'
  BY <1>5 DEF ReversePost, ReverseMark, ReverseCut
<1>6. ASSUME NEW r \in Relays, ClaimRows(r) PROVE EventTypeOK'
  <2>1. Waiting \subseteq Txns
    BY DEF Waiting
  <2>2. relay' \in [Relays -> Relay]
    BY <1>t, <1>6, <2>1 DEF ClaimRows, Relay
  <2>3. outbox' \in [Txns -> Row]
    BY <1>6, MarkRowsType DEF ClaimRows
  <2> QED
    BY <1>6, <2>2, <2>3 DEF ClaimRows
<1>7. ASSUME NEW r \in Relays, NEW t \in Txns, PublishRow(r, t) PROVE EventTypeOK'
  <2>1. relay' \in [Relays -> Relay]
    BY <1>t, <1>7 DEF PublishRow, Relay
  <2>2. outbox' \in [Txns -> Row]
    BY <1>7, MarkRowsType DEF PublishRow
  <2>3. engine' \in Engine /\ Len(engine'.heard) <= MaxHeard
        /\ fate' \in [Txns -> {"open", "scored", "spoilt"}]
    BY <1>7, NotifyType DEF PublishRow
  <2> QED
    BY <1>7, <2>1, <2>2, <2>3 DEF PublishRow
<1>8. ASSUME NEW r \in Relays, NEW t \in Txns, PublishThrows(r, t) PROVE EventTypeOK'
  <2>1. relay[r].batch \ {t} \subseteq Txns
    BY <1>t DEF Relay
  <2>2. relay' \in [Relays -> Relay]
    BY <1>t, <1>8, <2>1 DEF PublishThrows, Relay
  <2>3. engine' \in Engine /\ Len(engine'.heard) <= MaxHeard
        /\ fate' \in [Txns -> {"open", "scored", "spoilt"}]
    BY <1>8, NotifyType DEF PublishThrows
  <2>4. faults' \in 0..MaxFaults
    BY <1>8, FaultType DEF PublishThrows
  <2> QED
    BY <1>8, <2>2, <2>3, <2>4 DEF PublishThrows
<1>9. ASSUME NEW r \in Relays, GiveBack(r) PROVE EventTypeOK'
  <2>1. relay' \in [Relays -> Relay]
    BY <1>t, <1>9 DEF GiveBack, Relay
  <2>2. outbox' \in [Txns -> Row]
    BY <1>9, MarkRowsType DEF GiveBack
  <2> QED
    BY <1>9, <2>1, <2>2 DEF GiveBack
<1>10. ASSUME NEW r \in Relays, GiveBackFails(r) \/ StopRelay(r) PROVE EventTypeOK'
  <2>1. relay' \in [Relays -> Relay]
    BY <1>10 DEF GiveBackFails, StopRelay, DropBatch, Relay
  <2>2. outbox' \in [Txns -> Row]
    BY <1>10, MarkRowsType DEF GiveBackFails, StopRelay, DropBatch
  <2>3. fate' \in [Txns -> {"open", "scored", "spoilt"}]
    BY <1>10, EndsType DEF GiveBackFails, StopRelay, DropBatch
  <2>4. faults' \in 0..MaxFaults
    BY <1>10, FaultType DEF GiveBackFails, StopRelay
  <2> QED
    BY <1>10, <2>1, <2>2, <2>3, <2>4 DEF GiveBackFails, StopRelay, DropBatch
<1>11. ASSUME NEW s \in Scorers, OnMessage(s) PROVE EventTypeOK'
  <2>1. /\ engine.heard \in Seq(Txns) /\ engine.heard # <<>> /\ engine \in Engine
    BY <1>11 DEF OnMessage, Engine
  <2>2. /\ Head(engine.heard) \in Txns /\ Tail(engine.heard) \in Seq(Txns)
        /\ Len(Tail(engine.heard)) = Len(engine.heard) - 1 /\ Len(engine.heard) \in Nat
    BY <2>1, HeadTailProperties, LenProperties
  <2> DEFINE h == Tail(engine.heard)
             m == Head(engine.heard)
  <2>3. engine' = [engine EXCEPT !.heard = h]
        /\ scorer' = [scorer EXCEPT ![s] = [scorer[s] EXCEPT !.step = "begun", !.txn = m]]
    BY <1>11 DEF OnMessage
  <2>4. h \in Seq(Txns) /\ m \in Txns /\ Len(h) <= MaxHeard
    BY <2>2
  <2> HIDE DEF h, m
  <2>5. engine' \in Engine /\ engine'.heard = h
    BY <2>1, <2>3, <2>4 DEF Engine
  <2>6. [scorer[s] EXCEPT !.step = "begun", !.txn = m] \in Scorer
    BY <1>t, <2>4 DEF Scorer
  <2>7. scorer' \in [Scorers -> Scorer]
    BY <2>3, <2>6
  <2> QED
    BY <1>11, <2>4, <2>5, <2>7 DEF OnMessage
<1>12. ASSUME NEW s \in Scorers, ReadTransaction(s) PROVE EventTypeOK'
  <2> DEFINE seen == status[scorer[s].txn]
  <2>1. seen \in {"none", "posted", "pending", "pending_review", "reversed"}
    BY <1>12 DEF ReadTransaction, ScorersKnow
  <2>2. scorer' = [scorer EXCEPT ![s] = [scorer[s] EXCEPT !.step = "read", !.seen = seen]]
    BY <1>12 DEF ReadTransaction
  <2> HIDE DEF seen
  <2>3. [scorer[s] EXCEPT !.step = "read", !.seen = seen] \in Scorer
    BY <1>t, <2>1 DEF Scorer
  <2>4. scorer' \in [Scorers -> Scorer]
    BY <2>2, <2>3
  <2> QED
    BY <1>12, <2>4 DEF ReadTransaction
<1>13. ASSUME NEW s \in Scorers, NEW step \in {"rated", "alerted", "flagged"}, StepOn(s, step)
       PROVE  scorer' \in [Scorers -> Scorer]
  <2>1. scorer[s] \in Scorer
    BY <1>t, <1>13
  <2>2. [scorer[s] EXCEPT !.step = step] \in Scorer
    BY <2>1 DEF Scorer
  <2>3. scorer' = [scorer EXCEPT ![s] = [scorer[s] EXCEPT !.step = step]]
    BY <1>13 DEF StepOn
  <2> QED
    BY <1>t, <2>2, <2>3
<1>14. ASSUME NEW s \in Scorers, Finish(s)
       PROVE  /\ scorer' \in [Scorers -> Scorer]
              /\ fate' \in [Txns -> {"open", "scored", "spoilt"}]
  BY <1>14, EndsType DEF Finish, Idle, Scorer
<1>15. ASSUME NEW s \in Scorers, Rate(s) PROVE EventTypeOK'
  BY <1>13, <1>14, <1>15 DEF Rate
<1>16. ASSUME NEW s \in Scorers, InsertAlerts(s) PROVE EventTypeOK'
  <2>1. scorer[s].txn \in Txns
    BY <1>16 DEF InsertAlerts, ScorersKnow
  <2> QED
    BY <1>13, <1>16, <2>1 DEF InsertAlerts
<1>17. ASSUME NEW s \in Scorers, Flag(s) PROVE EventTypeOK'
  BY <1>13, <1>17 DEF Flag
<1>18. ASSUME NEW s \in Scorers, PublishAlert(s) PROVE EventTypeOK'
  BY <1>14, <1>18 DEF PublishAlert
<1>19. ASSUME NEW s \in Scorers, ScoreFails(s) PROVE EventTypeOK'
  <2>1. scorer' \in [Scorers -> Scorer]
    BY <1>19 DEF ScoreFails, Idle, Scorer
  <2>2. fate' \in [Txns -> {"open", "scored", "spoilt"}]
    BY <1>19, EndsType DEF ScoreFails
  <2>3. faults' \in 0..MaxFaults
    BY <1>19, FaultType DEF ScoreFails
  <2> QED
    BY <1>19, <2>1, <2>2, <2>3 DEF ScoreFails
<1>20. ASSUME DropConnection \/ StopEngine PROVE EventTypeOK'
  <2>1. PICK sub \in {"deaf", "down"} : engine' = [sub |-> sub, heard |-> <<>>]
    BY <1>20 DEF DropConnection, StopEngine
  <2> DEFINE h == <<>>
  <2>h. h \in Seq(Txns) /\ Len(h) = 0
    OBVIOUS
  <2> HIDE DEF h
  <2>2. engine' \in Engine /\ Len(engine'.heard) <= MaxHeard
    <3>1. engine' = [sub |-> sub, heard |-> h]
      BY <2>1 DEF h
    <3> QED
      BY <2>h, <3>1 DEF Engine
  <2>3. scorer' \in [Scorers -> Scorer]
    BY <1>20 DEF DropConnection, StopEngine, Idle, Scorer
  <2>4. fate' \in [Txns -> {"open", "scored", "spoilt"}]
    BY <1>20, EndsType DEF DropConnection, StopEngine
  <2>5. faults' \in 0..MaxFaults
    BY <1>20, FaultType DEF DropConnection, StopEngine
  <2> QED
    BY <1>20, <2>2, <2>3, <2>4, <2>5 DEF DropConnection, StopEngine
<1>21. ASSUME StartEngine PROVE EventTypeOK'
  <2>1. engine' \in Engine /\ engine'.heard = engine.heard
    BY <1>21 DEF StartEngine, Engine
  <2> QED
    BY <1>21, <2>1 DEF StartEngine
<1>22. UNCHANGED eventVars => EventTypeOK'
  BY DEF eventVars
<1> QED
  BY <1>1, <1>2, <1>3, <1>4, <1>5, <1>6, <1>7, <1>8, <1>9, <1>10, <1>11, <1>12, <1>15, <1>16, <1>17,
     <1>18, <1>19, <1>20, <1>21, <1>22
     DEF EventNext, HandlerNext, RelayNext, RelayFault, ScorerNext, EngineFault

-----------------------------------------------------------------------------
(* The invariant                                                           *)

\* Nothing is claimed, published or given back.
LEMMA HeldKept ==
  ASSUME RowsHeldOnce, relay' = relay,
         \A t \in Txns : outbox[t].state = "claimed" => outbox'[t].state = "claimed",
         \A r \in Relays : Held(r) \subseteq Txns
  PROVE  RowsHeldOnce'
  BY DEF RowsHeldOnce, Held

\* No handler of the engine starts, and no alert is deleted: none ever is.
LEMMA ScorersKept ==
  ASSUME ScorersKnow, alerts \subseteq alerts',
         \A s \in Scorers : scorer'[s] = scorer[s] \/ scorer'[s].step = "idle"
  PROVE  ScorersKnow'
  BY DEF ScorersKnow

\* Statuses, topics and reversals stay.
LEMMA ReviewsKept ==
  ASSUME MarkedIsReversed, ReviewsAreSound, status' = status, reversal' = reversal,
         alerts \subseteq alerts', \A t \in Txns : outbox'[t].topic = outbox[t].topic
  PROVE  MarkedIsReversed' /\ ReviewsAreSound'
  BY DEF MarkedIsReversed, ReviewsAreSound

\* One transaction changes its status or its reversal.
LEMMA ReviewsStep ==
  ASSUME MarkedIsReversed, ReviewsAreSound, NEW t \in Txns,
         \A u \in Txns : u # t => status'[u] = status[u] /\ reversal'[u] = reversal[u]
                                   /\ outbox'[u].topic = outbox[u].topic,
         alerts \subseteq alerts',
         reversal'[t] = "marked" => status'[t] = "reversed",
         status'[t] = "pending_review" => t \in alerts \/ outbox'[t].topic = "pending_review"
  PROVE  MarkedIsReversed' /\ ReviewsAreSound'
  BY DEF MarkedIsReversed, ReviewsAreSound

LEMMA HeldTypes ==
  ASSUME EventTypeOK PROVE \A r \in Relays : Held(r) \subseteq Txns
<1>1. \A r \in Relays : relay[r] \in Relay
  BY DEF EventTypeOK
<1> QED
  BY <1>1 DEF Relay, Held

LEMMA EventInitInv ==
  ASSUME EventInit PROVE EventInv
<1>1. RowsHeldOnce
  BY DEF EventInit, RowsHeldOnce, Held
<1>2. RowsFollow /\ ScorersKnow /\ MarkedIsReversed /\ ReviewsAreSound
  BY DEF EventInit, RowsFollow, ScorersKnow, MarkedIsReversed, ReviewsAreSound, Idle
<1> QED
  BY <1>1, <1>2, EventInitType DEF EventInv

LEMMA EventNextInv ==
  ASSUME EventInv, [EventNext]_eventVars
  PROVE  EventInv'
<1> USE EventAssumption DEF EventInv, tableVars, historyVars
<1>0. EventTypeOK'
  BY EventNextType
<1> DEFINE Rest == RowsHeldOnce /\ RowsFollow /\ ScorersKnow /\ MarkedIsReversed /\ ReviewsAreSound
<1>t. /\ \A r \in Relays : relay[r] \in Relay
      /\ \A s \in Scorers : scorer[s] \in Scorer
      /\ relay \in [Relays -> Relay] /\ scorer \in [Scorers -> Scorer]
      /\ status \in [Txns -> {"none", "posted", "pending", "pending_review", "reversed"}]
      /\ outbox \in [Txns -> Row] /\ reversal \in [Txns -> {"none", "posted", "marked"}]
      /\ \A r \in Relays : Held(r) \subseteq Txns
  BY HeldTypes DEF EventTypeOK
<1>1. ASSUME NEW t \in Txns, NEW s \in {"posted", "pending", "pending_review"}, PostTransfer(t, s)
      PROVE  Rest'
  <2>1. /\ status[t] = "none" /\ status'[t] = s /\ outbox'[t].topic = s
        /\ outbox'[t].state = "waiting" /\ UNCHANGED <<alerts, reversal, relay, scorer>>
        /\ \A u \in Txns : u # t => status'[u] = status[u] /\ outbox'[u] = outbox[u]
    BY <1>t, <1>1 DEF PostTransfer
  <2>2. reversal[t] # "marked"
    BY <2>1 DEF MarkedIsReversed
  <2>3. MarkedIsReversed' /\ ReviewsAreSound'
    BY <2>1, <2>2, ReviewsStep
  <2>4. \A r \in Relays : t \notin Held(r)
    BY <2>1 DEF RowsHeldOnce, RowsFollow
  <2>5. RowsHeldOnce'
    BY <1>t, <2>1, <2>4 DEF RowsHeldOnce, Held
  <2>6. RowsFollow' /\ ScorersKnow'
    BY <2>1 DEF RowsFollow, ScorersKnow
  <2> QED
    BY <2>3, <2>5, <2>6
<1>2. ASSUME NEW t \in Txns, NEW n \in {"transfer", "later"}, PublishNotice(t, n) \/ LoseNotice(t, n)
      PROVE  Rest'
  <2>1. UNCHANGED <<status, outbox, alerts, reversal, relay, scorer>>
    BY <1>2 DEF PublishNotice, LoseNotice
  <2> QED
    BY <1>t, <2>1, HeldKept, ScorersKept, ReviewsKept DEF RowsFollow
<1>3. ASSUME NEW t \in Txns, Release(t) \/ ReversePost(t) \/ ReverseMark(t) \/ ReverseCut(t)
      PROVE  Rest'
  <2>1. /\ UNCHANGED <<outbox, alerts, relay, scorer>>
        /\ \A u \in Txns : u # t => status'[u] = status[u] /\ reversal'[u] = reversal[u]
    BY <1>t, <1>3 DEF Release, ReversePost, ReverseMark, ReverseCut
  <2>2. /\ status'[t] = "none" => status[t] = "none"
        /\ reversal'[t] = "marked" => status'[t] = "reversed"
        /\ status'[t] = "pending_review" => status[t] = "pending_review"
    BY <1>t, <1>3 DEF Release, ReversePost, ReverseMark, ReverseCut, MarkedIsReversed
  <2>3. MarkedIsReversed' /\ ReviewsAreSound'
    BY <2>1, <2>2, ReviewsStep DEF ReviewsAreSound
  <2>4. RowsHeldOnce' /\ RowsFollow' /\ ScorersKnow'
    BY <1>t, <2>1, <2>2, HeldKept, ScorersKept DEF RowsFollow
  <2> QED
    BY <2>3, <2>4
<1>4. ASSUME NEW r \in Relays, ClaimRows(r) PROVE Rest'
  <2>1. /\ Held(r) = {} /\ MarkRows(Waiting, "claimed") /\ UNCHANGED <<status, alerts, reversal, scorer>>
        /\ relay[r].refused = NoTxn
    BY <1>4 DEF ClaimRows, Held
  <2>2. /\ relay'[r].batch = Waiting /\ relay'[r].refused = NoTxn
        /\ \A q \in Relays : q # r => relay'[q] = relay[q]
    BY <1>t, <1>4 DEF ClaimRows, Relay
  <2>3. \A t \in Txns : /\ outbox'[t].topic = outbox[t].topic
                        /\ outbox'[t].state = IF t \in Waiting THEN "claimed" ELSE outbox[t].state
    BY <2>1, MarkRowsType
  <2>4. Held(r)' = Waiting /\ Waiting \subseteq Txns /\ NoTxn \notin Waiting
        /\ \A q \in Relays : q # r => Held(q)' = Held(q)
    BY <2>2 DEF Held, Waiting
  <2>5. \A q \in Relays : Held(q) \cap Waiting = {}
    BY DEF RowsHeldOnce, Waiting
  <2>6. RowsHeldOnce'
    BY <1>t, <2>2, <2>3, <2>4, <2>5 DEF RowsHeldOnce
  <2>7. RowsFollow'
    BY <2>1, <2>3 DEF RowsFollow, Waiting
  <2> QED
    BY <2>1, <2>3, <2>6, <2>7, ScorersKept, ReviewsKept
<1>5. ASSUME NEW r \in Relays, NEW gone, NEW s \in {"waiting", "told", "lost"},
             gone \subseteq Held(r), MarkRows(gone, s),
             \A q \in Relays : q # r => relay'[q] = relay[q],
             Held(r)' = Held(r) \ gone, relay'[r].refused \notin relay'[r].batch,
             UNCHANGED <<status, alerts, reversal>>,
             scorer' = scorer
      PROVE  Rest'
  <2>1. \A t \in Txns : /\ outbox'[t].topic = outbox[t].topic
                        /\ outbox'[t].state = IF t \in gone THEN s ELSE outbox[t].state
    BY <1>5, MarkRowsType
  <2>2. \A q \in Relays : q # r => Held(q)' = Held(q)
    BY <1>5 DEF Held
  <2>3. ASSUME NEW q \in Relays, NEW t \in Held(q)'
        PROVE  t \in Held(q) /\ t \notin gone /\ t \in Txns
    BY <1>t, <1>5, <2>2 DEF RowsHeldOnce
  <2>4. RowsHeldOnce'
    <3> SUFFICES ASSUME NEW q \in Relays, NEW t \in Held(q)'
                 PROVE  /\ outbox'[t].state = "claimed"
                        /\ relay'[q].refused \notin relay'[q].batch
                        /\ \A p \in Relays : t \in Held(p)' => p = q
      BY DEF RowsHeldOnce
    <3>1. t \in Held(q) /\ t \notin gone /\ t \in Txns
      BY <2>3
    <3>2. outbox'[t].state = "claimed"
      BY <2>1, <3>1 DEF RowsHeldOnce
    <3>3. relay'[q].refused \notin relay'[q].batch
      BY <1>5, <3>1 DEF RowsHeldOnce
    <3>4. \A p \in Relays : t \in Held(p)' => p = q
      BY <2>3, <3>1 DEF RowsHeldOnce
    <3> QED
      BY <3>2, <3>3, <3>4
  <2>5. RowsFollow'
    BY <1>t, <1>5, <2>1 DEF RowsFollow, RowsHeldOnce
  <2> QED
    BY <1>5, <2>1, <2>4, <2>5, ScorersKept, ReviewsKept
<1>6. ASSUME NEW r \in Relays, NEW t \in Txns, PublishRow(r, t) PROVE Rest'
  <2>1. /\ t \in relay[r].batch /\ relay[r].refused = NoTxn /\ MarkRows({t}, "told")
        /\ UNCHANGED <<status, alerts, reversal, scorer>>
        /\ relay'[r].batch = relay[r].batch \ {t} /\ relay'[r].refused = NoTxn
        /\ \A q \in Relays : q # r => relay'[q] = relay[q]
        /\ relay[r].batch \subseteq Txns
    BY <1>t, <1>6 DEF PublishRow, Relay
  <2>2. Held(r)' = Held(r) \ {t} /\ t \in Held(r) /\ relay'[r].refused \notin relay'[r].batch
    BY <2>1 DEF Held
  <2> QED
    BY <1>5, <2>1, <2>2
<1>7. ASSUME NEW r \in Relays, NEW t \in Txns, PublishThrows(r, t) PROVE Rest'
  <2>1. /\ t \in relay[r].batch /\ relay[r].refused = NoTxn
        /\ UNCHANGED <<status, alerts, reversal, scorer, outbox>>
        /\ relay'[r].batch = relay[r].batch \ {t} /\ relay'[r].refused = t
        /\ \A q \in Relays : q # r => relay'[q] = relay[q]
        /\ relay[r].batch \subseteq Txns
    BY <1>t, <1>7 DEF PublishThrows, Relay
  <2>2. Held(r)' = Held(r) /\ \A q \in Relays : q # r => Held(q)' = Held(q)
    BY <2>1 DEF Held
  <2>3. \A q \in Relays : Held(q)' = Held(q)
    BY <2>2
  <2>4. RowsHeldOnce'
    BY <1>t, <2>1, <2>3 DEF RowsHeldOnce
  <2> QED
    BY <1>t, <2>1, <2>4, ScorersKept, ReviewsKept DEF RowsFollow
<1>8. ASSUME NEW r \in Relays, GiveBack(r) PROVE Rest'
  <2>1. /\ relay[r].refused # NoTxn /\ MarkRows({relay[r].refused}, "waiting")
        /\ UNCHANGED <<status, alerts, reversal, scorer>>
        /\ relay'[r].batch = relay[r].batch /\ relay'[r].refused = NoTxn
        /\ \A q \in Relays : q # r => relay'[q] = relay[q]
        /\ relay[r].batch \subseteq Txns
    BY <1>t, <1>8 DEF GiveBack, Relay
  <2>2. relay[r].refused \in Held(r)
    BY <2>1 DEF Held
  <2>3. relay[r].refused \notin relay[r].batch
    BY <2>2 DEF RowsHeldOnce
  <2>4. Held(r)' = Held(r) \ {relay[r].refused} /\ relay'[r].refused \notin relay'[r].batch
    BY <2>1, <2>3 DEF Held
  <2> QED
    BY <1>5, <2>1, <2>2, <2>4
<1>9. ASSUME NEW r \in Relays, GiveBackFails(r) \/ StopRelay(r) PROVE Rest'
  <2>1. /\ MarkRows(Held(r), "lost")
        /\ UNCHANGED <<status, alerts, reversal, scorer>>
        /\ relay'[r].batch = {} /\ relay'[r].refused = NoTxn
        /\ \A q \in Relays : q # r => relay'[q] = relay[q]
    BY <1>t, <1>9 DEF GiveBackFails, StopRelay, DropBatch, Relay
  <2>2. Held(r)' = Held(r) \ Held(r) /\ relay'[r].refused \notin relay'[r].batch
    BY <2>1 DEF Held
  <2> QED
    BY <1>5, <2>1, <2>2
<1>10. ASSUME NEW s \in Scorers, OnMessage(s) PROVE Rest'
  <2>1. engine.heard \in Seq(Txns) /\ engine.heard # <<>>
    BY <1>10 DEF OnMessage, EventTypeOK, Engine
  <2>2. Head(engine.heard) \in Txns
    BY <2>1, HeadTailProperties
  <2>3. /\ scorer'[s].step = "begun" /\ scorer'[s].txn = Head(engine.heard)
        /\ \A x \in Scorers : x # s => scorer'[x] = scorer[x]
        /\ UNCHANGED <<status, outbox, alerts, reversal, relay>>
    BY <1>t, <1>10 DEF OnMessage, Scorer
  <2>4. ScorersKnow'
    BY <2>2, <2>3 DEF ScorersKnow
  <2> QED
    BY <1>t, <2>3, <2>4, HeldKept, ReviewsKept DEF RowsFollow
<1>11. ASSUME NEW s \in Scorers, ReadTransaction(s) PROVE Rest'
  <2>1. /\ scorer'[s].step = "read" /\ scorer'[s].txn = scorer[s].txn
        /\ scorer[s].step = "begun"
        /\ \A x \in Scorers : x # s => scorer'[x] = scorer[x]
        /\ UNCHANGED <<status, outbox, alerts, reversal, relay>>
    BY <1>t, <1>11 DEF ReadTransaction, Scorer
  <2>2. ScorersKnow'
    BY <2>1 DEF ScorersKnow
  <2> QED
    BY <1>t, <2>1, <2>2, HeldKept, ReviewsKept DEF RowsFollow
<1>12. ASSUME NEW s \in Scorers, NEW step, StepOn(s, step)
       PROVE  /\ scorer'[s].step = step /\ scorer'[s].txn = scorer[s].txn
              /\ \A x \in Scorers : x # s => scorer'[x] = scorer[x]
  BY <1>t, <1>12 DEF StepOn, Scorer
<1>13. ASSUME NEW s \in Scorers, Finish(s)
       PROVE  \A x \in Scorers : scorer'[x] = scorer[x] \/ scorer'[x].step = "idle"
  BY <1>t, <1>13 DEF Finish, Idle
<1>14. ASSUME NEW s \in Scorers, Rate(s) \/ PublishAlert(s) PROVE Rest'
  <2>1. UNCHANGED <<status, outbox, alerts, reversal, relay>>
    BY <1>14 DEF Rate, PublishAlert
  <2>2. ScorersKnow'
    <3>1. CASE Finish(s)
      BY <1>13, <2>1, <3>1, ScorersKept
    <3>2. CASE ~Finish(s)
      <4>1. scorer[s].step = "read" /\ StepOn(s, "rated")
        BY <1>14, <3>2 DEF Rate, PublishAlert
      <4> QED
        BY <1>12, <2>1, <4>1 DEF ScorersKnow
    <3> QED
      BY <3>1, <3>2
  <2> QED
    BY <1>t, <2>1, <2>2, HeldKept, ReviewsKept DEF RowsFollow
<1>15. ASSUME NEW s \in Scorers, InsertAlerts(s) PROVE Rest'
  <2>1. /\ UNCHANGED <<status, outbox, reversal, relay>> /\ StepOn(s, "alerted")
        /\ scorer[s].step = "rated" /\ alerts' = alerts \cup {scorer[s].txn}
    BY <1>15 DEF InsertAlerts
  <2>2. ScorersKnow'
    BY <1>12, <2>1 DEF ScorersKnow
  <2> QED
    BY <1>t, <2>1, <2>2, HeldKept, ReviewsKept DEF RowsFollow
<1>16. ASSUME NEW s \in Scorers, Flag(s) PROVE Rest'
  <2> DEFINE t == scorer[s].txn
  <2>1. /\ UNCHANGED <<outbox, alerts, reversal, relay>> /\ StepOn(s, "flagged")
        /\ scorer[s].step = "alerted"
    BY <1>16 DEF Flag
  <2>2. t \in Txns /\ t \in alerts
    BY <2>1 DEF ScorersKnow
  <2>3. /\ \A u \in Txns : u # t => status'[u] = status[u]
        /\ \/ status'[t] = status[t]
           \/ status'[t] = "pending_review" /\ status[t] \in {"posted", "pending"}
    BY <1>t, <1>16, <2>2 DEF Flag
  <2>4. reversal[t] = "marked" => status'[t] = "reversed"
    BY <2>2, <2>3 DEF MarkedIsReversed
  <2>5. ScorersKnow'
    BY <1>12, <2>1 DEF ScorersKnow
  <2> HIDE DEF t
  <2>6. MarkedIsReversed' /\ ReviewsAreSound'
    BY <2>1, <2>2, <2>3, <2>4, ReviewsStep
  <2>7. RowsFollow'
    BY <2>1, <2>3 DEF RowsFollow
  <2> QED
    BY <1>t, <2>1, <2>5, <2>6, <2>7, HeldKept
<1>17. ASSUME DropConnection \/ StopEngine \/ StartEngine \/ \E s \in Scorers : ScoreFails(s)
       PROVE  Rest'
  <2>1. UNCHANGED <<status, outbox, alerts, reversal, relay>>
    BY <1>17 DEF DropConnection, StopEngine, StartEngine, ScoreFails
  <2>2. \A x \in Scorers : scorer'[x] = scorer[x] \/ scorer'[x].step = "idle"
    <3>1. CASE scorer' = scorer
      BY <3>1
    <3>2. CASE StopEngine
      BY <3>2 DEF StopEngine, Idle
    <3>3. CASE \E s \in Scorers : ScoreFails(s)
      BY <1>t, <3>3 DEF ScoreFails, Idle
    <3> QED
      BY <1>17, <3>1, <3>2, <3>3 DEF DropConnection, StartEngine
  <2> QED
    BY <1>t, <2>1, <2>2, HeldKept, ScorersKept, ReviewsKept DEF RowsFollow
<1>18. ASSUME UNCHANGED eventVars PROVE Rest'
  <2>1. UNCHANGED <<status, outbox, alerts, reversal, relay, scorer>>
    BY <1>18 DEF eventVars
  <2> QED
    BY <1>t, <2>1, HeldKept, ScorersKept, ReviewsKept DEF RowsFollow
<1>19. Rest'
  BY <1>1, <1>2, <1>3, <1>4, <1>6, <1>7, <1>8, <1>9, <1>10, <1>11, <1>14, <1>15, <1>16, <1>17, <1>18
     DEF EventNext, HandlerNext, RelayNext, RelayFault, ScorerNext, EngineFault
<1> QED
  BY <1>0, <1>19

\* Types, the rows held by relays, what handlers of the engine know, and the
\* soundness of reviews hold together.
THEOREM EventInvariant == EventSpec => []EventInv
<1>1. EventInit => EventInv
  BY EventInitInv
<1>2. EventInv /\ [EventNext]_eventVars => EventInv'
  BY EventNextInv
<1> QED
  BY <1>1, <1>2, PTL DEF EventSpec

\* No outbox row is in the hands of two relays, for any number of them.
THEOREM RelaysKeepApart == EventSpec => []RowsHeldOnce
<1>1. EventInv => RowsHeldOnce
  BY DEF EventInv
<1> QED
  BY <1>1, EventInvariant, PTL

\* Whatever the engine read before, it puts nothing under review without alerts
\* and nothing that is already marked as reversed.
THEOREM ReviewsStaySound == EventSpec => []ReviewsAreSound
<1>1. EventInv => ReviewsAreSound
  BY DEF EventInv
<1> QED
  BY <1>1, EventInvariant, PTL
-----------------------------------------------------------------
(* The way of an event                                                     *)

\* Its row waits, or is in the hands of a relay, or its notification is on its
\* way, or a handler of the engine is at it.
OnTheWay(t) ==
    \/ outbox[t].state = "waiting"
    \/ \E r \in Relays : t \in Held(r)
    \/ t \in OnItsWay
    \/ t \in UnderWay

Posting(t) == outbox[t].state # "none" /\ outbox[t].topic = "posted"

NoneForgotten == \A t \in Txns : Posting(t) /\ fate[t] = "open" => OnTheWay(t)

\* Nothing is lost before something fails.
FaultsSpoil ==
    faults = 0 =>
        /\ engine.sub = "listening"
        /\ \A r \in Relays : relay[r].refused = NoTxn
        /\ \A t \in Txns : fate[t] # "spoilt"

WayInv == EventInv /\ NoneForgotten /\ FaultsSpoil

\* What has to be said of a step for each of the two.
LEMMA NoneForgottenStep ==
  ASSUME NoneForgotten,
         \A t \in Txns : fate'[t] = "open" =>
             /\ fate[t] = "open"
             /\ Posting(t)' => Posting(t) \/ OnTheWay(t)'
             /\ Posting(t) /\ OnTheWay(t) => OnTheWay(t)'
  PROVE  NoneForgotten'
  BY DEF NoneForgotten

LEMMA FaultsSpoilStep ==
  ASSUME FaultsSpoil,
         faults' = 0 =>
             /\ faults = 0
             /\ engine.sub = "listening" => engine'.sub = "listening"
             /\ \A r \in Relays : relay[r].refused = NoTxn => relay'[r].refused = NoTxn
             /\ \A t \in Txns : fate'[t] = "spoilt" => fate[t] = "spoilt"
  PROVE  FaultsSpoil'
  BY DEF FaultsSpoil

LEMMA FaultCounts ==
  ASSUME EventTypeOK, Fault PROVE faults' # 0
  BY EventAssumption DEF EventTypeOK, Fault

LEMMA EndsWhat ==
  ASSUME EventTypeOK, NEW T, NEW f \in {"scored", "spoilt"}, Ends(T, f)
  PROVE  \A t \in Txns : /\ fate'[t] = "open" => fate[t] = "open" /\ t \notin T
                         /\ f = "scored" /\ fate'[t] = "spoilt" => fate[t] = "spoilt"
  BY DEF Ends, EventTypeOK

\* A notification is on its way, unless no one listens.
LEMMA NotifyTells ==
  ASSUME EventTypeOK, NEW t \in Txns, Notify(t)
  PROVE  /\ OnItsWay \subseteq OnItsWay' /\ engine'.sub = engine.sub
         /\ \A u \in Txns : fate'[u] = "open" => fate[u] = "open"
         /\ fate'[t] = "open" => t \in OnItsWay'
         /\ engine.sub = "listening" => fate' = fate
<1>1. engine \in Engine /\ engine.heard \in Seq(Txns)
  BY DEF EventTypeOK, Engine
<1>2. CASE /\ engine.sub = "listening" /\ engine' = [engine EXCEPT !.heard = Append(@, t)]
           /\ fate' = fate
  <2> DEFINE h == Append(engine.heard, t)
  <2>1. /\ engine'.heard = h /\ engine'.sub = engine.sub
    BY <1>1, <1>2 DEF Engine
  <2>2. /\ Len(h) = Len(engine.heard) + 1 /\ h[Len(engine.heard) + 1] = t
        /\ \A i \in 1..Len(engine.heard) : h[i] = engine.heard[i] /\ i \in 1..Len(h)
        /\ Len(engine.heard) \in Nat
    BY <1>1, AppendProperties, LenProperties
  <2> HIDE DEF h
  <2>3. OnItsWay \subseteq OnItsWay'
    BY <2>1, <2>2 DEF OnItsWay
  <2>4. Len(engine.heard) + 1 \in 1..Len(h)
    BY <2>2
  <2>5. t \in OnItsWay'
    BY <2>1, <2>2, <2>4 DEF OnItsWay
  <2> QED
    BY <1>2, <2>1, <2>3, <2>5
<1>3. CASE engine.sub # "listening" /\ Ends({t}, "spoilt") /\ engine' = engine
  BY <1>3, EndsWhat DEF OnItsWay
<1> QED
  BY <1>2, <1>3 DEF Notify

LEMMA WayInitInv ==
  ASSUME EventInit PROVE WayInv
<1>1. NoneForgotten /\ FaultsSpoil
  BY DEF EventInit, NoneForgotten, Posting, FaultsSpoil
<1> QED
  BY <1>1, EventInitInv DEF WayInv

LEMMA WayNextInv ==
  ASSUME WayInv, [EventNext]_eventVars
  PROVE  NoneForgotten' /\ FaultsSpoil'
<1> USE EventAssumption DEF tableVars, historyVars
<1> DEFINE Goal == NoneForgotten' /\ FaultsSpoil'
<1>0. EventTypeOK /\ RowsHeldOnce /\ NoneForgotten /\ FaultsSpoil /\ ScorersKnow
  BY DEF WayInv, EventInv
<1>t. /\ \A r \in Relays : relay[r] \in Relay
      /\ \A s \in Scorers : scorer[s] \in Scorer
      /\ relay \in [Relays -> Relay] /\ scorer \in [Scorers -> Scorer]
      /\ outbox \in [Txns -> Row] /\ engine \in Engine /\ engine.heard \in Seq(Txns)
  BY <1>0 DEF EventTypeOK, Engine
<1>1. ASSUME NEW t \in Txns, NEW s \in {"posted", "pending", "pending_review"}, PostTransfer(t, s)
      PROVE  Goal
  <2>1. /\ outbox'[t].state = "waiting"
        /\ \A u \in Txns : u # t => outbox'[u] = outbox[u]
        /\ UNCHANGED <<relay, engine, scorer, fate, faults>>
    BY <1>t, <1>1 DEF PostTransfer
  <2>2. OnTheWay(t)'
    BY <2>1 DEF OnTheWay
  <2>3. \A u \in Txns : u # t => (Posting(u)' <=> Posting(u)) /\ (OnTheWay(u) => OnTheWay(u)')
    BY <2>1 DEF OnTheWay, Posting, Held, OnItsWay, UnderWay
  <2>4. NoneForgotten'
    BY <1>0, <2>1, <2>2, <2>3, NoneForgottenStep
  <2>5. FaultsSpoil'
    BY <1>0, <2>1 DEF FaultsSpoil
  <2> QED
    BY <2>4, <2>5
<1>2. ASSUME NEW t \in Txns, NEW n \in {"transfer", "later"}, PublishNotice(t, n) PROVE Goal
  <2>1. Notify(t) /\ UNCHANGED <<outbox, relay, scorer, faults>>
    BY <1>2 DEF PublishNotice
  <2>2. /\ OnItsWay \subseteq OnItsWay' /\ engine'.sub = engine.sub
        /\ \A u \in Txns : fate'[u] = "open" => fate[u] = "open"
        /\ engine.sub = "listening" => fate' = fate
    BY <1>0, <2>1, NotifyTells
  <2>3. \A u \in Txns : (Posting(u)' <=> Posting(u)) /\ (OnTheWay(u) => OnTheWay(u)')
    BY <2>1, <2>2 DEF OnTheWay, Posting, Held, UnderWay
  <2>4. NoneForgotten'
    BY <1>0, <2>2, <2>3, NoneForgottenStep
  <2>5. FaultsSpoil'
    BY <1>0, <2>1, <2>2 DEF FaultsSpoil
  <2> QED
    BY <2>4, <2>5
<1>3. ASSUME UNCHANGED <<outbox, relay, engine, scorer, fate, faults>> PROVE Goal
  BY <1>0, <1>3 DEF NoneForgotten, FaultsSpoil, OnTheWay, Posting, Held, OnItsWay, UnderWay
<1>4. ASSUME NEW r \in Relays, ClaimRows(r) PROVE Goal
  <2>1. /\ Held(r) = {} /\ MarkRows(Waiting, "claimed")
        /\ relay'[r].batch = Waiting /\ relay'[r].refused = NoTxn
        /\ \A q \in Relays : q # r => relay'[q] = relay[q]
        /\ UNCHANGED <<engine, scorer, fate, faults>>
    BY <1>t, <1>4 DEF ClaimRows, Held, Relay
  <2>2. \A t \in Txns : /\ outbox'[t].topic = outbox[t].topic
                        /\ outbox'[t].state = IF t \in Waiting THEN "claimed" ELSE outbox[t].state
    BY <1>0, <2>1, MarkRowsType
  <2>3. Waiting \subseteq Held(r)' /\ \A q \in Relays : Held(q) \subseteq Held(q)'
    BY <2>1 DEF Held
  <2>4. \A t \in Txns : (Posting(t)' <=> Posting(t)) /\ (OnTheWay(t) => OnTheWay(t)')
    <3>1. \A t \in Txns : Posting(t)' <=> Posting(t)
      BY <2>2 DEF Posting, Waiting
    <3>2. \A t \in Txns : outbox[t].state = "waiting" => t \in Held(r)'
      BY <2>3 DEF Waiting
    <3>3. OnItsWay' = OnItsWay /\ UnderWay' = UnderWay
      BY <2>1 DEF OnItsWay, UnderWay
    <3> QED
      BY <2>3, <3>1, <3>2, <3>3 DEF OnTheWay
  <2>5. NoneForgotten'
    BY <1>0, <2>1, <2>4, NoneForgottenStep
  <2>6. FaultsSpoil'
    BY <1>0, <2>1 DEF FaultsSpoil
  <2> QED
    BY <2>5, <2>6
<1>5. ASSUME NEW r \in Relays, NEW t \in Txns, PublishRow(r, t) PROVE Goal
  <2>1. /\ MarkRows({t}, "told") /\ t \in Held(r)
        /\ relay'[r].batch = relay[r].batch \ {t} /\ relay'[r].refused = relay[r].refused
        /\ \A q \in Relays : q # r => relay'[q] = relay[q]
        /\ UNCHANGED <<scorer, faults>>
        /\ IF outbox[t].topic = "posted" THEN Notify(t) ELSE UNCHANGED <<engine, fate>>
    BY <1>t, <1>5 DEF PublishRow, Held, Relay
  <2>2. \A u \in Txns : /\ outbox'[u].topic = outbox[u].topic
                        /\ outbox'[u].state = IF u = t THEN "told" ELSE outbox[u].state
    BY <1>0, <2>1, MarkRowsType
  <2>3. /\ OnItsWay \subseteq OnItsWay' /\ engine'.sub = engine.sub
        /\ \A u \in Txns : fate'[u] = "open" => fate[u] = "open"
        /\ engine.sub = "listening" => fate' = fate
        /\ outbox[t].topic = "posted" /\ fate'[t] = "open" => t \in OnItsWay'
    BY <1>0, <2>1, NotifyTells DEF OnItsWay
  <2>4. outbox[t].state = "claimed"
    BY <1>0, <2>1 DEF RowsHeldOnce
  <2>5. \A u \in Txns : Posting(u)' <=> Posting(u)
    BY <2>2, <2>4 DEF Posting
  <2>6. \A u \in Txns : u # t /\ OnTheWay(u) => OnTheWay(u)'
    <3>1. \A q \in Relays : Held(q) \subseteq Held(q)' \cup {t}
      BY <2>1 DEF Held
    <3>2. UnderWay' = UnderWay
      BY <2>1 DEF UnderWay
    <3> QED
      BY <2>2, <2>3, <3>1, <3>2 DEF OnTheWay
  <2>7. fate'[t] = "open" /\ Posting(t) => OnTheWay(t)'
    BY <2>3 DEF OnTheWay, Posting
  <2>8. NoneForgotten'
    BY <1>0, <2>3, <2>5, <2>6, <2>7, NoneForgottenStep
  <2>9. FaultsSpoil'
    BY <1>0, <2>1, <2>3 DEF FaultsSpoil
  <2> QED
    BY <2>8, <2>9
<1>6. ASSUME NEW r \in Relays, NEW t \in Txns, PublishThrows(r, t) PROVE Goal
  <2>1. /\ relay'[r].batch = relay[r].batch \ {t} /\ relay'[r].refused = t
        /\ relay[r].refused = NoTxn
        /\ \A q \in Relays : q # r => relay'[q] = relay[q]
        /\ UNCHANGED <<outbox, scorer>> /\ Fault
        /\ Notify(t) \/ UNCHANGED <<engine, fate>>
    BY <1>t, <1>6 DEF PublishThrows, Relay
  <2>2. /\ OnItsWay \subseteq OnItsWay'
        /\ \A u \in Txns : fate'[u] = "open" => fate[u] = "open"
    BY <1>0, <2>1, NotifyTells DEF OnItsWay
  <2>3. \A q \in Relays : Held(q) \subseteq Held(q)'
    BY <2>1 DEF Held
  <2>4. \A u \in Txns : (Posting(u)' <=> Posting(u)) /\ (OnTheWay(u) => OnTheWay(u)')
    BY <2>1, <2>2, <2>3 DEF OnTheWay, Posting, UnderWay
  <2>5. NoneForgotten'
    BY <1>0, <2>2, <2>4, NoneForgottenStep
  <2>6. FaultsSpoil'
    BY <1>0, <2>1, FaultCounts DEF FaultsSpoil
  <2> QED
    BY <2>5, <2>6
<1>7. ASSUME NEW r \in Relays, GiveBack(r) PROVE Goal
  <2> DEFINE t == relay[r].refused
  <2>1. /\ t # NoTxn /\ MarkRows({t}, "waiting")
        /\ relay'[r].batch = relay[r].batch /\ relay'[r].refused = NoTxn
        /\ \A q \in Relays : q # r => relay'[q] = relay[q]
        /\ UNCHANGED <<engine, scorer, fate, faults>>
    BY <1>t, <1>7 DEF GiveBack, Relay
  <2>2. t \in Held(r) /\ t \in Txns
    BY <1>t, <2>1 DEF Held, Relay
  <2>3. \A u \in Txns : /\ outbox'[u].topic = outbox[u].topic
                        /\ outbox'[u].state = IF u \in {t} THEN "waiting" ELSE outbox[u].state
    BY <1>0, <2>1, MarkRowsType
  <2>4. outbox[t].state = "claimed"
    BY <1>0, <2>2 DEF RowsHeldOnce
  <2>5. \A q \in Relays : Held(q) \subseteq Held(q)' \cup {t}
    BY <2>1 DEF Held
  <2> HIDE DEF t
  <2>6. \A u \in Txns : (Posting(u)' <=> Posting(u)) /\ (OnTheWay(u) => OnTheWay(u)')
    <3>1. \A u \in Txns : Posting(u)' <=> Posting(u)
      BY <2>3, <2>4 DEF Posting
    <3>2. OnItsWay' = OnItsWay /\ UnderWay' = UnderWay
      BY <2>1 DEF OnItsWay, UnderWay
    <3> QED
      BY <2>3, <2>5, <3>1, <3>2 DEF OnTheWay
  <2>7. NoneForgotten'
    BY <1>0, <2>1, <2>6, NoneForgottenStep
  <2>8. FaultsSpoil'
    BY <1>0, <2>1 DEF FaultsSpoil
  <2> QED
    BY <2>7, <2>8
<1>8. ASSUME NEW r \in Relays, GiveBackFails(r) \/ StopRelay(r) PROVE Goal
  <2>1. /\ MarkRows(Held(r), "lost") /\ Ends(Held(r), "spoilt")
        /\ relay'[r].refused = NoTxn
        /\ \A q \in Relays : q # r => relay'[q] = relay[q]
        /\ UNCHANGED <<engine, scorer>>
        /\ Fault \/ (relay[r].refused # NoTxn /\ faults' = faults)
    BY <1>t, <1>8 DEF GiveBackFails, StopRelay, DropBatch, Relay
  <2>2. \A u \in Txns : fate'[u] = "open" => fate[u] = "open" /\ u \notin Held(r)
    BY <1>0, <2>1, EndsWhat
  <2>3. \A u \in Txns : /\ outbox'[u].topic = outbox[u].topic
                        /\ outbox'[u].state = IF u \in Held(r) THEN "lost" ELSE outbox[u].state
    BY <1>0, <2>1, MarkRowsType
  <2>4. \A q \in Relays : q # r => Held(q)' = Held(q)
    BY <2>1 DEF Held
  <2>5. OnItsWay' = OnItsWay /\ UnderWay' = UnderWay
    BY <2>1 DEF OnItsWay, UnderWay
  <2>6. \A u \in Txns \ Held(r) : (Posting(u)' <=> Posting(u)) /\ (OnTheWay(u) => OnTheWay(u)')
    BY <2>3, <2>4, <2>5 DEF OnTheWay, Posting
  <2>7. NoneForgotten'
    BY <1>0, <2>2, <2>6, NoneForgottenStep
  <2>8. faults' # 0
    <3>1. relay[r].refused # NoTxn => faults # 0
      BY <1>0 DEF FaultsSpoil
    <3> QED
      BY <1>0, <2>1, <3>1, FaultCounts
  <2> QED
    BY <2>7, <2>8 DEF FaultsSpoil
<1>9. ASSUME NEW s \in Scorers, OnMessage(s) PROVE Goal
  <2> DEFINE h == engine.heard
  <2>1. /\ h \in Seq(Txns) /\ h # <<>>
        /\ engine'.heard = Tail(h) /\ engine'.sub = engine.sub
        /\ scorer[s] = Idle /\ scorer'[s].step = "begun" /\ scorer'[s].txn = Head(h)
        /\ \A x \in Scorers : x # s => scorer'[x] = scorer[x]
        /\ UNCHANGED <<outbox, relay, fate, faults>>
    BY <1>t, <1>9 DEF OnMessage, Scorer, Engine
  <2>2. Len(h) \in Nat /\ Head(h) = h[1] /\ Len(Tail(h)) = Len(h) - 1
        /\ \A i \in 1..Len(h) - 1 : Tail(h)[i] = h[i + 1]
    BY <2>1, HeadTailProperties, LenProperties
  <2> HIDE DEF h
  <2>3. ASSUME NEW t \in OnItsWay PROVE t \in OnItsWay' \/ t \in UnderWay'
    <3>1. PICK i \in 1..Len(h) : t = h[i]
      BY DEF OnItsWay, h
    <3>2. CASE i = 1
      BY <2>1, <2>2, <3>1, <3>2 DEF UnderWay
    <3>3. CASE i # 1
      <4>1. i - 1 \in 1..Len(Tail(h)) /\ Tail(h)[i - 1] = t
        BY <2>2, <3>1, <3>3
      <4> QED
        BY <2>1, <4>1 DEF OnItsWay
    <3> QED
      BY <3>2, <3>3
  <2>4. UnderWay \subseteq UnderWay'
    BY <2>1 DEF UnderWay, Idle
  <2>5. \A u \in Txns : (Posting(u)' <=> Posting(u)) /\ (OnTheWay(u) => OnTheWay(u)')
    BY <2>1, <2>3, <2>4 DEF OnTheWay, Posting, Held
  <2>6. NoneForgotten'
    BY <1>0, <2>1, <2>5, NoneForgottenStep
  <2>7. FaultsSpoil'
    BY <1>0, <2>1 DEF FaultsSpoil
  <2> QED
    BY <2>6, <2>7
<1>10. ASSUME NEW s \in Scorers, scorer[s].step # "idle", scorer'[s].step # "idle",
              scorer'[s].txn = scorer[s].txn,
              \A x \in Scorers : x # s => scorer'[x] = scorer[x],
              UNCHANGED <<outbox, relay, engine, fate, faults>>
       PROVE  Goal
  <2>1. UnderWay' = UnderWay
    BY <1>10 DEF UnderWay
  <2>2. \A u \in Txns : (Posting(u)' <=> Posting(u)) /\ (OnTheWay(u) => OnTheWay(u)')
    BY <1>10, <2>1 DEF OnTheWay, Posting, Held, OnItsWay
  <2>3. NoneForgotten'
    BY <1>0, <1>10, <2>2, NoneForgottenStep
  <2>4. FaultsSpoil'
    BY <1>0, <1>10 DEF FaultsSpoil
  <2> QED
    BY <2>3, <2>4
<1>11. ASSUME NEW s \in Scorers, NEW f \in {"scored", "spoilt"}, Ends({scorer[s].txn}, f),
              scorer' = [scorer EXCEPT ![s] = Idle], UNCHANGED <<outbox, relay, engine>>,
              (f = "scored" /\ faults' = faults) \/ faults' # 0
       PROVE  Goal
  <2>1. \A u \in Txns : /\ fate'[u] = "open" => fate[u] = "open" /\ u # scorer[s].txn
                        /\ f = "scored" /\ fate'[u] = "spoilt" => fate[u] = "spoilt"
    BY <1>0, <1>11, EndsWhat
  <2>2. \A x \in Scorers : x # s => scorer'[x] = scorer[x]
    BY <1>t, <1>11
  <2>3. UnderWay \subseteq UnderWay' \cup {scorer[s].txn}
    BY <2>2 DEF UnderWay
  <2>4. \A u \in Txns : /\ (Posting(u)' <=> Posting(u))
                        /\ (u # scorer[s].txn /\ OnTheWay(u) => OnTheWay(u)')
    BY <1>11, <2>3 DEF OnTheWay, Posting, Held, OnItsWay
  <2>5. NoneForgotten'
    BY <1>0, <2>1, <2>4, NoneForgottenStep
  <2>6. FaultsSpoil'
    BY <1>0, <1>11, <2>1 DEF FaultsSpoil
  <2> QED
    BY <2>5, <2>6
<1>12. ASSUME NEW s \in Scorers, NEW step \in {"rated", "alerted", "flagged"}, StepOn(s, step),
              scorer[s].step # "idle", UNCHANGED <<outbox, relay, engine, fate, faults>>
       PROVE  Goal
  <2>1. /\ scorer'[s].step # "idle" /\ scorer'[s].txn = scorer[s].txn
        /\ \A x \in Scorers : x # s => scorer'[x] = scorer[x]
    BY <1>t, <1>12 DEF StepOn, Scorer
  <2> QED
    BY <1>10, <1>12, <2>1
<1>13. ASSUME NEW s \in Scorers, ReadTransaction(s) PROVE Goal
  <2>1. /\ scorer[s].step # "idle" /\ scorer'[s].step # "idle" /\ scorer'[s].txn = scorer[s].txn
        /\ \A x \in Scorers : x # s => scorer'[x] = scorer[x]
        /\ UNCHANGED <<outbox, relay, engine, fate, faults>>
    BY <1>t, <1>13 DEF ReadTransaction, Scorer
  <2> QED
    BY <1>10, <2>1
<1>14. ASSUME NEW s \in Scorers, ScorerNext(s) PROVE Goal
  <2>1. CASE Rate(s)
    <3>1. CASE StepOn(s, "rated") /\ fate' = fate
      BY <1>12, <2>1, <3>1 DEF Rate
    <3>2. CASE Finish(s)
      BY <1>11, <2>1, <3>2 DEF Rate, Finish
    <3> QED
      BY <2>1, <3>1, <3>2 DEF Rate
  <2>2. CASE InsertAlerts(s)
    BY <1>12, <2>2 DEF InsertAlerts
  <2>3. CASE Flag(s)
    BY <1>12, <2>3 DEF Flag
  <2>4. CASE PublishAlert(s)
    BY <1>11, <2>4 DEF PublishAlert, Finish
  <2> QED
    BY <1>9, <1>13, <1>14, <2>1, <2>2, <2>3, <2>4 DEF ScorerNext
<1>15. ASSUME NEW s \in Scorers, ScoreFails(s) PROVE Goal
  BY <1>0, <1>11, <1>15, FaultCounts DEF ScoreFails
<1>16. ASSUME DropConnection PROVE Goal
  <2>1. Ends(OnItsWay, "spoilt") /\ Fault /\ UNCHANGED <<outbox, relay, scorer>>
    BY <1>16 DEF DropConnection
  <2>2. \A u \in Txns : fate'[u] = "open" => fate[u] = "open" /\ u \notin OnItsWay
    BY <1>0, <2>1, EndsWhat
  <2>3. \A u \in Txns : /\ (Posting(u)' <=> Posting(u))
                        /\ (u \notin OnItsWay /\ OnTheWay(u) => OnTheWay(u)')
    BY <2>1 DEF OnTheWay, Posting, Held, UnderWay
  <2>4. NoneForgotten'
    BY <1>0, <2>2, <2>3, NoneForgottenStep
  <2> QED
    BY <1>0, <2>1, <2>4, FaultCounts DEF FaultsSpoil
<1>17. ASSUME StopEngine PROVE Goal
  <2>1. Ends(OnItsWay \cup UnderWay, "spoilt") /\ Fault /\ UNCHANGED <<outbox, relay>>
    BY <1>17 DEF StopEngine
  <2>2. \A u \in Txns : fate'[u] = "open" => fate[u] = "open" /\ u \notin OnItsWay \cup UnderWay
    BY <1>0, <2>1, EndsWhat
  <2>3. \A u \in Txns : /\ (Posting(u)' <=> Posting(u))
                        /\ (u \notin OnItsWay \cup UnderWay /\ OnTheWay(u) => OnTheWay(u)')
    BY <2>1 DEF OnTheWay, Posting, Held
  <2>4. NoneForgotten'
    BY <1>0, <2>2, <2>3, NoneForgottenStep
  <2> QED
    BY <1>0, <2>1, <2>4, FaultCounts DEF FaultsSpoil
<1>18. ASSUME StartEngine PROVE Goal
  <2>1. /\ engine'.heard = engine.heard /\ engine'.sub = "listening"
        /\ UNCHANGED <<outbox, relay, scorer, fate, faults>>
    BY <1>t, <1>18 DEF StartEngine, Engine
  <2> QED
    BY <1>0, <2>1 DEF NoneForgotten, FaultsSpoil, OnTheWay, Posting, Held, OnItsWay, UnderWay
<1>19. ASSUME NEW t \in Txns, HandlerNext(t) PROVE Goal
  <2>1. CASE \E n \in {"transfer", "later"} : LoseNotice(t, n)
    BY <1>3, <2>1 DEF LoseNotice
  <2>2. CASE Release(t) \/ ReversePost(t) \/ ReverseMark(t) \/ ReverseCut(t)
    BY <1>3, <2>2 DEF Release, ReversePost, ReverseMark, ReverseCut
  <2> QED
    BY <1>1, <1>2, <1>19, <2>1, <2>2 DEF HandlerNext
<1>20. ASSUME UNCHANGED eventVars PROVE Goal
  BY <1>3, <1>20 DEF eventVars
<1> HIDE DEF Goal
<1>21. Goal
  BY <1>4, <1>5, <1>6, <1>7, <1>8, <1>14, <1>15, <1>16, <1>17, <1>18, <1>19, <1>20
     DEF EventNext, RelayNext, RelayFault, EngineFault
<1> QED
  BY <1>21 DEF Goal

\* A posting that is neither scored nor lost to a fault is somewhere: its row
\* waits, a relay has it, its event is on its way or a handler is at it.  A relay
\* cannot forget it between its claim and its publish (lib-queue: outbox;
\* lib-events; fraud-engine: worker).
THEOREM NoPostingIsForgotten == EventSpec => []NoneForgotten
<1>1. EventInit => WayInv
  BY WayInitInv
<1>2. WayInv /\ [EventNext]_eventVars => WayInv'
  BY EventNextInv, WayNextInv DEF WayInv
<1>3. WayInv => NoneForgotten
  BY DEF WayInv
<1> QED
  BY <1>1, <1>2, <1>3, PTL DEF EventSpec

\* Nothing has failed, and nothing is left to do for the relays and the engine.
Quiet ==
    /\ faults = 0 /\ Waiting = {} /\ OnItsWay = {} /\ UnderWay = {}
    /\ \A r \in Relays : Held(r) = {}

AllScored == \A t \in Txns : Posting(t) => fate[t] = "scored"

\* Without faults the outbox and the engine come to rest only when every
\* transaction committed as posted has been scored, however relays and handlers
\* interleave.
THEOREM QuietOnlyWhenScored == EventSpec => [](Quiet => AllScored)
<1>1. EventInit => WayInv
  BY WayInitInv
<1>2. WayInv /\ [EventNext]_eventVars => WayInv'
  BY EventNextInv, WayNextInv DEF WayInv
<1>3. WayInv => (Quiet => AllScored)
  <2> SUFFICES ASSUME WayInv, Quiet, NEW t \in Txns, Posting(t) PROVE fate[t] = "scored"
    BY DEF AllScored
  <2>1. ~OnTheWay(t)
    BY DEF Quiet, OnTheWay, Waiting
  <2>2. fate[t] # "open" /\ fate[t] # "spoilt"
    BY <2>1 DEF WayInv, NoneForgotten, FaultsSpoil, Quiet
  <2> QED
    BY <2>2 DEF WayInv, EventInv, EventTypeOK
<1> QED
  BY <1>1, <1>2, <1>3, PTL DEF EventSpec
===============================================================================
