------------------------------ MODULE Settlement ------------------------------
(***************************************************************************)
(* ACH and wire transfers.  POST /transfers/ach and /wire/domestic write a *)
(* pending transaction with the ledger and then a row of ach_transfers or  *)
(* wire_transfers; the transaction worker, of which several replicas may   *)
(* run, moves the rows on and settles their transactions.  Meanwhile       *)
(* administrators release transactions and the fraud engine flags them.    *)
(*                                                                         *)
(* The ledger below is module Ledger.  PINs, freezes and reversals are the *)
(* business of other modules.                                              *)
(***************************************************************************)
EXTENDS Ledger

CONSTANTS Calls,            \* calls of the two handlers, replays included
          Workers,          \* replicas of the transaction worker
          Clearing,         \* the EXTERNAL_CLEARING account
          ReviewThreshold,  \* system_settings, fraud.wire.review_threshold
          NoTxn,            \* a null transaction id
          NoCall,           \* no row
          MaxStops,         \* how often a replica may be stopped
          MaxSwitches       \* how often the rails are switched

ASSUME SettlementAssumption ==
  /\ Clearing \in Accounts
  /\ ReviewThreshold \in Nat
  /\ NoTxn \notin Txns
  /\ NoCall \notin Calls
  /\ MaxStops \in Nat
  /\ MaxSwitches \in Nat

Providers == {"ach", "wire"}

VARIABLES rails,      \* external_rails_config.enabled
          call,       \* each call: its step and local variables
          row,        \* ach_transfers and wire_transfers; a call inserts one
          worker,     \* each replica: its step and the rows it has claimed
          announced,  \* how often transaction.posted was published for a row
          stops, switches

ledgerVars == vars
settlementVars == <<vars, rails, call, row, worker, announced, stops, switches>>

\* One idle call, one absent row, one sleeping worker.
IdleCall == [step |-> "idle", kind |-> "ach", direction |-> "out",
             account |-> NoAccount, amount |-> 0, key |-> NoKey, txn |-> NoTxn]
NoRow == [kind |-> "ach", txn |-> NoTxn, status |-> "none"]
Asleep == [step |-> "asleep", batch |-> {}, done |-> NoCall]

CallStep == {"idle", "accepted", "booked", "done"}
WorkerSteps == {"asleep", "ach", "settleAch", "wires", "settleWires"}

\* settlement_status or status; 'ripe' is a row submitted a minute ago.
RowStatus == {"initiated", "submitted", "ripe", "settled"}

Customers == Accounts \ {Clearing}

-----------------------------------------------------------------------------
(* POST /transfers/ach and /transfers/wire/domestic                        *)

\* Out: debit customer, credit clearing; an ACH debit is the reverse.  A wire
\* at or over the threshold starts under review.
Transfer(c) ==
  LET out == call[c].direction = "out"
  IN [status   |-> IF call[c].kind = "wire" /\ call[c].amount >= ReviewThreshold
                   THEN "pending_review" ELSE "pending",
      debit    |-> IF out THEN call[c].account ELSE Clearing,
      paid     |-> call[c].amount,
      credit   |-> IF out THEN Clearing ELSE call[c].account,
      received |-> call[c].amount]

\* The rails are enabled, the account exists and is active.
Accept(c, kind, direction, a, n, k) ==
  /\ call[c].step = "idle"
  /\ rails[kind]
  /\ kind = "wire" => direction = "out"
  /\ accountStatus[a] = "active"
  /\ n > 0
  /\ call' = [call EXCEPT ![c] =
       [step |-> "accepted", kind |-> kind, direction |-> direction,
        account |-> a, amount |-> n, key |-> k, txn |-> NoTxn]]
  /\ UNCHANGED <<ledgerVars, rails, row, worker, announced, stops, switches>>

BookTransfer(c, t) ==
  /\ call[c].step = "accepted"
  /\ PostTransaction(t, call[c].key, Transfer(c))
  /\ call' = [call EXCEPT ![c] = [@ EXCEPT !.step = "booked", !.txn = t]]
  /\ UNCHANGED <<rails, row, worker, announced, stops, switches>>

\* postTransaction finds the key: the call goes on as if it had booked.
FindTransfer(c, t) ==
  /\ call[c].step = "accepted"
  /\ idempotencyKey[t] = call[c].key
  /\ call' = [call EXCEPT ![c] = [@ EXCEPT !.step = "booked", !.txn = t]]
  /\ UNCHANGED <<ledgerVars, rails, row, worker, announced, stops, switches>>

InsertTransferRow(c) ==
  /\ call[c].step = "booked"
  /\ row' = [row EXCEPT ![c] =
       [kind |-> call[c].kind, txn |-> call[c].txn, status |-> "initiated"]]
  /\ call' = [call EXCEPT ![c].step = "done"]
  /\ UNCHANGED <<ledgerVars, rails, worker, announced, stops, switches>>

\* postTransaction or the insert throws, or the server stops.
AbandonCall(c) ==
  /\ call[c].step \in {"accepted", "booked"}
  /\ call' = [call EXCEPT ![c].step = "done"]
  /\ UNCHANGED <<ledgerVars, rails, row, worker, announced, stops, switches>>

-----------------------------------------------------------------------------
(* One tick of the transaction worker                                      *)

\* A variant: the submission forgets the rows of replayed requests.
SubmitNothing(w) ==
  /\ worker[w].step = "asleep"
  /\ rails["ach"]
  /\ worker' = [worker EXCEPT ![w].step = "ach"]
  /\ UNCHANGED <<ledgerVars, rails, call, row, announced, stops, switches>>

\* advanceAchSubmissions: one UPDATE takes every initiated row along.  Here and
\* below the look at the rails and the statement it guards are one step: nothing
\* else the worker does in between depends on them.
SubmitAch(w) ==
  /\ worker[w].step = "asleep"
  /\ rails["ach"]
  /\ row' = [r \in Calls |->
               IF row[r].kind = "ach" /\ row[r].status = "initiated"
               THEN [row[r] EXCEPT !.status = "submitted"] ELSE row[r]]
  /\ worker' = [worker EXCEPT ![w].step = "ach"]
  /\ UNCHANGED <<ledgerVars, rails, call, announced, stops, switches>>

\* A minute passes: advanceAchSettlements may now select the row.
Ripen(r) ==
  /\ row[r].status = "submitted"
  /\ row' = [row EXCEPT ![r].status = "ripe"]
  /\ UNCHANGED <<ledgerVars, rails, call, worker, announced, stops, switches>>

\* advanceAchSettlements selects its batch.  FOR UPDATE SKIP LOCKED holds the
\* locks to the end of the statement only, which is its own transaction.
ClaimAch(w) ==
  /\ worker[w].step = "ach"
  /\ rails["ach"]
  /\ worker' = [worker EXCEPT ![w] =
       [@ EXCEPT !.step = "settleAch",
                 !.batch = {r \in Calls : row[r].kind = "ach" /\ row[r].status = "ripe"}]]
  /\ UNCHANGED <<ledgerVars, rails, call, row, announced, stops, switches>>

\* The rails were switched off since the submission: no settlement this time.
SkipAch(w) ==
  /\ worker[w].step = "ach"
  /\ ~rails["ach"]
  /\ worker' = [worker EXCEPT ![w].step = "wires"]
  /\ UNCHANGED <<ledgerVars, rails, call, row, announced, stops, switches>>

\* A variant: the transaction's own status is not looked at.
ClaimAnyWire(w) ==
  /\ worker[w].step = "wires"
  /\ rails["wire"]
  /\ worker' = [worker EXCEPT ![w] =
       [@ EXCEPT !.step = "settleWires",
                 !.batch = {r \in Calls : row[r].kind = "wire" /\ row[r].status = "initiated"}]]
  /\ UNCHANGED <<ledgerVars, rails, call, row, announced, stops, switches>>

\* advanceWires selects rows whose transaction is pending, in the same way.
ClaimWires(w) ==
  /\ worker[w].step = "wires"
  /\ rails["wire"]
  /\ worker' = [worker EXCEPT ![w] =
       [@ EXCEPT !.step = "settleWires",
                 !.batch = {r \in Calls : /\ row[r].kind = "wire"
                                          /\ row[r].status = "initiated"
                                          /\ txnStatus[row[r].txn] = "pending"}]]
  /\ UNCHANGED <<ledgerVars, rails, call, row, announced, stops, switches>>

Settling == {"settleAch", "settleWires"}

\* A variant: the entries are left to somebody else.
SettleRowOnly(w, r) ==
  /\ worker[w].step \in Settling
  /\ worker[w].done = NoCall
  /\ r \in worker[w].batch
  /\ row' = [row EXCEPT ![r].status = "settled"]
  /\ worker' = [worker EXCEPT ![w].done = r]
  /\ UNCHANGED <<ledgerVars, rails, call, announced, stops, switches>>

\* One database transaction for each row of the batch.
SettleRow(w, r) ==
  /\ worker[w].step \in Settling
  /\ worker[w].done = NoCall
  /\ r \in worker[w].batch
  /\ SettleTransaction(row[r].txn)
  /\ row' = [row EXCEPT ![r].status = "settled"]
  /\ worker' = [worker EXCEPT ![w].done = r]
  /\ UNCHANGED <<rails, call, announced, stops, switches>>

\* publish('transaction.posted') after the commit.
Announce(w) ==
  LET r == worker[w].done
  IN /\ worker[w].step \in Settling
     /\ r # NoCall
     /\ announced' = [announced EXCEPT ![r] = @ + 1]
     /\ worker' = [worker EXCEPT ![w] = [@ EXCEPT !.batch = worker[w].batch \ {r}, !.done = NoCall]]
     /\ UNCHANGED <<ledgerVars, rails, call, row, stops, switches>>

\* A variant: the tick is over after the ACH rows.
EndTick(w) ==
  /\ worker[w].step \in Settling
  /\ worker[w].batch = {}
  /\ worker' = [worker EXCEPT ![w] = Asleep]
  /\ UNCHANGED <<ledgerVars, rails, call, row, announced, stops, switches>>

EndBatch(w) ==
  /\ worker[w].step \in Settling
  /\ worker[w].batch = {}
  /\ worker' = [worker EXCEPT ![w] =
       IF @.step = "settleAch" THEN [@ EXCEPT !.step = "wires"] ELSE Asleep]
  /\ UNCHANGED <<ledgerVars, rails, call, row, announced, stops, switches>>

\* Rails disabled: failDisabledTransactions names columns that the tables do
\* not have, throws, and the rest of the tick is skipped.
TickFails(w) ==
  /\ \/ worker[w].step = "asleep" /\ ~rails["ach"]
     \/ worker[w].step = "wires"  /\ ~rails["wire"]
  /\ worker' = [worker EXCEPT ![w] = Asleep]
  /\ UNCHANGED <<ledgerVars, rails, call, row, announced, stops, switches>>

\* The replica is stopped, or an error ends its tick, and it starts again.
StopWorker(w) ==
  /\ stops < MaxStops
  /\ worker[w].step # "asleep"
  /\ worker' = [worker EXCEPT ![w] = Asleep]
  /\ stops' = stops + 1
  /\ UNCHANGED <<ledgerVars, rails, call, row, announced, switches>>

-----------------------------------------------------------------------------
(* Operators, administrators and the fraud engine                          *)

\* Nothing in the repository writes the table; operators do, by hand.
SwitchRails(p) ==
  /\ switches < MaxSwitches
  /\ rails' = [rails EXCEPT ![p] = ~@]
  /\ switches' = switches + 1
  /\ UNCHANGED <<ledgerVars, call, row, worker, announced, stops>>

OtherLedgerStep ==
  /\ \E t \in Txns : ReleaseTransaction(t) \/ FlagTransaction(t)
  /\ UNCHANGED <<rails, call, row, worker, announced, stops, switches>>

-----------------------------------------------------------------------------

SettlementInit ==
  /\ Init
  /\ rails = [p \in Providers |-> FALSE]
  /\ call = [c \in Calls |-> IdleCall]
  /\ row = [r \in Calls |-> NoRow]
  /\ worker = [w \in Workers |-> Asleep]
  /\ announced = [r \in Calls |-> 0]
  /\ stops = 0
  /\ switches = 0

TransferStep(c) ==
  \/ \E kind \in Providers, direction \in {"in", "out"}, a \in Customers,
        n \in Amounts, k \in Keys : Accept(c, kind, direction, a, n, k)
  \/ \E t \in Txns : BookTransfer(c, t) \/ FindTransfer(c, t)
  \/ InsertTransferRow(c)
  \/ AbandonCall(c)

WorkerStep(w) ==
  \/ SubmitAch(w)
  \/ ClaimAch(w)
  \/ SkipAch(w)
  \/ ClaimWires(w)
  \/ \E r \in Calls : SettleRow(w, r)
  \/ Announce(w)
  \/ EndBatch(w)
  \/ TickFails(w)

SettlementNext ==
  \/ \E c \in Calls : TransferStep(c) \/ Ripen(c)
  \/ \E w \in Workers : WorkerStep(w) \/ StopWorker(w)
  \/ \E p \in Providers : SwitchRails(p)
  \/ OtherLedgerStep

\* setInterval runs the worker for ever, and minutes pass.  Customers,
\* administrators and operators need not do anything.
SettlementFairness ==
  /\ \A w \in Workers : WF_settlementVars(WorkerStep(w))
  /\ \A r \in Calls : WF_settlementVars(Ripen(r))

SettlementSpec == SettlementInit /\ [][SettlementNext]_settlementVars /\ SettlementFairness
-----------------------------------------------------------------------------
(* Properties                                                              *)

SettlementTypeOK ==
  /\ TypeOK
  /\ rails \in [Providers -> BOOLEAN]
  /\ call \in [Calls -> [step : CallStep, kind : Providers, direction : {"in", "out"},
                         account : Accounts \cup {NoAccount}, amount : Amounts \cup {0},
                         key : Keys \cup {NoKey}, txn : Txns \cup {NoTxn}]]
  /\ row \in [Calls -> [kind : Providers, txn : Txns \cup {NoTxn},
                        status : RowStatus \cup {"none"}]]
  /\ worker \in [Workers -> [step : WorkerSteps, batch : SUBSET Calls,
                             done : Calls \cup {NoCall}]]
  /\ announced \in [Calls -> Nat]
  /\ stops \in 0..MaxStops
  /\ switches \in 0..MaxSwitches

\* A row that reads 'settled' stands for money that has moved, also when several
\* rows, several replicas and an administrator got hold of one transaction.
SettledRowsMovedMoney ==
  \A r \in Calls :
     row[r].status = "settled" =>
        \A side \in Sides : entries[row[r].txn][side].status = "posted"

\* A wire booked under review, because of its amount, is never settled by the
\* worker: neither before an administrator has looked at it nor, since the
\* worker wants 'pending' and the release leaves 'posted', afterwards.
LargeWiresAreNotSettled ==
  \A r \in Calls :
     /\ row[r].kind = "wire"
     /\ [txn |-> row[r].txn, topic |-> "pending_review"] \in outbox
     => row[r].status # "settled"

\* transaction-worker/src/worker.js on its concurrency: "can run >1 replica
\* without double-processing".  Each row is settled and announced once.
AnnouncedOnce == \A r \in Calls : announced[r] =< 1

\* Once ACH stays enabled, every ACH transfer that was initiated is settled, in
\* spite of stopped replicas, releases and flags.
AchSettles ==
  <>[]rails["ach"] =>
     \A r \in Calls :
        row[r].kind = "ach" /\ row[r].status = "initiated" ~> row[r].status = "settled"

\* Once both rails stay enabled, every wire that was initiated is settled,
\* unless its transaction was released or flagged first.  With ACH disabled the
\* tick fails before it comes to the wires, so one rail is not enough.
WiresSettle ==
  <>[](rails["ach"] /\ rails["wire"]) =>
     \A r \in Calls :
        row[r].kind = "wire" /\ row[r].status = "initiated" ~>
           \/ row[r].status = "settled"
           \/ \E t \in Txns : row[r].txn = t /\ txnStatus[t] # "pending"

\* The ledger goes through steps of module Ledger only.
ImplementsLedger == Spec
=============================================================================
