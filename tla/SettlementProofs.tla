--------------------------- MODULE SettlementProofs ---------------------------
(***************************************************************************)
(* Proofs about ACH and wire transfers and the transaction worker, for any *)
(* number of calls, replicas, stops and switches of the rails.             *)
(***************************************************************************)
EXTENDS Settlement, LedgerProofs, FiniteSetTheorems

CallRecord == [step : CallStep, kind : Providers, direction : {"in", "out"},
               account : Accounts \cup {NoAccount}, amount : Amounts \cup {0},
               key : Keys \cup {NoKey}, txn : Txns \cup {NoTxn}]

RowRecord == [kind : Providers, txn : Txns \cup {NoTxn},
              status : RowStatus \cup {"none"}]

WorkerRecord == [step : WorkerSteps, batch : SUBSET Calls, done : Calls \cup {NoCall}]

\* The types of the tables and local variables besides the ledger's.
RowsOK ==
  /\ rails \in [Providers -> BOOLEAN]
  /\ call \in [Calls -> CallRecord]
  /\ row \in [Calls -> RowRecord]
  /\ worker \in [Workers -> WorkerRecord]
  /\ announced \in [Calls -> Nat]
  /\ stops \in 0..MaxStops
  /\ switches \in 0..MaxSwitches

\* What a call knows at each step; it has no row before its last one.
CallsReal ==
  \A c \in Calls :
     /\ call[c].step \in {"accepted", "booked"} =>
          /\ call[c].account \in Customers
          /\ call[c].amount \in Amounts
          /\ call[c].key \in Keys
     /\ call[c].step = "booked" => call[c].txn \in Txns /\ Exists(call[c].txn)
     /\ call[c].step # "done" => row[c].status = "none"

\* A row belongs to a transaction that exists.
RowsReal ==
  \A r \in Calls : row[r].status # "none" => row[r].txn \in Txns /\ Exists(row[r].txn)

\* A replica that settles has claimed rows of the table it works on.
BatchReal ==
  \A w \in Workers : worker[w].step \in Settling =>
     \A r \in Calls : r \in worker[w].batch =>
        /\ row[r].status # "none"
        /\ row[r].kind = IF worker[w].step = "settleAch" THEN "ach" ELSE "wire"

SettlementRows == RowsOK /\ CallsReal /\ RowsReal /\ BatchReal /\ KeysReal

-----------------------------------------------------------------------------
(* Transfers and settlement use the ledger through its own steps only      *)

\* A transfer is a posting the ledger accepts.
LEMMA TransferPosting ==
  ASSUME SettlementRows, NEW c \in Calls, call[c].step = "accepted"
  PROVE  Transfer(c) \in Postings
  BY SettlementAssumption DEF SettlementRows, CallsReal, Transfer, Postings, Customers

\* The row a replica settles has a transaction.
LEMMA BatchTxn ==
  ASSUME SettlementRows, NEW w \in Workers, NEW r \in Calls, SettleRow(w, r)
  PROVE  row[r].status # "none" /\ row[r].txn \in Txns /\ SettleTransaction(row[r].txn)
  BY DEF SettlementRows, SettleRow, BatchReal, RowsReal

\* Of the ledger's steps, transfers and their settlement take four: nothing here
\* cancels a hold, marks a reversal or freezes an account.
FourSteps ==
  \/ \E t \in Txns, k \in Keys, p \in Postings : PostTransaction(t, k, p)
  \/ \E t \in Txns : ReleaseTransaction(t) \/ SettleTransaction(t) \/ FlagTransaction(t)

\* A step of the handlers or of the worker is one of them or leaves the ledger
\* alone.
LEMMA LedgerStep ==
  ASSUME SettlementRows, [SettlementNext]_settlementVars
  PROVE  FourSteps \/ UNCHANGED vars
<1>1. ASSUME NEW c \in Calls, TransferStep(c)
      PROVE  FourSteps \/ UNCHANGED vars
  <2>1. ASSUME NEW t \in Txns, BookTransfer(c, t)
        PROVE  FourSteps
    <3>1. /\ call[c].key \in Keys
          /\ Transfer(c) \in Postings
          /\ PostTransaction(t, call[c].key, Transfer(c))
      BY <2>1, TransferPosting DEF BookTransfer, SettlementRows, CallsReal
    <3>2. QED
      BY <3>1 DEF FourSteps
  <2>2. QED
    BY <1>1, <2>1
       DEF TransferStep, Accept, FindTransfer, InsertTransferRow, AbandonCall, ledgerVars
<1>2. ASSUME NEW w \in Workers, WorkerStep(w)
      PROVE  FourSteps \/ UNCHANGED vars
  <2>1. ASSUME NEW r \in Calls, SettleRow(w, r)
        PROVE  FourSteps
    BY <2>1, BatchTxn DEF FourSteps
  <2>2. QED
    BY <1>2, <2>1
       DEF WorkerStep, SubmitAch, ClaimAch, SkipAch, ClaimWires, Announce, EndBatch,
           TickFails, ledgerVars
<1>3. ASSUME OtherLedgerStep
      PROVE  FourSteps
  BY <1>3 DEF OtherLedgerStep, FourSteps
<1>4. CASE UNCHANGED settlementVars
  BY <1>4 DEF settlementVars, vars
<1>5. QED
  BY <1>1, <1>2, <1>3, <1>4
     DEF SettlementNext, Ripen, StopWorker, SwitchRails, ledgerVars

\* In particular they go through steps of module Ledger only.
LEMMA NextOfLedger ==
  ASSUME SettlementRows, [SettlementNext]_settlementVars
  PROVE  [Next]_vars
  BY LedgerStep DEF FourSteps, Next

-----------------------------------------------------------------------------
(* The rows and local variables                                            *)

\* Every step leaves a row alone, inserts it for the call that owns it, or
\* moves its status on.
LEMMA RowChanges ==
  ASSUME SettlementRows, [SettlementNext]_settlementVars, NEW r \in Calls
  PROVE  \/ row'[r] = row[r]
         \/ InsertTransferRow(r)
         \/ /\ row[r].status # "none"
            /\ row'[r] \in RowRecord
            /\ row'[r].kind = row[r].kind
            /\ row'[r].txn = row[r].txn
            /\ row'[r].status \in {"submitted", "ripe"}
         \/ /\ row[r].status # "none"
            /\ row'[r] \in RowRecord
            /\ row'[r].kind = row[r].kind
            /\ row'[r].txn = row[r].txn
            /\ row'[r].status = "settled"
            /\ \E w \in Workers : SettleRow(w, r)
<1> DEFINE Moved == /\ row[r].status # "none"
                    /\ row'[r] \in RowRecord
                    /\ row'[r].kind = row[r].kind
                    /\ row'[r].txn = row[r].txn
<1>1. /\ row[r] \in RowRecord
      /\ row \in [Calls -> RowRecord]
  BY DEF SettlementRows, RowsOK
<1>2. ASSUME NEW st \in {"submitted", "ripe", "settled"}
      PROVE  LET new == [row[r] EXCEPT !.status = st]
             IN  new \in RowRecord /\ new.kind = row[r].kind
                 /\ new.txn = row[r].txn /\ new.status = st
  BY <1>1 DEF RowRecord, RowStatus
<1>3. ASSUME NEW c \in Calls, InsertTransferRow(c)
      PROVE  row'[r] = row[r] \/ InsertTransferRow(r)
  BY <1>1, <1>3 DEF InsertTransferRow
<1>4. ASSUME NEW w \in Workers, SubmitAch(w)
      PROVE  row'[r] = row[r] \/ (Moved /\ row'[r].status = "submitted")
  BY <1>1, <1>2, <1>4 DEF SubmitAch
<1>5. ASSUME NEW q \in Calls, Ripen(q)
      PROVE  row'[r] = row[r] \/ (Moved /\ row'[r].status = "ripe")
  <2>1. CASE q = r
    <3>1. row'[r] = [row[r] EXCEPT !.status = "ripe"] /\ row[r].status # "none"
      BY <1>1, <1>5, <2>1 DEF Ripen
    <3>2. QED
      BY <1>2, <3>1
  <2>2. CASE q # r
    BY <1>1, <1>5, <2>2 DEF Ripen
  <2>3. QED
    BY <2>1, <2>2
<1>6. ASSUME NEW w \in Workers, NEW q \in Calls, SettleRow(w, q)
      PROVE  row'[r] = row[r] \/ (Moved /\ row'[r].status = "settled" /\ SettleRow(w, r))
  <2>1. CASE q = r
    <3>1. row'[r] = [row[r] EXCEPT !.status = "settled"] /\ row[r].status # "none"
      BY <1>1, <1>6, <2>1, BatchTxn DEF SettleRow
    <3>2. QED
      BY <1>2, <1>6, <2>1, <3>1
  <2>2. CASE q # r
    BY <1>1, <1>6, <2>2 DEF SettleRow
  <2>3. QED
    BY <2>1, <2>2
<1>7. CASE UNCHANGED row
  BY <1>7
<1>8. QED
  BY <1>3, <1>4, <1>5, <1>6, <1>7
     DEF SettlementNext, TransferStep, WorkerStep, Accept, BookTransfer, FindTransfer,
         AbandonCall, ClaimAch, SkipAch, ClaimWires, Announce, EndBatch, TickFails,
         StopWorker, SwitchRails, OtherLedgerStep, settlementVars

\* A call keeps its types and what it knows.
LEMMA CallStepOK ==
  ASSUME LedgerInv, SettlementRows, NEW c \in Calls, TransferStep(c),
         \A t \in Txns : Exists(t) => Exists(t)'
  PROVE  (call \in [Calls -> CallRecord] /\ CallsReal)'
<1>1. /\ call \in [Calls -> CallRecord]
      /\ row \in [Calls -> RowRecord]
      /\ CallsReal
      /\ call[c] \in CallRecord
  BY DEF SettlementRows, RowsOK
<1>2. ASSUME NEW kind \in Providers, NEW direction \in {"in", "out"}, NEW a \in Customers,
             NEW n \in Amounts, NEW k \in Keys, Accept(c, kind, direction, a, n, k)
      PROVE  (call \in [Calls -> CallRecord] /\ CallsReal)'
  BY <1>1, <1>2 DEF Accept, CallRecord, CallStep, CallsReal, Customers, Exists, ledgerVars, vars
<1>3. ASSUME NEW t \in Txns, BookTransfer(c, t) \/ FindTransfer(c, t)
      PROVE  (call \in [Calls -> CallRecord] /\ CallsReal)'
  <2>1. Exists(t)'
    <3>1. CASE BookTransfer(c, t)
      BY <3>1 DEF BookTransfer, PostTransaction, WriteTransaction, Transfer, Exists, LedgerInv, TypeOK
    <3>2. CASE FindTransfer(c, t)
      <4>1. idempotencyKey[t] \in Keys
        BY <1>1, <3>2 DEF FindTransfer, CallsReal
      <4>2. QED
        BY <4>1, LedgerAssumption DEF SettlementRows, KeysReal
    <3>3. QED
      BY <1>3, <3>1, <3>2
  <2>2. /\ call' = [call EXCEPT ![c] = [@ EXCEPT !.step = "booked", !.txn = t]]
        /\ call[c].step = "accepted"
        /\ UNCHANGED row
    BY <1>3 DEF BookTransfer, FindTransfer
  <2>3. [call[c] EXCEPT !.step = "booked", !.txn = t] \in CallRecord
    BY <1>1 DEF CallRecord, CallStep
  <2>4. QED
    BY <1>1, <2>1, <2>2, <2>3 DEF CallsReal, Exists
<1>4. ASSUME InsertTransferRow(c) \/ AbandonCall(c)
      PROVE  (call \in [Calls -> CallRecord] /\ CallsReal)'
  <2>1. [call[c] EXCEPT !.step = "done"] \in CallRecord
    BY <1>1 DEF CallRecord, CallStep
  <2>2. /\ call' = [call EXCEPT ![c].step = "done"]
        /\ \A d \in Calls : d # c => row'[d] = row[d]
        /\ UNCHANGED txnStatus
    BY <1>1, <1>4 DEF InsertTransferRow, AbandonCall, ledgerVars, vars
  <2>3. QED
    BY <1>1, <2>1, <2>2 DEF CallsReal, Exists
<1>5. QED
  BY <1>2, <1>3, <1>4 DEF TransferStep

\* A replica keeps its types.
LEMMA WorkerTypeOK ==
  ASSUME SettlementRows, NEW w \in Workers, WorkerStep(w) \/ StopWorker(w)
  PROVE  /\ worker' \in [Workers -> WorkerRecord]
         /\ \A v \in Workers : v # w => worker'[v] = worker[v]
<1>1. worker \in [Workers -> WorkerRecord] /\ worker[w] \in WorkerRecord
  BY DEF SettlementRows, RowsOK
<1>2. Asleep \in WorkerRecord
  BY DEF Asleep, WorkerRecord, WorkerSteps
<1>3. \A st \in WorkerSteps : [worker[w] EXCEPT !.step = st] \in WorkerRecord
  BY <1>1 DEF WorkerRecord
<1>4. ASSUME NEW st \in WorkerSteps, NEW b \in SUBSET Calls
      PROVE  [worker[w] EXCEPT !.step = st, !.batch = b] \in WorkerRecord
  BY <1>1 DEF WorkerRecord
<1>5. ASSUME NEW r \in Calls
      PROVE  [worker[w] EXCEPT !.done = r] \in WorkerRecord
  BY <1>1 DEF WorkerRecord
<1>6. ASSUME NEW r \in Calls
      PROVE  [worker[w] EXCEPT !.batch = worker[w].batch \ {r}, !.done = NoCall] \in WorkerRecord
  BY <1>1 DEF WorkerRecord
<1>7. {"ach", "wires", "settleAch", "settleWires"} \subseteq WorkerSteps
  BY DEF WorkerSteps
<1>8. CASE SubmitAch(w) \/ SkipAch(w) \/ EndBatch(w) \/ TickFails(w) \/ StopWorker(w)
  BY <1>1, <1>2, <1>3, <1>7, <1>8 DEF SubmitAch, SkipAch, EndBatch, TickFails, StopWorker
<1>9. CASE ClaimAch(w)
  BY <1>1, <1>4, <1>7, <1>9 DEF ClaimAch
<1>10. CASE ClaimWires(w)
  BY <1>1, <1>4, <1>7, <1>10 DEF ClaimWires
<1>11. ASSUME NEW r \in Calls, SettleRow(w, r)
       PROVE  /\ worker' \in [Workers -> WorkerRecord]
              /\ \A v \in Workers : v # w => worker'[v] = worker[v]
  BY <1>1, <1>5, <1>11 DEF SettleRow
<1>12. CASE Announce(w)
  <2>1. worker[w].done \in Calls
    BY <1>1, <1>12 DEF Announce, WorkerRecord
  <2>2. worker' = [worker EXCEPT ![w] =
          [worker[w] EXCEPT !.batch = worker[w].batch \ {worker[w].done}, !.done = NoCall]]
    BY <1>12 DEF Announce
  <2>3. QED
    BY <1>1, <1>6, <2>1, <2>2
<1>13. QED
  BY <1>8, <1>9, <1>10, <1>11, <1>12 DEF WorkerStep

\* The tables and local variables keep their types.
LEMMA RowsTypeOK ==
  ASSUME LedgerInv, SettlementRows, [SettlementNext]_settlementVars,
         \A t \in Txns : Exists(t) => Exists(t)'
  PROVE  RowsOK'
<1> USE DEF SettlementRows, RowsOK
<1>1. row' \in [Calls -> RowRecord]
  <2>1. ASSUME NEW r \in Calls
        PROVE  row'[r] \in RowRecord
    <3>1. CASE InsertTransferRow(r)
      BY <3>1 DEF InsertTransferRow, CallsReal, RowRecord, RowStatus, CallRecord
    <3>2. CASE row'[r] = row[r]
      BY <3>2
    <3>3. QED
      BY <3>1, <3>2, RowChanges
  <2>2. row' = [r \in Calls |-> row'[r]]
    <3>1. ASSUME NEW c \in Calls, TransferStep(c) \/ Ripen(c)
          PROVE  row' = [r \in Calls |-> row'[r]]
      BY <3>1 DEF TransferStep, Accept, BookTransfer, FindTransfer, InsertTransferRow,
                  AbandonCall, Ripen
    <3>2. ASSUME NEW w \in Workers, WorkerStep(w)
          PROVE  row' = [r \in Calls |-> row'[r]]
      BY <3>2 DEF WorkerStep, SubmitAch, ClaimAch, SkipAch, ClaimWires, SettleRow, Announce,
                  EndBatch, TickFails
    <3>3. CASE UNCHANGED row
      BY <3>3
    <3>4. QED
      BY <3>1, <3>2, <3>3
         DEF SettlementNext, StopWorker, SwitchRails, OtherLedgerStep, settlementVars
  <2>3. QED
    BY <2>1, <2>2
<1>2. call' \in [Calls -> CallRecord]
  <2>1. ASSUME NEW c \in Calls, TransferStep(c)
        PROVE  call' \in [Calls -> CallRecord]
    BY <2>1, CallStepOK
  <2>2. QED
    BY <2>1
       DEF SettlementNext, WorkerStep, Ripen, SubmitAch, ClaimAch, SkipAch, ClaimWires,
           SettleRow, Announce, EndBatch, TickFails, StopWorker, SwitchRails,
           OtherLedgerStep, settlementVars
<1>3. worker' \in [Workers -> WorkerRecord]
  <2>1. ASSUME NEW w \in Workers, WorkerStep(w) \/ StopWorker(w)
        PROVE  worker' \in [Workers -> WorkerRecord]
    BY <2>1, WorkerTypeOK
  <2>2. QED
    BY <2>1
       DEF SettlementNext, TransferStep, Accept, BookTransfer, FindTransfer,
           InsertTransferRow, AbandonCall, Ripen, SwitchRails, OtherLedgerStep,
           settlementVars
<1>4. announced' \in [Calls -> Nat]
  <2>1. ASSUME NEW r \in Calls, announced' = [announced EXCEPT ![r] = @ + 1]
        PROVE  announced' \in [Calls -> Nat]
    BY <2>1
  <2>2. ASSUME NEW w \in Workers, Announce(w)
        PROVE  worker[w].done \in Calls /\ announced' = [announced EXCEPT ![worker[w].done] = @ + 1]
    BY <2>2 DEF Announce, WorkerRecord
  <2>3. QED
    BY <2>1, <2>2
       DEF SettlementNext, TransferStep, WorkerStep, Accept, BookTransfer, FindTransfer,
           InsertTransferRow, AbandonCall, Ripen, SubmitAch, ClaimAch, SkipAch, ClaimWires,
           SettleRow, EndBatch, TickFails, StopWorker, SwitchRails,
           OtherLedgerStep, settlementVars
<1>5. stops' \in 0..MaxStops /\ switches' \in 0..MaxSwitches /\ rails' \in [Providers -> BOOLEAN]
  <2>1. ASSUME NEW w \in Workers, StopWorker(w)
        PROVE  stops' \in 0..MaxStops /\ UNCHANGED <<switches, rails>>
    BY <2>1, SettlementAssumption DEF StopWorker
  <2>2. ASSUME NEW p \in Providers, SwitchRails(p)
        PROVE  /\ switches' \in 0..MaxSwitches
               /\ rails' \in [Providers -> BOOLEAN]
               /\ UNCHANGED stops
    <3>1. switches' \in 0..MaxSwitches /\ UNCHANGED stops
      BY <2>2, SettlementAssumption DEF SwitchRails
    <3>2. rails' = [rails EXCEPT ![p] = ~rails[p]]
      BY <2>2 DEF SwitchRails
    <3>3. rails' \in [Providers -> BOOLEAN]
      BY <3>2, Zenon
    <3>4. QED
      BY <3>1, <3>3
  <2>3. CASE UNCHANGED <<stops, switches, rails>>
    BY <2>3
  <2>4. QED
    BY <2>1, <2>2, <2>3
       DEF SettlementNext, TransferStep, WorkerStep, Accept, BookTransfer, FindTransfer,
           InsertTransferRow, AbandonCall, Ripen, SubmitAch, ClaimAch, SkipAch, ClaimWires,
           SettleRow, Announce, EndBatch, TickFails, OtherLedgerStep, settlementVars
<1>6. QED
  BY <1>1, <1>2, <1>3, <1>4, <1>5

\* Calls know what they know whatever the others do.
LEMMA CallsRealStep ==
  ASSUME LedgerInv, SettlementRows, [SettlementNext]_settlementVars,
         \A t \in Txns : Exists(t) => Exists(t)'
  PROVE  CallsReal'
<1>1. ASSUME NEW c \in Calls, TransferStep(c)
      PROVE  CallsReal'
  BY <1>1, CallStepOK
<1>2. CASE UNCHANGED call
  <2>1. ASSUME NEW c \in Calls, InsertTransferRow(c)
        PROVE  CallsReal'
    BY <2>1, CallStepOK DEF TransferStep
  <2>2. ASSUME NEW c \in Calls, row[c].status = "none", ~ InsertTransferRow(c)
        PROVE  row'[c].status = "none"
    BY <2>2, RowChanges
  <2>3. QED
    BY <1>2, <2>1, <2>2 DEF SettlementRows, CallsReal, Exists
<1>3. QED
  BY <1>1, <1>2
     DEF SettlementNext, WorkerStep, Ripen, SubmitAch, ClaimAch, SkipAch, ClaimWires,
         SettleRow, Announce, EndBatch, TickFails, StopWorker, SwitchRails,
         OtherLedgerStep, settlementVars

\* Rows keep their transactions.
LEMMA RowsRealStep ==
  ASSUME LedgerInv, SettlementRows, [SettlementNext]_settlementVars,
         \A t \in Txns : Exists(t) => Exists(t)'
  PROVE  RowsReal'
<1> SUFFICES ASSUME NEW r \in Calls, row'[r].status # "none"
             PROVE  row'[r].txn \in Txns /\ txnStatus'[row'[r].txn] # "none"
  BY DEF RowsReal, Exists
<1>1. CASE InsertTransferRow(r)
  <2>1. row'[r].txn = call[r].txn /\ call[r].txn \in Txns /\ Exists(call[r].txn)
    BY <1>1 DEF InsertTransferRow, SettlementRows, CallsReal, RowsOK
  <2>2. QED
    BY <2>1 DEF Exists
<1>2. CASE row'[r].txn = row[r].txn /\ row[r].status # "none"
  <2>1. row[r].txn \in Txns /\ Exists(row[r].txn)
    BY <1>2 DEF SettlementRows, RowsReal
  <2>2. QED
    BY <1>2, <2>1 DEF Exists
<1>3. QED
  BY <1>1, <1>2, RowChanges

\* A row that is there stays, in its table and with its transaction.
LEMMA RowKept ==
  ASSUME SettlementRows, [SettlementNext]_settlementVars, NEW r \in Calls,
         row[r].status # "none"
  PROVE  /\ row'[r].status # "none"
         /\ row'[r].kind = row[r].kind
         /\ row'[r].txn = row[r].txn
<1>1. ~ InsertTransferRow(r)
  BY DEF InsertTransferRow, SettlementRows, CallsReal
<1>2. QED
  BY <1>1, RowChanges

\* A row in the batch of a replica was there before or has just been claimed.
LEMMA BatchChanges ==
  ASSUME SettlementRows, [SettlementNext]_settlementVars, NEW v \in Workers,
         worker'[v].step \in Settling, NEW r \in Calls, r \in worker'[v].batch
  PROVE  \/ /\ worker'[v].step = worker[v].step
            /\ r \in worker[v].batch
         \/ /\ worker'[v].step = "settleAch"
            /\ row[r].kind = "ach"
            /\ row[r].status = "ripe"
         \/ /\ worker'[v].step = "settleWires"
            /\ row[r].kind = "wire"
            /\ row[r].status = "initiated"
            /\ txnStatus[row[r].txn] = "pending"
<1>1. worker \in [Workers -> WorkerRecord] /\ worker[v] \in WorkerRecord
  BY DEF SettlementRows, RowsOK
<1>2. ASSUME NEW w \in Workers, WorkerStep(w) \/ StopWorker(w), v # w
      PROVE  worker'[v] = worker[v]
  BY <1>2, WorkerTypeOK
<1>3. CASE ClaimAch(v)
  <2>1. /\ worker'[v].step = "settleAch"
        /\ worker'[v].batch = {q \in Calls : row[q].kind = "ach" /\ row[q].status = "ripe"}
    BY <1>1, <1>3 DEF ClaimAch, WorkerRecord
  <2>2. QED
    BY <2>1
<1>4. CASE ClaimWires(v)
  <2>1. /\ worker'[v].step = "settleWires"
        /\ worker'[v].batch = {q \in Calls : /\ row[q].kind = "wire"
                                             /\ row[q].status = "initiated"
                                             /\ txnStatus[row[q].txn] = "pending"}
    BY <1>1, <1>4 DEF ClaimWires, WorkerRecord
  <2>2. QED
    BY <2>1
<1>5. CASE Announce(v)
  BY <1>1, <1>5 DEF Announce, WorkerRecord
<1>6. ASSUME NEW q \in Calls, SettleRow(v, q)
      PROVE  worker'[v].step = worker[v].step /\ worker'[v].batch = worker[v].batch
  BY <1>1, <1>6 DEF SettleRow, WorkerRecord
<1>7. ~ (SubmitAch(v) \/ SkipAch(v) \/ EndBatch(v) \/ TickFails(v) \/ StopWorker(v))
  BY <1>1 DEF SubmitAch, SkipAch, EndBatch, TickFails, StopWorker, Asleep, Settling,
              WorkerRecord
<1>8. CASE UNCHANGED worker
  BY <1>8
<1>9. QED
  BY <1>2, <1>3, <1>4, <1>5, <1>6, <1>7, <1>8
     DEF SettlementNext, WorkerStep, TransferStep, Accept, BookTransfer, FindTransfer,
         InsertTransferRow, AbandonCall, Ripen, SwitchRails, OtherLedgerStep,
         settlementVars

\* Claimed rows stay rows of the table their replica works on.
LEMMA BatchRealStep ==
  ASSUME SettlementRows, [SettlementNext]_settlementVars
  PROVE  BatchReal'
<1> SUFFICES ASSUME NEW v \in Workers, worker'[v].step \in Settling,
                    NEW r \in Calls, r \in worker'[v].batch
             PROVE  /\ row'[r].status # "none"
                    /\ row'[r].kind = IF worker'[v].step = "settleAch" THEN "ach" ELSE "wire"
  BY DEF BatchReal
<1>1. row[r].status # "none"
      /\ row[r].kind = IF worker'[v].step = "settleAch" THEN "ach" ELSE "wire"
  BY BatchChanges DEF SettlementRows, BatchReal
<1>2. QED
  BY <1>1, RowKept

\* What the handlers know is kept by every step.
LEMMA RowsStep ==
  ASSUME LedgerInv, SettlementRows, [SettlementNext]_settlementVars
  PROVE  LedgerInv' /\ SettlementRows'
<1>1. [Next]_vars
  BY NextOfLedger
<1>2. /\ \A t \in Txns : Exists(t) => Exists(t)'
      /\ KeysReal'
  BY <1>1, ExistsKept DEF SettlementRows
<1>3. QED
  BY <1>1, <1>2, InvStep, RowsTypeOK, CallsRealStep, RowsRealStep, BatchRealStep
     DEF SettlementRows

\* It holds at the start.
LEMMA RowsInit == SettlementInit => LedgerInv /\ SettlementRows
<1> SUFFICES ASSUME SettlementInit PROVE LedgerInv /\ SettlementRows
  OBVIOUS
<1>1. LedgerInv
  BY InvInit DEF SettlementInit
<1>2. RowsOK
  BY SettlementAssumption
     DEF SettlementInit, RowsOK, CallRecord, RowRecord, WorkerRecord, IdleCall, NoRow,
         Asleep, CallStep, RowStatus, WorkerSteps, Providers
<1>3. CallsReal /\ RowsReal /\ BatchReal /\ KeysReal
  BY DEF SettlementInit, Init, CallsReal, RowsReal, BatchReal, KeysReal, IdleCall, NoRow,
         Asleep, Settling
<1>4. QED
  BY <1>1, <1>2, <1>3 DEF SettlementRows

\* The ledger's inductive invariant and what the handlers and the worker know
\* hold together.
THEOREM SettlementInvariant == SettlementSpec => [](LedgerInv /\ SettlementRows)
  BY RowsInit, RowsStep, PTL DEF SettlementSpec

\* The tables and local variables have their types.
THEOREM SettlementTypeCorrect == SettlementSpec => []SettlementTypeOK
<1>1. LedgerInv /\ SettlementRows => SettlementTypeOK
  BY DEF LedgerInv, SettlementRows, RowsOK, SettlementTypeOK, CallRecord, RowRecord,
         WorkerRecord
<1>2. QED
  BY <1>1, SettlementInvariant, PTL

\* Transfers, settlement by any number of replicas, releases and flags go
\* through steps of module Ledger only, so that everything proved about the
\* ledger holds of them.
THEOREM SettlementImplementsLedger == SettlementSpec => ImplementsLedger
<1>1. SettlementInit => Init
  BY DEF SettlementInit
<1>2. QED
  BY <1>1, SettlementInvariant, NextOfLedger, PTL DEF SettlementSpec, Spec, ImplementsLedger

-----------------------------------------------------------------------------
(* A settled row stands for money that has moved                           *)

\* Nobody here gives a transfer's hold back.
NothingReleased == \A t \in Txns, side \in Sides : entries[t][side].status # "released"

\* The pending entries of a transaction post; the others stay.
LEMMA PostedByFlip ==
  ASSUME LedgerInv, NEW t \in Txns, NEW st, PostPending(t, st), NEW u \in Txns,
         NEW side \in Sides
  PROVE  /\ entries'[u][side].status \in {entries[u][side].status, "posted"}
         /\ entries[t][side].status \in {"pending", "posted"}
              => entries'[t][side].status = "posted"
<1>1. /\ entries'[t][side] = Flipped(entries[t][side], "posted")
      /\ u # t => entries'[u] = entries[u]
  BY DEF PostPending, Flip, LedgerInv, TypeOK
<1>2. QED
  BY <1>1 DEF Flipped

\* A step releases nothing.
LEMMA ReleasedStep ==
  ASSUME LedgerInv, SettlementRows, NothingReleased, [SettlementNext]_settlementVars
  PROVE  NothingReleased'
<1> SUFFICES ASSUME NEW u \in Txns, NEW side \in Sides
             PROVE  entries'[u][side].status # "released"
  BY DEF NothingReleased
<1>1. entries[u][side].status # "released"
  BY DEF NothingReleased
<1>2. ASSUME NEW t \in Txns, NEW k \in Keys, NEW p \in Postings,
             PostTransaction(t, k, p)
      PROVE  entries'[u][side].status # "released"
  <2>1. entries' = [entries EXCEPT ![t] = NewEntries(p)]
    BY <1>2 DEF PostTransaction, WriteTransaction
  <2>2. NewEntries(p)[side].status # "released"
    BY DEF NewEntries, EntryStatusOf
  <2>3. QED
    BY <1>1, <2>1, <2>2 DEF LedgerInv, TypeOK
<1>3. ASSUME NEW t \in Txns, ReleaseTransaction(t) \/ SettleTransaction(t)
      PROVE  entries'[u][side].status # "released"
  BY <1>1, <1>3, PostedByFlip DEF ReleaseTransaction, SettleTransaction
<1>4. CASE UNCHANGED entries
  BY <1>1, <1>4
<1>5. QED
  BY <1>2, <1>3, <1>4, LedgerStep DEF FourSteps, FlagTransaction, vars

\* A step keeps every settled row's money moved.
LEMMA SettledStep ==
  ASSUME LedgerInv, SettlementRows, NothingReleased, SettledRowsMovedMoney,
         [SettlementNext]_settlementVars
  PROVE  SettledRowsMovedMoney'
<1> SUFFICES ASSUME NEW r \in Calls, row'[r].status = "settled", NEW side \in Sides
             PROVE  entries'[row'[r].txn][side].status = "posted"
  BY DEF SettledRowsMovedMoney
<1>1. CASE row'[r] = row[r]
  <2>1. /\ row[r].txn \in Txns
        /\ Exists(row[r].txn)
        /\ entries[row[r].txn][side].status = "posted"
    BY <1>1 DEF SettledRowsMovedMoney, SettlementRows, RowsReal
  <2>2. EntryFinal(row[r].txn, side)
    BY <2>1, NextOfLedger, FinalStep
  <2>3. QED
    BY <1>1, <2>1, <2>2 DEF EntryFinal
<1>2. ASSUME NEW w \in Workers, SettleRow(w, r), row'[r].txn = row[r].txn
      PROVE  entries'[row'[r].txn][side].status = "posted"
  <2>1. row[r].txn \in Txns /\ SettleTransaction(row[r].txn)
    BY <1>2, BatchTxn
  <2>2. entries[row[r].txn][side].status \in {"pending", "posted"}
    <3>1. entries[row[r].txn][side] \in Entry
      BY <2>1 DEF LedgerInv, TypeOK
    <3>2. entries[row[r].txn][side].status # "none"
      BY <2>1 DEF LedgerInv, EntriesPaired, SettleTransaction, Exists, Sides
    <3>3. entries[row[r].txn][side].status # "released"
      BY <2>1 DEF NothingReleased
    <3>4. QED
      BY <3>1, <3>2, <3>3 DEF Entry, EntryStatus
  <2>3. QED
    BY <1>2, <2>1, <2>2, PostedByFlip DEF SettleTransaction
<1>3. ~ InsertTransferRow(r)
  BY DEF InsertTransferRow, SettlementRows, RowsOK
<1>4. QED
  BY <1>1, <1>2, <1>3, RowChanges

\* A row that reads 'settled' stands for two posted entries, whichever replicas
\* and administrators got hold of its transaction.
THEOREM SettledRowsHaveMovedMoney == SettlementSpec => []SettledRowsMovedMoney
<1>1. SettlementInit => NothingReleased /\ SettledRowsMovedMoney
  BY DEF SettlementInit, Init, NothingReleased, SettledRowsMovedMoney, NoEntry, NoRow
<1>2. QED
  BY <1>1, ReleasedStep, SettledStep, SettlementInvariant, PTL DEF SettlementSpec

-----------------------------------------------------------------------------
(* The worker settles no wire that was booked under review                 *)

\* The outbox row of a posting under review, which stays for ever.
Reviewed(t) == [txn |-> t, topic |-> "pending_review"] \in outbox

\* A transaction booked under review is never pending: it was not at first, and
\* no row returns to 'pending'.  So no replica has claimed its wire.
ReviewKept ==
  /\ \A t \in Txns : Reviewed(t) => txnStatus[t] \notin {"none", "pending"}
  /\ \A w \in Workers, r \in Calls :
        worker[w].step = "settleWires" /\ r \in worker[w].batch => ~ Reviewed(row[r].txn)

\* Only the posting of a transaction writes that outbox row.
LEMMA ReviewedStep ==
  ASSUME LedgerInv, SettlementRows, [SettlementNext]_settlementVars, NEW u \in Txns,
         Exists(u), Reviewed(u)'
  PROVE  Reviewed(u)
<1>1. ASSUME NEW t \in Txns, NEW k \in Keys, NEW p \in Postings,
             PostTransaction(t, k, p)
      PROVE  Reviewed(u)
  <2>1. t # u /\ outbox' = outbox \cup {[txn |-> t, topic |-> p.status]}
    BY <1>1 DEF PostTransaction, WriteTransaction
  <2>2. QED
    BY <2>1 DEF Reviewed
<1>2. CASE UNCHANGED outbox
  BY <1>2 DEF Reviewed
<1>3. QED
  BY <1>1, <1>2, LedgerStep
     DEF FourSteps, ReleaseTransaction, SettleTransaction, PostPending, FlagTransaction, vars

\* No step makes a reviewed transaction pending.
LEMMA ReviewedNotPending ==
  ASSUME LedgerInv, SettlementRows, ReviewKept, [SettlementNext]_settlementVars,
         NEW u \in Txns, Reviewed(u)'
  PROVE  txnStatus'[u] \notin {"none", "pending"}
<1>1. CASE Exists(u)
  <2>1. Reviewed(u) /\ txnStatus[u] \notin {"none", "pending"}
    BY <1>1, ReviewedStep DEF ReviewKept
  <2>2. QED
    BY <1>1, <2>1, LedgerStep
       DEF FourSteps, PostTransaction, WriteTransaction, ReleaseTransaction,
           SettleTransaction, PostPending, FlagTransaction, vars, LedgerInv, TypeOK
<1>2. CASE ~ Exists(u)
  <2>1. ~ Reviewed(u)
    BY <1>2 DEF ReviewKept, Exists
  <2>2. PICK t \in Txns, k \in Keys, p \in Postings : PostTransaction(t, k, p)
    BY <2>1, LedgerStep
       DEF FourSteps, ReleaseTransaction, SettleTransaction, PostPending, FlagTransaction,
           Reviewed, vars
  <2>3. t = u /\ p.status = "pending_review"
    BY <2>1, <2>2 DEF PostTransaction, WriteTransaction, Reviewed
  <2>4. QED
    BY <2>2, <2>3 DEF PostTransaction, WriteTransaction, LedgerInv, TypeOK
<1>3. QED
  BY <1>1, <1>2

\* No replica claims the wire of a reviewed transaction.
LEMMA ReviewStep ==
  ASSUME LedgerInv, SettlementRows, ReviewKept, [SettlementNext]_settlementVars
  PROVE  ReviewKept'
<1>1. ASSUME NEW t \in Txns, Reviewed(t)'
      PROVE  txnStatus'[t] \notin {"none", "pending"}
  BY <1>1, ReviewedNotPending
<1>2. ASSUME NEW w \in Workers, NEW r \in Calls,
             worker'[w].step = "settleWires", r \in worker'[w].batch
      PROVE  [txn |-> row'[r].txn, topic |-> "pending_review"] \notin outbox'
  <2>1. row[r].status # "none"
    BY <1>2, BatchChanges DEF SettlementRows, BatchReal, Settling
  <2>2. /\ row'[r].txn = row[r].txn
        /\ row[r].txn \in Txns
        /\ Exists(row[r].txn)
    BY <2>1, RowKept DEF SettlementRows, RowsReal
  <2>3. ~ Reviewed(row[r].txn)
    BY <1>2, <2>2, BatchChanges DEF ReviewKept, Settling
  <2>4. QED
    BY <2>2, <2>3, ReviewedStep DEF Reviewed
<1>3. QED
  BY <1>1, <1>2 DEF ReviewKept, Reviewed

\* Nor does it settle one.
LEMMA LargeWireStep ==
  ASSUME LedgerInv, SettlementRows, ReviewKept, LargeWiresAreNotSettled,
         [SettlementNext]_settlementVars
  PROVE  LargeWiresAreNotSettled'
<1> SUFFICES ASSUME NEW r \in Calls, row'[r].kind = "wire", row'[r].status = "settled",
                    [txn |-> row'[r].txn, topic |-> "pending_review"] \in outbox'
             PROVE  FALSE
  BY DEF LargeWiresAreNotSettled
<1>1. ~ InsertTransferRow(r)
  BY DEF InsertTransferRow, SettlementRows, RowsOK
<1>2. /\ row[r].status # "none"
      /\ row[r].kind = "wire"
      /\ row'[r].txn = row[r].txn
      /\ \/ row[r].status = "settled"
         \/ \E w \in Workers : SettleRow(w, r)
  BY <1>1, RowChanges
<1>3. row[r].txn \in Txns /\ Exists(row[r].txn)
  BY <1>2 DEF SettlementRows, RowsReal
<1>4. Reviewed(row[r].txn)
  BY <1>2, <1>3, ReviewedStep DEF Reviewed
<1>5. CASE row[r].status = "settled"
  BY <1>2, <1>4, <1>5 DEF LargeWiresAreNotSettled, Reviewed
<1>6. ASSUME NEW w \in Workers, SettleRow(w, r)
      PROVE  FALSE
  BY <1>2, <1>4, <1>6 DEF SettleRow, Settling, SettlementRows, BatchReal, ReviewKept
<1>7. QED
  BY <1>2, <1>5, <1>6

\* A wire that was booked under review is never settled by the worker, not even
\* after an administrator has released it.
THEOREM LargeWiresStayUnsettled == SettlementSpec => []LargeWiresAreNotSettled
<1>1. SettlementInit => ReviewKept /\ LargeWiresAreNotSettled
  BY DEF SettlementInit, Init, ReviewKept, Reviewed, LargeWiresAreNotSettled, Asleep
<1>2. QED
  BY <1>1, ReviewStep, LargeWireStep, SettlementInvariant, PTL DEF SettlementSpec

-----------------------------------------------------------------------------
(* How often a row is announced                                            *)

\* The replicas that have a row in the batch they are settling.
Claimants(r) == {w \in Workers : worker[w].step \in Settling /\ r \in worker[w].batch}

\* A row is announced after it is settled, by a replica that had claimed it.
AnnouncedAfter ==
  /\ \A r \in Calls : announced[r] > 0 => row[r].status = "settled"
  /\ \A w \in Workers, r \in Calls : worker[w].done = r =>
        /\ row[r].status = "settled"
        /\ w \in Claimants(r)

\* Each replica that still has the row may announce it once more, and no replica
\* claims a settled row.
ClaimsBound ==
  \A r \in Calls : announced[r] + Cardinality(Claimants(r)) =< Cardinality(Workers)

\* What is settled stays settled.
LEMMA SettledStays ==
  ASSUME SettlementRows, [SettlementNext]_settlementVars, NEW r \in Calls,
         row[r].status = "settled"
  PROVE  row'[r] = row[r] \/ row'[r].status = "settled"
<1>t. row \in [Calls -> RowRecord]
  BY DEF SettlementRows, RowsOK
<1>1. ASSUME NEW c \in Calls, InsertTransferRow(c) PROVE row'[r] = row[r]
  <2>1. row[c].status = "none"
    BY <1>1 DEF InsertTransferRow, SettlementRows, CallsReal
  <2> QED
    BY <1>t, <1>1, <2>1 DEF InsertTransferRow
<1>2. ASSUME NEW w \in Workers, SubmitAch(w) PROVE row'[r] = row[r]
  BY <1>t, <1>2 DEF SubmitAch
<1>3. ASSUME NEW q \in Calls, Ripen(q) PROVE row'[r] = row[r]
  BY <1>t, <1>3 DEF Ripen
<1>4. ASSUME NEW w \in Workers, NEW q \in Calls, SettleRow(w, q)
      PROVE  row'[r] = row[r] \/ row'[r].status = "settled"
  <2>1. row' = [row EXCEPT ![q].status = "settled"]
    BY <1>4 DEF SettleRow
  <2> QED
    BY <1>t, <2>1 DEF RowRecord
<1> QED
  BY <1>1, <1>2, <1>3, <1>4
     DEF SettlementNext, TransferStep, WorkerStep, Accept, BookTransfer, FindTransfer,
         AbandonCall, ClaimAch, SkipAch, ClaimWires, Announce, EndBatch, TickFails,
         StopWorker, SwitchRails, OtherLedgerStep, settlementVars

\* How a replica comes to have settled a row, and how it loses one.
LEMMA DoneMoves ==
  ASSUME SettlementRows, AnnouncedAfter, [SettlementNext]_settlementVars,
         NEW w \in Workers, NEW r \in Calls, worker'[w].done = r
  PROVE  \/ SettleRow(w, r) /\ worker'[w].step = worker[w].step /\ worker'[w].batch = worker[w].batch
         \/ worker'[w] = worker[w]
<1>t. worker \in [Workers -> WorkerRecord] /\ worker[w] \in WorkerRecord
  BY DEF SettlementRows, RowsOK
<1>c. NoCall # r
  BY SettlementAssumption
<1>1. ASSUME NEW v \in Workers, WorkerStep(v) \/ StopWorker(v), w # v PROVE worker'[w] = worker[w]
  BY <1>1, WorkerTypeOK
<1>2. ASSUME NEW q \in Calls, SettleRow(w, q)
      PROVE  /\ SettleRow(w, r)
             /\ worker'[w].step = worker[w].step /\ worker'[w].batch = worker[w].batch
  <2>1. worker'[w] = [worker[w] EXCEPT !.done = q]
    BY <1>t, <1>2 DEF SettleRow
  <2>2. /\ worker'[w].done = q /\ worker'[w].step = worker[w].step
        /\ worker'[w].batch = worker[w].batch
    BY <1>t, <2>1 DEF WorkerRecord
  <2> QED
    BY <1>2, <2>2
<1>3. worker[w].step \notin Settling \/ worker[w].batch = {} => worker[w].done \notin Calls
  BY DEF AnnouncedAfter, Claimants
<1>4. ASSUME Announce(w) PROVE FALSE
  <2>1. worker'[w] = [worker[w] EXCEPT !.batch = worker[w].batch \ {worker[w].done}, !.done = NoCall]
    BY <1>t, <1>4 DEF Announce
  <2> QED
    BY <1>t, <1>c, <2>1 DEF WorkerRecord
<1>5. ASSUME SubmitAch(w) \/ ClaimAch(w) \/ SkipAch(w) \/ ClaimWires(w) PROVE FALSE
  <2>1. worker[w].step \notin Settling
    BY <1>5 DEF SubmitAch, ClaimAch, SkipAch, ClaimWires, Settling
  <2>2. worker'[w].done = worker[w].done
    <3>1. \/ \E s \in WorkerSteps : worker' = [worker EXCEPT ![w].step = s]
          \/ \E s \in WorkerSteps, b \in SUBSET Calls :
                worker' = [worker EXCEPT ![w] = [worker[w] EXCEPT !.step = s, !.batch = b]]
      BY <1>5 DEF SubmitAch, ClaimAch, SkipAch, ClaimWires, WorkerSteps
    <3>2. ASSUME NEW s, worker' = [worker EXCEPT ![w].step = s]
          PROVE  worker'[w].done = worker[w].done
      BY <1>t, <3>2 DEF WorkerRecord
    <3>3. ASSUME NEW s, NEW b,
                 worker' = [worker EXCEPT ![w] = [worker[w] EXCEPT !.step = s, !.batch = b]]
          PROVE  worker'[w].done = worker[w].done
      <4>1. worker'[w] = [worker[w] EXCEPT !.step = s, !.batch = b]
        BY <1>t, <3>3
      <4> QED
        BY <1>t, <4>1 DEF WorkerRecord
    <3> QED
      BY <3>1, <3>2, <3>3
  <2> QED
    BY <1>3, <2>1, <2>2
<1>6. ASSUME EndBatch(w) \/ TickFails(w) \/ StopWorker(w) PROVE FALSE
  <2>1. CASE worker' = [worker EXCEPT ![w] = Asleep]
    BY <1>t, <1>c, <2>1 DEF Asleep
  <2>2. CASE EndBatch(w) /\ worker[w].step = "settleAch"
    <3>1. worker' = [worker EXCEPT ![w] = [worker[w] EXCEPT !.step = "wires"]] /\ worker[w].batch = {}
      BY <2>2 DEF EndBatch
    <3>2. worker'[w] = [worker[w] EXCEPT !.step = "wires"]
      BY <1>t, <3>1
    <3>3. worker'[w].done = worker[w].done
      BY <1>t, <3>2 DEF WorkerRecord
    <3> QED
      BY <1>3, <3>1, <3>3
  <2>3. CASE EndBatch(w) /\ worker[w].step # "settleAch"
    <3>1. worker' = [worker EXCEPT ![w] = Asleep]
      BY <2>3 DEF EndBatch
    <3> QED
      BY <2>1, <3>1
  <2> QED
    BY <1>6, <2>1, <2>2, <2>3 DEF TickFails, StopWorker
<1>7. CASE UNCHANGED worker
  BY <1>7
<1> QED
  BY <1>1, <1>2, <1>4, <1>5, <1>6, <1>7
     DEF SettlementNext, WorkerStep, TransferStep, Accept, BookTransfer, FindTransfer,
         InsertTransferRow, AbandonCall, Ripen, SwitchRails, OtherLedgerStep,
         settlementVars

\* Announcing counts one, for the row just settled, and takes it from the batch.
LEMMA AnnounceMoves ==
  ASSUME SettlementRows, [SettlementNext]_settlementVars, NEW r \in Calls,
         announced'[r] # announced[r]
  PROVE  \E w \in Workers : /\ worker[w].done = r /\ announced'[r] = announced[r] + 1
                            /\ worker'[w].batch = worker[w].batch \ {r}
                            /\ UNCHANGED row
                            /\ \A v \in Workers : v # w => worker'[v] = worker[v]
<1>t. worker \in [Workers -> WorkerRecord] /\ announced \in [Calls -> Nat]
  BY DEF SettlementRows, RowsOK
<1>1. PICK w \in Workers : Announce(w)
  BY DEF SettlementNext, TransferStep, WorkerStep, Accept, BookTransfer, FindTransfer,
         InsertTransferRow, AbandonCall, Ripen, SubmitAch, ClaimAch, SkipAch, ClaimWires,
         SettleRow, EndBatch, TickFails, StopWorker, SwitchRails, OtherLedgerStep, settlementVars
<1>2. announced' = [announced EXCEPT ![worker[w].done] = announced[worker[w].done] + 1]
  BY <1>1 DEF Announce
<1>3. worker[w].done = r /\ announced'[r] = announced[r] + 1
  BY <1>t, <1>2
<1>4. worker'[w] = [worker[w] EXCEPT !.batch = worker[w].batch \ {r}, !.done = NoCall]
  BY <1>t, <1>1, <1>3 DEF Announce
<1>5. worker'[w].batch = worker[w].batch \ {r}
  BY <1>t, <1>4 DEF WorkerRecord
<1>6. UNCHANGED row /\ \A v \in Workers : v # w => worker'[v] = worker[v]
  BY <1>t, <1>1 DEF Announce
<1> QED
  BY <1>3, <1>5, <1>6

LEMMA AnnouncedAfterStep ==
  ASSUME SettlementRows, AnnouncedAfter, [SettlementNext]_settlementVars
  PROVE  AnnouncedAfter'
<1>t. row \in [Calls -> RowRecord] /\ announced \in [Calls -> Nat]
  BY DEF SettlementRows, RowsOK
<1>1. ASSUME NEW r \in Calls, announced'[r] > 0 PROVE row'[r].status = "settled"
  <2>1. CASE announced'[r] = announced[r]
    BY <1>1, <2>1, SettledStays DEF AnnouncedAfter
  <2>2. CASE announced'[r] # announced[r]
    BY <2>2, AnnounceMoves DEF AnnouncedAfter
  <2> QED
    BY <2>1, <2>2
<1>2. ASSUME NEW w \in Workers, NEW r \in Calls, worker'[w].done = r
      PROVE  /\ row'[r].status = "settled"
             /\ worker'[w].step \in Settling /\ r \in worker'[w].batch
  <2>1. CASE worker'[w] = worker[w]
    <3>1. /\ row[r].status = "settled"
          /\ worker[w].step \in Settling /\ r \in worker[w].batch
      BY <1>2, <2>1 DEF AnnouncedAfter, Claimants
    <3> QED
      BY <2>1, <3>1, SettledStays
  <2>2. CASE /\ SettleRow(w, r)
             /\ worker'[w].step = worker[w].step /\ worker'[w].batch = worker[w].batch
    <3>1. row' = [row EXCEPT ![r].status = "settled"]
          /\ worker[w].step \in Settling /\ r \in worker[w].batch
      BY <2>2 DEF SettleRow
    <3>2. row'[r].status = "settled"
      BY <1>t, <3>1 DEF RowRecord
    <3> QED
      BY <2>2, <3>1, <3>2
  <2> QED
    BY <1>2, <2>1, <2>2, DoneMoves
<1> QED
  BY <1>1, <1>2 DEF AnnouncedAfter, Claimants

LEMMA ClaimsBoundStep ==
  ASSUME IsFiniteSet(Workers), SettlementRows, SettlementRows', AnnouncedAfter, ClaimsBound,
         [SettlementNext]_settlementVars
  PROVE  ClaimsBound'
<1> SUFFICES ASSUME NEW r \in Calls
             PROVE  announced'[r] + Cardinality(Claimants(r)') =< Cardinality(Workers)
  BY DEF ClaimsBound
<1>t. announced[r] \in Nat /\ announced'[r] \in Nat
  BY DEF SettlementRows, RowsOK
<1>f. /\ IsFiniteSet(Claimants(r)) /\ IsFiniteSet(Claimants(r)')
      /\ Cardinality(Claimants(r)) \in Nat /\ Cardinality(Claimants(r)') \in Nat
      /\ Cardinality(Workers) \in Nat
      /\ Cardinality(Claimants(r)') =< Cardinality(Workers)
  <2>1. Claimants(r) \subseteq Workers /\ Claimants(r)' \subseteq Workers
    BY DEF Claimants
  <2> HIDE DEF Claimants
  <2> QED
    BY <2>1, FS_Subset, FS_CardinalityType
<1>b. announced[r] + Cardinality(Claimants(r)) =< Cardinality(Workers)
  BY DEF ClaimsBound
<1>1. CASE announced'[r] = 0
  BY <1>1, <1>f
<1>s. ASSUME row[r].status = "settled" PROVE Claimants(r)' \subseteq Claimants(r)
  BY <1>s, BatchChanges DEF Claimants
<1>2. CASE announced'[r] # 0 /\ announced'[r] = announced[r]
  <2>1. Claimants(r)' \subseteq Claimants(r)
    BY <1>2, <1>s, <1>t DEF AnnouncedAfter
  <2>2. Cardinality(Claimants(r)') =< Cardinality(Claimants(r))
    BY <2>1, <1>f, FS_Subset
  <2> QED
    BY <1>2, <1>b, <1>f, <1>t, <2>2
<1>3. CASE announced'[r] # announced[r]
  <2>1. PICK w \in Workers :
           /\ worker[w].done = r /\ announced'[r] = announced[r] + 1
           /\ worker'[w].batch = worker[w].batch \ {r}
    BY <1>3, AnnounceMoves
  <2>2. w \in Claimants(r) /\ row[r].status = "settled"
    BY <2>1 DEF AnnouncedAfter
  <2>3. Claimants(r)' \subseteq Claimants(r) \ {w}
    BY <2>1, <2>2, <1>s DEF Claimants
  <2>4. Cardinality(Claimants(r) \ {w}) = Cardinality(Claimants(r)) - 1
        /\ IsFiniteSet(Claimants(r) \ {w})
    BY <2>2, <1>f, FS_RemoveElement
  <2>5. Cardinality(Claimants(r)') =< Cardinality(Claimants(r) \ {w})
    BY <2>3, <2>4, FS_Subset
  <2> QED
    BY <1>b, <1>f, <1>t, <2>1, <2>4, <2>5
<1> QED
  BY <1>1, <1>2, <1>3

\* transaction.posted is published at most once by each replica for a row,
\* whatever the interleaving, the stops and the retries.
THEOREM AnnouncedOncePerReplica ==
  ASSUME IsFiniteSet(Workers)
  PROVE  SettlementSpec => [](\A r \in Calls : announced[r] =< Cardinality(Workers))
<1>1. SettlementInit => AnnouncedAfter /\ ClaimsBound
  <2> SUFFICES ASSUME SettlementInit PROVE AnnouncedAfter /\ ClaimsBound
    OBVIOUS
  <2>1. AnnouncedAfter
    BY SettlementAssumption DEF SettlementInit, AnnouncedAfter, Asleep
  <2>2. \A r \in Calls : Claimants(r) = {} /\ announced[r] = 0
    BY DEF SettlementInit, Claimants, Asleep, Settling
  <2>3. Cardinality({}) = 0 /\ Cardinality(Workers) \in Nat
    BY FS_EmptySet, FS_CardinalityType
  <2> QED
    BY <2>1, <2>2, <2>3 DEF ClaimsBound
<1>2. SettlementRows /\ SettlementRows' /\ AnnouncedAfter /\ ClaimsBound
        /\ [SettlementNext]_settlementVars => AnnouncedAfter' /\ ClaimsBound'
  BY AnnouncedAfterStep, ClaimsBoundStep
<1>3. SettlementRows /\ ClaimsBound => \A r \in Calls : announced[r] =< Cardinality(Workers)
  <2> SUFFICES ASSUME SettlementRows, ClaimsBound, NEW r \in Calls
               PROVE  announced[r] =< Cardinality(Workers)
    OBVIOUS
  <2>1. announced[r] \in Nat
    BY DEF SettlementRows, RowsOK
  <2>2. Claimants(r) \subseteq Workers
    BY DEF Claimants
  <2>3. Cardinality(Claimants(r)) \in Nat /\ Cardinality(Workers) \in Nat
    BY <2>2, FS_Subset, FS_CardinalityType
  <2>4. announced[r] + Cardinality(Claimants(r)) =< Cardinality(Workers)
    BY DEF ClaimsBound
  <2> QED
    BY <2>1, <2>3, <2>4
<1> QED
  BY <1>1, <1>2, <1>3, SettlementInvariant, PTL DEF SettlementSpec

\* With a single replica every row is announced at most once: the promise of
\* the worker's comment is broken by the second replica and by nothing else.
THEOREM OneReplicaAnnouncesOnce ==
  ASSUME IsFiniteSet(Workers), Cardinality(Workers) =< 1
  PROVE  SettlementSpec => []AnnouncedOnce
<1>1. SettlementRows /\ (\A r \in Calls : announced[r] =< Cardinality(Workers)) => AnnouncedOnce
  <2>1. Cardinality(Workers) \in Nat
    BY FS_CardinalityType
  <2> QED
    BY <2>1 DEF AnnouncedOnce, SettlementRows, RowsOK
<1> QED
  BY <1>1, AnnouncedOncePerReplica, SettlementInvariant, PTL
=============================================================================
