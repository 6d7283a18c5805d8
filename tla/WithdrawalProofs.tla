--------------------------- MODULE WithdrawalProofs ---------------------------
(***************************************************************************)
(* Proofs about withdrawals, for any calls, keys, accounts and amounts.    *)
(***************************************************************************)
EXTENDS Withdrawals, LedgerProofs, FiniteSetTheorems

CallRecord == [step : CallStep, account : Accounts \cup {NoAccount},
               amount : Amounts \cup {0}, key : ClientKeys \cup {NoKey},
               hold : Txns \cup {NoTxn}]

RequestRecord == [status : RequestStatus \cup {"none"},
                  account : Accounts \cup {NoAccount},
                  amount : Amounts \cup {0}, hold : Txns \cup {NoTxn},
                  disbursement : Txns \cup {NoTxn}]

ApprovalRecord == [step : ApprovalStep, request : Calls \cup {NoCall},
                   txn : Txns \cup {NoTxn}, lost : BOOLEAN]

\* The types of the tables and local variables of the withdrawal handlers.
RowsOK ==
  /\ call \in [Calls -> CallRecord]
  /\ request \in [Calls -> RequestRecord]
  /\ approval \in [AdminCalls -> ApprovalRecord]

\* What a handler knows at each step: a call past its first step carries an
\* account, an amount and a key; a request row carries a hold that exists; an
\* approval at work names a request.
CallsReal ==
  \A c \in Calls :
     /\ call[c].step \in {"checked", "held"} =>
          /\ call[c].account \in Customers
          /\ call[c].amount \in Amounts
          /\ call[c].key \in ClientKeys
     /\ call[c].step = "held" => call[c].hold \in Txns /\ Exists(call[c].hold)

RequestsReal ==
  \A r \in Calls : request[r].status # "none" =>
     /\ request[r].account \in Customers
     /\ request[r].amount \in Amounts
     /\ request[r].hold \in Txns
     /\ Exists(request[r].hold)

ApprovalsReal ==
  \A d \in AdminCalls : approval[d].step \in {"claimed", "paid", "refused"} =>
     /\ approval[d].request \in Calls
     /\ request[approval[d].request].status # "none"

WithdrawalRows ==
  RowsOK /\ CallsReal /\ RequestsReal /\ ApprovalsReal /\ KeysReal

-----------------------------------------------------------------------------
(* Withdrawals use the ledger through its own steps only                   *)

\* The keys the handlers pass to postTransaction are idempotency keys.
LEMMA KeysOfHandlers ==
  ASSUME WithdrawalRows
  PROVE  /\ \A c \in Calls : call[c].step = "checked" => HoldKey(call[c].key) \in Keys
         /\ \A d \in AdminCalls : approval[d].step = "claimed" => KeyOf(d) \in Keys
  BY WithdrawalAssumption
     DEF WithdrawalRows, CallsReal, ApprovalsReal, KeyOf

\* A hold and a payment are postings the ledger accepts.
LEMMA PostingsOfHandlers ==
  ASSUME WithdrawalRows
  PROVE  /\ \A c \in Calls : call[c].step = "checked" => HoldPosting(c) \in Postings
         /\ \A r \in Calls : request[r].status # "none" => Payment(r) \in Postings
  BY WithdrawalAssumption
     DEF WithdrawalRows, CallsReal, RequestsReal, HoldPosting, Payment, Postings, Customers

\* A step of the withdrawal handlers is a step of the ledger or leaves it alone.
LEMMA LedgerStep ==
  ASSUME WithdrawalRows, [WithdrawalNext]_withdrawalVars
  PROVE  [Next]_vars
<1>1. ASSUME NEW c \in Calls, CustomerStep(c)
      PROVE  [Next]_vars
  <2>1. ASSUME NEW t \in Txns, PlaceHold(c, t)
        PROVE  Next
    <3>1. /\ HoldKey(call[c].key) \in Keys
          /\ HoldPosting(c) \in Postings
          /\ PostTransaction(t, HoldKey(call[c].key), HoldPosting(c))
      BY <2>1, KeysOfHandlers, PostingsOfHandlers DEF PlaceHold
    <3>2. QED
      BY <3>1 DEF Next
  <2>2. QED
    BY <1>1, <2>1
       DEF CustomerStep, Submit, FindHold, InsertRequest, AbandonCall, ledgerVars
<1>2. ASSUME NEW d \in AdminCalls, ApprovalStepOf(d)
      PROVE  [Next]_vars
  <2>1. ASSUME NEW r \in Calls, ClaimRequest(d, r)
        PROVE  Next
    <3>1. request[r].hold \in Txns /\ CancelHold(request[r].hold)
      BY <2>1 DEF ClaimRequest, WithdrawalRows, RequestsReal
    <3>2. QED
      BY <3>1 DEF Next
  <2>2. ASSUME NEW t \in Txns, Disburse(d, t) \/ LoseDisbursement(d, t)
        PROVE  Next
    <3>1. /\ approval[d].step = "claimed"
          /\ PostTransaction(t, KeyOf(d), Payment(approval[d].request))
      BY <2>2 DEF Disburse, LoseDisbursement
    <3>2. /\ approval[d].request \in Calls
          /\ request[approval[d].request].status # "none"
      BY <3>1 DEF WithdrawalRows, ApprovalsReal
    <3>3. KeyOf(d) \in Keys /\ Payment(approval[d].request) \in Postings
      BY <3>1, <3>2, KeysOfHandlers, PostingsOfHandlers
    <3>4. QED
      BY <3>1, <3>3 DEF Next
  <2>3. QED
    BY <1>2, <2>1, <2>2
       DEF ApprovalStepOf, FindDisbursement, RefuseDisbursement, RestorePending,
           RecordDisbursed, AbandonApproval, ledgerVars
<1>3. ASSUME NEW r \in Calls, RejectRequest(r)
      PROVE  Next
  <2>1. request[r].hold \in Txns /\ CancelHold(request[r].hold)
    BY <1>3 DEF RejectRequest, WithdrawalRows, RequestsReal
  <2>2. QED
    BY <2>1 DEF Next
<1>4. ASSUME OtherLedgerStep
      PROVE  Next
  BY <1>4 DEF OtherLedgerStep, Customers, Next
<1>5. CASE UNCHANGED withdrawalVars
  BY <1>5 DEF withdrawalVars, vars
<1>6. QED
  BY <1>1, <1>2, <1>3, <1>4, <1>5 DEF WithdrawalNext

-----------------------------------------------------------------------------
(* The rows and local variables of the handlers                            *)

\* What the handlers write into their local variables and into the request
\* rows has its type.
LEMMA CallUpdates ==
  ASSUME RowsOK, NEW c \in Calls
  PROVE  /\ \A t \in Txns : [call[c] EXCEPT !.step = "held", !.hold = t] \in CallRecord
         /\ [call[c] EXCEPT !.step = "done"] \in CallRecord
<1>1. call[c] \in CallRecord
  BY DEF RowsOK
<1>2. QED
  BY <1>1 DEF CallRecord, CallStep

\* The same for the request rows.
LEMMA RequestUpdates ==
  ASSUME RowsOK, NEW r \in Calls, NEW x \in Txns \cup {NoTxn}
  PROVE  /\ \A st \in RequestStatus : [request[r] EXCEPT !.status = st] \in RequestRecord
         /\ [request[r] EXCEPT !.status = "disbursed", !.disbursement = x] \in RequestRecord
<1>1. request[r] \in RequestRecord
  BY DEF RowsOK
<1>2. QED
  BY <1>1 DEF RequestRecord, RequestStatus

\* The same for the approvals.
LEMMA ApprovalUpdates ==
  ASSUME RowsOK, NEW d \in AdminCalls, NEW r \in Calls, NEW t \in Txns
  PROVE  /\ [approval[d] EXCEPT !.step = "claimed", !.request = r] \in ApprovalRecord
         /\ [approval[d] EXCEPT !.step = "paid", !.txn = t] \in ApprovalRecord
         /\ [approval[d] EXCEPT !.step = "refused", !.lost = TRUE] \in ApprovalRecord
<1>1. approval[d] \in ApprovalRecord
  BY DEF RowsOK
<1>2. QED
  BY <1>1 DEF ApprovalRecord, ApprovalStep

\* The same for the approvals that end or fail.
LEMMA ApprovalEnds ==
  ASSUME RowsOK, NEW d \in AdminCalls
  PROVE  /\ [approval[d] EXCEPT !.step = "refused"] \in ApprovalRecord
         /\ [approval[d] EXCEPT !.step = "done"] \in ApprovalRecord
<1>1. approval[d] \in ApprovalRecord
  BY DEF RowsOK
<1>2. QED
  BY <1>1 DEF ApprovalRecord, ApprovalStep

\* A step of a customer's call keeps what the handlers know.
LEMMA CustomerRows ==
  ASSUME LedgerInv, WithdrawalRows, NEW c \in Calls, CustomerStep(c),
         \A t \in Txns : Exists(t) => Exists(t)'
  PROVE  (RowsOK /\ CallsReal /\ RequestsReal /\ ApprovalsReal)'
<1> USE DEF WithdrawalRows, RowsOK
<1>1. ASSUME NEW a \in Customers, NEW n \in Amounts, NEW k \in ClientKeys,
             Submit(c, a, n, k)
      PROVE  (RowsOK /\ CallsReal /\ RequestsReal /\ ApprovalsReal)'
  BY <1>1 DEF Submit, ledgerVars, vars, CallsReal, RequestsReal, ApprovalsReal,
              Customers, Exists, CallRecord, CallStep
<1>2. ASSUME NEW t \in Txns, PlaceHold(c, t) \/ FindHold(c, t)
      PROVE  (RowsOK /\ CallsReal /\ RequestsReal /\ ApprovalsReal)'
  <2>1. Exists(t)'
    <3>1. CASE PlaceHold(c, t)
      BY <3>1 DEF PlaceHold, PostTransaction, WriteTransaction, HoldPosting, Exists, LedgerInv, TypeOK
    <3>2. CASE FindHold(c, t)
      <4>1. idempotencyKey[t] \in Keys
        BY <3>2, KeysOfHandlers DEF FindHold
      <4>2. Exists(t)
        BY <4>1, LedgerAssumption DEF KeysReal
      <4>3. QED
        BY <4>2
    <3>3. QED
      BY <1>2, <3>1, <3>2
  <2>2. /\ call' = [call EXCEPT ![c].step = "held", ![c].hold = t]
        /\ call[c].step = "checked"
        /\ UNCHANGED <<request, approval>>
    BY <1>2 DEF PlaceHold, FindHold
  <2>3. RowsOK'
    BY <2>2, CallUpdates
  <2>4. CallsReal'
    BY <2>1, <2>2 DEF CallsReal, Exists
  <2>5. RequestsReal' /\ ApprovalsReal'
    BY <2>2 DEF RequestsReal, ApprovalsReal
  <2>6. QED
    BY <2>3, <2>4, <2>5
<1>3. CASE InsertRequest(c)
  <2>1. RowsOK'
    BY <1>3, CallUpdates DEF InsertRequest, CallsReal, RequestRecord, RequestStatus,
                             Customers
  <2>2. CallsReal' /\ RequestsReal' /\ ApprovalsReal'
    BY <1>3 DEF InsertRequest, CallsReal, RequestsReal, ApprovalsReal
  <2>3. QED
    BY <2>1, <2>2
<1>4. CASE AbandonCall(c)
  <2>1. RowsOK'
    BY <1>4, CallUpdates DEF AbandonCall
  <2>2. RequestsReal' /\ ApprovalsReal'
    BY <1>4 DEF AbandonCall, RequestsReal, ApprovalsReal, Exists, ledgerVars, vars
  <2>3. CallsReal'
    BY <1>4 DEF AbandonCall, CallsReal, Exists, ledgerVars, vars
  <2>4. QED
    BY <2>1, <2>2, <2>3
<1>5. QED
  BY <1>1, <1>2, <1>3, <1>4 DEF CustomerStep

\* So does a step of an approval.
LEMMA ApprovalRows ==
  ASSUME LedgerInv, WithdrawalRows, NEW d \in AdminCalls, ApprovalStepOf(d),
         \A t \in Txns : Exists(t) => Exists(t)'
  PROVE  (RowsOK /\ CallsReal /\ RequestsReal /\ ApprovalsReal)'
<1> USE DEF WithdrawalRows, Exists
<1>1. UNCHANGED call
  BY DEF ApprovalStepOf, ClaimRequest, Disburse, FindDisbursement, LoseDisbursement,
         RefuseDisbursement, RestorePending, RecordDisbursed, AbandonApproval
<1>2. RowsOK'
  <2> USE <1>1 DEF RowsOK
  <2>1. approval[d] \in ApprovalRecord
    OBVIOUS
  <2>2. ASSUME NEW r \in Calls, ClaimRequest(d, r)
        PROVE  RowsOK'
    <3>1. [approval[d] EXCEPT !.step = "claimed", !.request = r] \in ApprovalRecord
      BY <2>2, ApprovalUpdates DEF ClaimRequest, RequestsReal
    <3>2. "approved" \in RequestStatus
      BY DEF RequestStatus
    <3>3. [request[r] EXCEPT !.status = "approved"] \in RequestRecord
      BY <3>2, RequestUpdates
    <3>4. QED
      BY <2>2, <3>1, <3>3 DEF ClaimRequest
  <2>3. ASSUME NEW t \in Txns,
               Disburse(d, t) \/ FindDisbursement(d, t) \/ LoseDisbursement(d, t)
        PROVE  RowsOK'
    <3>1. /\ [approval[d] EXCEPT !.step = "paid", !.txn = t] \in ApprovalRecord
          /\ [approval[d] EXCEPT !.step = "refused", !.lost = TRUE] \in ApprovalRecord
      <4>1. approval[d].request \in Calls
        BY <2>3 DEF Disburse, FindDisbursement, LoseDisbursement, ApprovalsReal
      <4>2. QED
        BY <4>1, ApprovalUpdates
    <3>2. QED
      BY <2>3, <3>1 DEF Disburse, FindDisbursement, LoseDisbursement
  <2>4. ASSUME RestorePending(d) \/ RecordDisbursed(d)
        PROVE  RowsOK'
    <3>1. approval[d].request \in Calls /\ approval[d].txn \in Txns \cup {NoTxn}
      BY <2>1, <2>4 DEF RestorePending, RecordDisbursed, ApprovalsReal, ApprovalRecord
    <3>2. /\ [request[approval[d].request] EXCEPT !.status = "pending"] \in RequestRecord
          /\ [request[approval[d].request] EXCEPT
                !.status = "disbursed", !.disbursement = approval[d].txn] \in RequestRecord
      <4>1. "pending" \in RequestStatus
        BY DEF RequestStatus
      <4>2. QED
        BY <3>1, <4>1, RequestUpdates
    <3>3. [approval[d] EXCEPT !.step = "done"] \in ApprovalRecord
      BY ApprovalEnds
    <3>4. QED
      BY <2>4, <3>2, <3>3 DEF RestorePending, RecordDisbursed
  <2>5. ASSUME RefuseDisbursement(d) \/ AbandonApproval(d)
        PROVE  RowsOK'
    <3>1. /\ [approval[d] EXCEPT !.step = "refused"] \in ApprovalRecord
          /\ [approval[d] EXCEPT !.step = "done"] \in ApprovalRecord
      BY ApprovalEnds
    <3>2. QED
      BY <2>5, <3>1 DEF RefuseDisbursement, AbandonApproval
  <2>6. QED
    BY <2>2, <2>3, <2>4, <2>5 DEF ApprovalStepOf
<1>3. CallsReal'
  BY <1>1 DEF CallsReal
<1>4. \A r \in Calls :
         request[r].status # "none" =>
            /\ request'[r].status # "none"
            /\ request'[r].account = request[r].account
            /\ request'[r].amount = request[r].amount
            /\ request'[r].hold = request[r].hold
  <2>1. ASSUME NEW q \in Calls, NEW r \in Calls, NEW st \in {"approved", "pending"},
               request' = [request EXCEPT ![q].status = st], request[r].status # "none"
        PROVE  /\ request'[r].status # "none"
               /\ request'[r].account = request[r].account
               /\ request'[r].amount = request[r].amount
               /\ request'[r].hold = request[r].hold
    BY <2>1 DEF RowsOK, RequestRecord
  <2>2. ASSUME RecordDisbursed(d), NEW r \in Calls, request[r].status # "none"
        PROVE  /\ request'[r].status # "none"
               /\ request'[r].account = request[r].account
               /\ request'[r].amount = request[r].amount
               /\ request'[r].hold = request[r].hold
    BY <2>2 DEF RecordDisbursed, RowsOK, RequestRecord
  <2>3. RestorePending(d) => approval[d].request \in Calls
    BY DEF RestorePending, ApprovalsReal
  <2>4. QED
    BY <2>1, <2>2, <2>3
       DEF ApprovalStepOf, ClaimRequest, Disburse, FindDisbursement, LoseDisbursement,
           RefuseDisbursement, RestorePending, AbandonApproval
<1>5. \A r \in Calls : request'[r].status # "none" => request[r].status # "none"
  BY DEF RowsOK, RequestRecord, ApprovalStepOf, ClaimRequest, Disburse, FindDisbursement,
         LoseDisbursement, RefuseDisbursement, RestorePending, RecordDisbursed,
         AbandonApproval, ApprovalsReal
<1>6. RequestsReal'
  BY <1>4, <1>5 DEF RequestsReal
<1>7. \A e \in AdminCalls :
         approval'[e].step \in {"claimed", "paid", "refused"} =>
            /\ approval'[e].request \in Calls
            /\ request[approval'[e].request].status # "none"
  BY DEF RowsOK, ApprovalRecord, ApprovalStepOf, ClaimRequest, Disburse, FindDisbursement,
         LoseDisbursement, RefuseDisbursement, RestorePending, RecordDisbursed,
         AbandonApproval, ApprovalsReal
<1>8. ApprovalsReal'
  BY <1>4, <1>7 DEF ApprovalsReal
<1>9. QED
  BY <1>2, <1>3, <1>6, <1>8

\* Every step keeps what the handlers know.
LEMMA RowsStep ==
  LedgerInv /\ WithdrawalRows /\ [WithdrawalNext]_withdrawalVars => WithdrawalRows'
<1> SUFFICES ASSUME LedgerInv, WithdrawalRows, [WithdrawalNext]_withdrawalVars
             PROVE  WithdrawalRows'
  OBVIOUS
<1>1. [Next]_vars
  BY LedgerStep
<1>2. (\A t \in Txns : Exists(t) => Exists(t)') /\ KeysReal'
  BY <1>1, ExistsKept DEF WithdrawalRows
<1>3. (RowsOK /\ CallsReal /\ RequestsReal /\ ApprovalsReal)'
  <2>1. ASSUME NEW c \in Calls, CustomerStep(c)
        PROVE  (RowsOK /\ CallsReal /\ RequestsReal /\ ApprovalsReal)'
    BY <1>2, <2>1, CustomerRows
  <2>2. ASSUME NEW d \in AdminCalls, ApprovalStepOf(d)
        PROVE  (RowsOK /\ CallsReal /\ RequestsReal /\ ApprovalsReal)'
    BY <1>2, <2>2, ApprovalRows
  <2>3. ASSUME NEW r \in Calls, RejectRequest(r)
        PROVE  (RowsOK /\ CallsReal /\ RequestsReal /\ ApprovalsReal)'
    BY <1>2, <2>3 DEF RejectRequest, WithdrawalRows, RowsOK, RequestRecord, RequestStatus,
                      CallsReal, RequestsReal, ApprovalsReal
  <2>4. ASSUME UNCHANGED <<call, request, approval>>
        PROVE  (RowsOK /\ CallsReal /\ RequestsReal /\ ApprovalsReal)'
    BY <1>2, <2>4 DEF WithdrawalRows, RowsOK, CallsReal, RequestsReal, ApprovalsReal
  <2>5. QED
    BY <2>1, <2>2, <2>3, <2>4 DEF WithdrawalNext, OtherLedgerStep, withdrawalVars
<1>4. QED
  BY <1>2, <1>3 DEF WithdrawalRows

\* Nothing has been asked for at the start.
LEMMA RowsInit == WithdrawalInit => WithdrawalRows
  BY DEF WithdrawalInit, Init, WithdrawalRows, RowsOK, CallRecord, RequestRecord,
         ApprovalRecord, CallStep, RequestStatus, ApprovalStep, NoRequest, CallsReal,
         RequestsReal, ApprovalsReal, KeysReal

\* The invariant of the ledger and the handlers' rows, together.
THEOREM WithdrawalInvariant == WithdrawalSpec => [](LedgerInv /\ WithdrawalRows)
<1>1. WithdrawalInit => LedgerInv /\ WithdrawalRows
  BY InvInit, RowsInit DEF WithdrawalInit
<1>2. LedgerInv /\ WithdrawalRows /\ [WithdrawalNext]_withdrawalVars
        => LedgerInv' /\ WithdrawalRows'
  BY LedgerStep, InvStep, RowsStep
<1>3. QED
  BY <1>1, <1>2, PTL DEF WithdrawalSpec

\* The type invariant of the withdrawals.
THEOREM WithdrawalTypeCorrect == WithdrawalSpec => []WithdrawalTypeOK
<1>1. LedgerInv /\ WithdrawalRows => WithdrawalTypeOK
  BY DEF LedgerInv, WithdrawalRows, RowsOK, CallRecord, RequestRecord, ApprovalRecord,
         WithdrawalTypeOK
<1>2. QED
  BY <1>1, WithdrawalInvariant, PTL

\* Whatever customers and administrators do through these handlers, the ledger
\* goes through steps of its own specification only.
THEOREM WithdrawalsImplementLedger == WithdrawalSpec => ImplementsLedger
<1>1. WithdrawalInit => Init
  BY DEF WithdrawalInit
<1>2. LedgerInv /\ WithdrawalRows /\ [WithdrawalNext]_withdrawalVars => [Next]_vars
  BY LedgerStep
<1>3. QED
  BY <1>1, <1>2, WithdrawalInvariant, PTL DEF WithdrawalSpec, ImplementsLedger, Spec

\* In particular no withdrawal, disbursement or lost answer overdraws an account.
THEOREM WithdrawalsNeverOverdraw == WithdrawalSpec => []NoOverdraft
  BY WithdrawalsImplementLedger, NeverOverdrawn, PTL DEF ImplementsLedger

-----------------------------------------------------------------------------
(* Decisions                                                               *)

Active(d) == approval[d].step \in {"claimed", "paid", "refused"}

\* An approval at work is the only one at work on its request, and the request
\* reads 'approved' meanwhile: the claim checked 'pending' under the row lock.
\* A call that has not ended has not inserted its row.
Claims ==
  /\ \A d \in AdminCalls : Active(d) =>
        /\ request[approval[d].request].status = "approved"
        /\ \A e \in AdminCalls :
              Active(e) /\ approval[e].request = approval[d].request => e = d
  /\ \A c \in Calls : call[c].step # "done" => request[c].status = "none"

\* What one commit does to the request rows.
LEMMA RequestStep ==
  ASSUME WithdrawalRows, Claims, [WithdrawalNext]_withdrawalVars
  PROVE  \/ UNCHANGED request
         \/ \E c \in Calls : InsertRequest(c)
         \/ \E d \in AdminCalls, r \in Calls : ClaimRequest(d, r)
         \/ \E d \in AdminCalls : RestorePending(d)
         \/ \E d \in AdminCalls : RecordDisbursed(d)
         \/ \E r \in Calls : RejectRequest(r)
  BY DEF WithdrawalNext, CustomerStep, ApprovalStepOf, OtherLedgerStep, withdrawalVars,
         Submit, PlaceHold, FindHold, AbandonCall, Disburse, FindDisbursement,
         LoseDisbursement, RefuseDisbursement, AbandonApproval

\* A claim stays exclusive.
LEMMA ClaimsStep ==
  ASSUME WithdrawalRows, Claims, [WithdrawalNext]_withdrawalVars
  PROVE  Claims'
<1> USE DEF WithdrawalRows, RowsOK
<1>1. ASSUME NEW c \in Calls, CustomerStep(c)
      PROVE  Claims'
  <2>1. ASSUME NEW a \in Customers, NEW n \in Amounts, NEW k \in ClientKeys,
               Submit(c, a, n, k)
        PROVE  Claims'
    BY <2>1 DEF Submit, Claims, Active
  <2>2. ASSUME NEW t \in Txns, PlaceHold(c, t) \/ FindHold(c, t)
        PROVE  Claims'
    BY <2>2 DEF PlaceHold, FindHold, Claims, Active, CallRecord
  <2>3. CASE InsertRequest(c)
    <3>1. request[c].status = "none"
      BY <2>3 DEF InsertRequest, Claims
    <3>2. \A d \in AdminCalls : Active(d) => approval[d].request # c
      BY <3>1 DEF Claims
    <3>3. QED
      BY <2>3, <3>2 DEF InsertRequest, Claims, Active, ApprovalsReal, CallRecord
  <2>4. CASE AbandonCall(c)
    BY <2>4 DEF AbandonCall, Claims, Active, CallRecord
  <2>5. QED
    BY <1>1, <2>1, <2>2, <2>3, <2>4 DEF CustomerStep
<1>2. ASSUME NEW d \in AdminCalls, ApprovalStepOf(d)
      PROVE  Claims'
  <2> USE DEF Claims, Active, ApprovalsReal, ApprovalRecord, RequestRecord
  <2>1. ASSUME NEW r \in Calls, ClaimRequest(d, r)
        PROVE  Claims'
    BY <2>1 DEF ClaimRequest
  <2>2. ASSUME NEW t \in Txns,
               Disburse(d, t) \/ FindDisbursement(d, t) \/ LoseDisbursement(d, t)
        PROVE  Claims'
    <3>1. Active(d) /\ UNCHANGED <<call, request>>
      BY <2>2 DEF Disburse, FindDisbursement, LoseDisbursement
    <3>2. approval[d] \in ApprovalRecord
      BY DEF RowsOK
    <3>3. \/ approval' = [approval EXCEPT ![d] = [@ EXCEPT !.step = "paid", !.txn = t]]
          \/ approval' = [approval EXCEPT ![d] = [@ EXCEPT !.step = "refused", !.lost = TRUE]]
      BY <2>2 DEF Disburse, FindDisbursement, LoseDisbursement
    <3>4. approval'[d].request = approval[d].request
      <4>1. \/ approval'[d] = [approval[d] EXCEPT !.step = "paid", !.txn = t]
            \/ approval'[d] = [approval[d] EXCEPT !.step = "refused", !.lost = TRUE]
        BY <3>3
      <4>2. [approval[d] EXCEPT !.step = "paid", !.txn = t].request = approval[d].request
        BY <3>2
      <4>3. [approval[d] EXCEPT !.step = "refused", !.lost = TRUE].request = approval[d].request
        BY <3>2
      <4>4. QED
        BY <4>1, <4>2, <4>3
    <3>5. \A e \in AdminCalls : e # d => approval'[e] = approval[e]
      BY <3>3
    <3>6. QED
      BY <3>1, <3>4, <3>5
  <2>3. CASE RestorePending(d)
    BY <2>3 DEF RestorePending
  <2>4. CASE RecordDisbursed(d)
    <3>1. approval[d].request \in Calls /\ Active(d)
      BY <2>4 DEF RecordDisbursed
    <3>2. \A e \in AdminCalls :
             approval'[e].step \in {"claimed", "paid", "refused"} =>
                e # d /\ approval'[e] = approval[e]
      BY <2>4 DEF RecordDisbursed
    <3>3. \A r \in Calls : r # approval[d].request => request'[r] = request[r]
      BY <2>4 DEF RecordDisbursed
    <3>4. request'[approval[d].request].status = "disbursed"
      BY <2>4, <3>1 DEF RecordDisbursed
    <3>5. \A c \in Calls : call[c].step # "done" => c # approval[d].request
      BY <3>1
    <3>6. UNCHANGED call
      BY <2>4 DEF RecordDisbursed
    <3>7. QED
      BY <3>1, <3>2, <3>3, <3>5, <3>6
  <2>5. ASSUME RefuseDisbursement(d) \/ AbandonApproval(d)
        PROVE  Claims'
    BY <2>5 DEF RefuseDisbursement, AbandonApproval
  <2>6. QED
    BY <1>2, <2>1, <2>2, <2>3, <2>4, <2>5 DEF ApprovalStepOf
<1>3. ASSUME NEW r \in Calls, RejectRequest(r)
      PROVE  Claims'
  BY <1>3 DEF RejectRequest, Claims, Active, ApprovalsReal, RequestRecord
<1>4. ASSUME UNCHANGED <<call, request, approval>>
      PROVE  Claims'
  BY <1>4 DEF Claims, Active
<1>5. QED
  BY <1>1, <1>2, <1>3, <1>4 DEF WithdrawalNext, OtherLedgerStep, withdrawalVars

\* Claims are exclusive throughout.
LEMMA ClaimsHold == WithdrawalSpec => []Claims
<1>1. WithdrawalInit => Claims
  BY DEF WithdrawalInit, Claims, Active, NoRequest
<1>2. QED
  BY <1>1, ClaimsStep, WithdrawalInvariant, PTL DEF WithdrawalSpec

\* 'rejected' and 'disbursed' are final: the two updates that write the status
\* without reading it only ever meet a request that reads 'approved'.
THEOREM DecisionsAreFinal == WithdrawalSpec => DecisionsFinal
<1>1. ASSUME WithdrawalRows, Claims, [WithdrawalNext]_withdrawalVars, NEW r \in Calls,
             request[r].status \in {"rejected", "disbursed"}
      PROVE  request'[r] = request[r]
  <2>1. ASSUME NEW c \in Calls, InsertRequest(c)
        PROVE  request'[r] = request[r]
    <3>1. request[c].status = "none"
      BY <1>1, <2>1 DEF InsertRequest, Claims
    <3>2. r # c
      BY <1>1, <3>1
    <3>3. QED
      BY <1>1, <2>1, <3>2 DEF InsertRequest, WithdrawalRows, RowsOK
  <2>2. ASSUME NEW d \in AdminCalls, NEW q \in Calls, ClaimRequest(d, q)
        PROVE  request'[r] = request[r]
    BY <1>1, <2>2 DEF ClaimRequest, WithdrawalRows, RowsOK
  <2>3. ASSUME NEW d \in AdminCalls, RestorePending(d) \/ RecordDisbursed(d)
        PROVE  request'[r] = request[r]
    <3>1. request[approval[d].request].status = "approved"
      BY <1>1, <2>3 DEF RestorePending, RecordDisbursed, Claims, Active
    <3>2. r # approval[d].request
      BY <1>1, <3>1
    <3>3. CASE RestorePending(d)
      BY <3>2, <3>3, <1>1 DEF RestorePending, WithdrawalRows, RowsOK
    <3>4. CASE RecordDisbursed(d)
      BY <3>2, <3>4, <1>1 DEF RecordDisbursed, WithdrawalRows, RowsOK
    <3>5. QED
      BY <2>3, <3>3, <3>4
  <2>4. ASSUME NEW q \in Calls, RejectRequest(q)
        PROVE  request'[r] = request[r]
    BY <1>1, <2>4 DEF RejectRequest, WithdrawalRows, RowsOK
  <2>5. QED
    BY <1>1, <2>1, <2>2, <2>3, <2>4, RequestStep
<1>2. WithdrawalRows /\ Claims /\ [WithdrawalNext]_withdrawalVars
        => [\A r \in Calls : request[r].status \in {"rejected", "disbursed"} =>
                request'[r] = request[r]]_withdrawalVars
  BY <1>1
<1>3. QED
  BY <1>2, ClaimsHold, WithdrawalInvariant, PTL DEF WithdrawalSpec, DecisionsFinal

\* Cancelling a hold leaves nothing pending of it.
LEMMA CancelledIsReleased ==
  ASSUME LedgerInv, NEW t \in Txns, CancelHold(t), NEW side \in Sides
  PROVE  entries'[t][side].status # "pending"
<1>1. entries'[t][side] = Flipped(entries[t][side], "released")
  BY DEF CancelHold, Flip, LedgerInv, TypeOK
<1>2. QED
  BY <1>1 DEF Flipped

\* A decided request holds no money.
THEOREM DecidedRequestsHoldNothing == WithdrawalSpec => []DecidedHoldsNothing
<1> DEFINE Decided(s) == s \in {"approved", "rejected", "disbursed"}
<1>1. WithdrawalInit => DecidedHoldsNothing
  BY DEF WithdrawalInit, DecidedHoldsNothing, NoRequest
<1>2. ASSUME LedgerInv, WithdrawalRows, Claims, DecidedHoldsNothing,
             [WithdrawalNext]_withdrawalVars
      PROVE  DecidedHoldsNothing'
  <2> SUFFICES ASSUME NEW r \in Calls, Decided(request'[r].status), NEW side \in Sides
               PROVE  entries'[request'[r].hold][side].status # "pending"
    BY DEF DecidedHoldsNothing
  <2>1. CASE request'[r].hold = request[r].hold /\ Decided(request[r].status)
    <3>1. request[r].hold \in Txns /\ Exists(request[r].hold)
      BY <1>2, <2>1 DEF WithdrawalRows, RequestsReal
    <3>2. entries[request[r].hold][side].status # "pending"
      BY <1>2, <2>1 DEF DecidedHoldsNothing
    <3>3. QED
      BY <1>2, <2>1, <3>1, <3>2, LedgerStep, NeverPendingAgain
  <2>2. CASE /\ request'[r].hold = request[r].hold
             /\ request[r].hold \in Txns
             /\ CancelHold(request[r].hold)
    BY <1>2, <2>2, CancelledIsReleased
  <2>3. ASSUME NEW c \in Calls, InsertRequest(c)
        PROVE  request'[r] = request[r]
    BY <1>2, <2>3 DEF InsertRequest, WithdrawalRows, RowsOK
  <2>4. ASSUME NEW d \in AdminCalls, NEW q \in Calls, ClaimRequest(d, q)
        PROVE  \/ request'[r] = request[r]
               \/ /\ request'[r].hold = request[r].hold
                  /\ request[r].hold \in Txns
                  /\ CancelHold(request[r].hold)
    BY <1>2, <2>4 DEF ClaimRequest, WithdrawalRows, RowsOK, RequestsReal, RequestRecord
  <2>5. ASSUME NEW q \in Calls, RejectRequest(q)
        PROVE  \/ request'[r] = request[r]
               \/ /\ request'[r].hold = request[r].hold
                  /\ request[r].hold \in Txns
                  /\ CancelHold(request[r].hold)
    BY <1>2, <2>5 DEF RejectRequest, WithdrawalRows, RowsOK, RequestsReal, RequestRecord
  <2>6. ASSUME NEW d \in AdminCalls, RestorePending(d)
        PROVE  request'[r] = request[r]
    <3>1. approval[d].request \in Calls
      BY <1>2, <2>6 DEF RestorePending, WithdrawalRows, ApprovalsReal
    <3>2. QED
      BY <1>2, <2>6, <3>1 DEF RestorePending, WithdrawalRows, RowsOK, RequestRecord
  <2>7. ASSUME NEW d \in AdminCalls, RecordDisbursed(d)
        PROVE  request'[r].hold = request[r].hold /\ Decided(request[r].status)
    <3>1. /\ approval[d].request \in Calls
          /\ request[approval[d].request].status = "approved"
      BY <1>2, <2>7 DEF RecordDisbursed, WithdrawalRows, ApprovalsReal, Claims, Active
    <3>2. CASE r = approval[d].request
      <4>1. request[r] \in RequestRecord
        BY <1>2 DEF WithdrawalRows, RowsOK
      <4>2. request'[r] = [request[r] EXCEPT !.status = "disbursed",
                                             !.disbursement = approval[d].txn]
        BY <1>2, <2>7, <3>2 DEF RecordDisbursed, WithdrawalRows, RowsOK
      <4>3. QED
        BY <3>1, <3>2, <4>1, <4>2 DEF RequestRecord
    <3>3. CASE r # approval[d].request
      <4>1. request'[r] = request[r]
        BY <1>2, <2>7, <3>3 DEF RecordDisbursed, WithdrawalRows, RowsOK
      <4>2. QED
        BY <4>1
    <3>4. QED
      BY <3>2, <3>3
  <2>8. CASE UNCHANGED request
    BY <2>1, <2>8
  <2>9. QED
    BY <1>2, <2>1, <2>2, <2>3, <2>4, <2>5, <2>6, <2>7, <2>8, RequestStep
<1>3. QED
  BY <1>1, <1>2, ClaimsHold, WithdrawalInvariant, PTL DEF WithdrawalSpec

-----------------------------------------------------------------------------
(* Payments                                                                *)

\* A key belongs to one transaction, and the keys of approvals are used by
\* approvals only.
KeysOwned ==
  /\ \A t, u \in Txns : idempotencyKey[t] = idempotencyKey[u] /\ idempotencyKey[t] # NoKey => t = u
  /\ \A t \in Txns :
        /\ \A r \in Calls : idempotencyKey[t] = ApproveKey(r) => request[r].status # "none"
        /\ \A d \in AdminCalls : idempotencyKey[t] = ClickKey(d) =>
              d \in SendsKey /\ approval[d].step # "idle"

\* An approval names its request for good; one that has paid, the payment.
ApprovalsKnow ==
  \A d \in AdminCalls :
     /\ approval[d].step = "idle" => approval[d].request = NoCall /\ ~approval[d].lost
     /\ approval[d].step # "idle" =>
           approval[d].request \in Calls /\ request[approval[d].request].status # "none"
     /\ \A r \in Calls : approval[d].step = "paid" /\ approval[d].request = r =>
           approval[d].txn \in Disbursements(r)

Moved(r, t) ==
  entries[t]["debit"] =
    [account |-> request[r].account, amount |-> request[r].amount, status |-> "posted"]

PaymentsReal ==
  \A r \in Calls :
     /\ \A t \in Disbursements(r) : Moved(r, t)
     /\ request[r].status = "disbursed" => request[r].disbursement \in Disbursements(r)

Lost(r) == \E d \in AdminCalls : approval[d].request = r /\ approval[d].lost

\* Unless an answer was lost, a request that has been paid never goes back to
\* 'pending': the approval that paid it is the one that had claimed it.
PaidIsTaken ==
  \A r \in Calls : ~Lost(r) =>
     /\ \A t, u \in Disbursements(r) : t = u
     /\ Disbursements(r) # {} =>
           /\ request[r].status \in {"approved", "disbursed"}
           /\ \A d \in AdminCalls : Active(d) /\ approval[d].request = r => approval[d].step = "paid"

PaymentInv == KeysOwned /\ ApprovalsKnow /\ PaymentsReal /\ PaidIsTaken

Pays(d, t) == Disburse(d, t) \/ LoseDisbursement(d, t)

\* The three kinds of keys are apart, and each names its owner.
LEMMA KeysApart ==
  /\ \A k, r : HoldKey(k) # ApproveKey(r)
  /\ \A k, d : HoldKey(k) # ClickKey(d)
  /\ \A r, d : ApproveKey(r) # ClickKey(d)
  /\ \A q, r : ApproveKey(q) = ApproveKey(r) => q = r
  /\ \A d, e : ClickKey(d) = ClickKey(e) => d = e
  BY DEF HoldKey, ApproveKey, ClickKey

LEMMA NoKeyIsNone ==
  /\ \A r \in Calls : ApproveKey(r) # NoKey
  /\ \A d \in AdminCalls : ClickKey(d) # NoKey
  BY LedgerAssumption, WithdrawalAssumption

\* A key stays with its transaction; a new one belongs to a hold or a payment.
LEMMA KeyStep ==
  ASSUME LedgerInv, WithdrawalRows, [WithdrawalNext]_withdrawalVars
  PROVE  \/ UNCHANGED idempotencyKey
         \/ \E t \in Txns :
              /\ \/ \E c \in Calls : PlaceHold(c, t) /\ idempotencyKey'[t] = HoldKey(call[c].key)
                 \/ \E d \in AdminCalls : Pays(d, t) /\ idempotencyKey'[t] = KeyOf(d)
              /\ idempotencyKey[t] = NoKey
              /\ \A u \in Txns : u # t => idempotencyKey'[u] = idempotencyKey[u]
              /\ \A u \in Txns : idempotencyKey[u] # idempotencyKey'[t]
<1>1. ASSUME NEW t \in Txns, NEW k, NEW q, PostTransaction(t, k, q)
      PROVE  /\ idempotencyKey'[t] = k /\ idempotencyKey[t] = NoKey
             /\ \A u \in Txns : u # t => idempotencyKey'[u] = idempotencyKey[u]
             /\ \A u \in Txns : idempotencyKey[u] # k
  BY <1>1 DEF PostTransaction, WriteTransaction, KeyUsed, LedgerInv, TypeOK, WithdrawalRows, KeysReal
<1>2. ASSUME NEW c \in Calls, NEW t \in Txns, PlaceHold(c, t)
      PROVE  PostTransaction(t, HoldKey(call[c].key), HoldPosting(c))
  BY <1>2 DEF PlaceHold
<1>3. ASSUME NEW d \in AdminCalls, NEW t \in Txns, Pays(d, t)
      PROVE  PostTransaction(t, KeyOf(d), Payment(approval[d].request))
  BY <1>3 DEF Pays, Disburse, LoseDisbursement
<1>4. \/ UNCHANGED idempotencyKey
      \/ \E c \in Calls, t \in Txns : PlaceHold(c, t)
      \/ \E d \in AdminCalls, t \in Txns : Pays(d, t)
  BY DEF WithdrawalNext, CustomerStep, ApprovalStepOf, OtherLedgerStep, withdrawalVars, vars,
         ledgerVars, Submit, FindHold, InsertRequest, AbandonCall, ClaimRequest, FindDisbursement,
         RefuseDisbursement, RestorePending, RecordDisbursed, AbandonApproval, RejectRequest,
         CancelHold, ReleaseTransaction, PostPending, FlagTransaction, FreezeAccounts,
         UnfreezeAccounts, SetAccountStatus, Pays
<1> QED
  BY <1>1, <1>2, <1>3, <1>4

\* What one commit does to one approval.
LEMMA ApprovalMoves ==
  ASSUME WithdrawalRows, [WithdrawalNext]_withdrawalVars, NEW d \in AdminCalls
  PROVE  \/ approval'[d] = approval[d]
         \/ /\ approval[d].step = "idle" /\ approval'[d].step = "claimed"
            /\ approval'[d].lost = approval[d].lost /\ approval'[d].request \in Calls
            /\ request[approval'[d].request].status = "pending"
         \/ /\ approval[d].step = "claimed" /\ approval'[d].request = approval[d].request
            /\ \/ /\ approval'[d].step = "paid" /\ approval'[d].lost = approval[d].lost
                  /\ approval'[d].txn \in Txns
                  /\ Disburse(d, approval'[d].txn) \/ FindDisbursement(d, approval'[d].txn)
               \/ /\ approval'[d].step = "refused" /\ (approval[d].lost => approval'[d].lost)
         \/ /\ Active(d) /\ approval'[d].step = "done"
            /\ approval'[d].request = approval[d].request /\ approval'[d].lost = approval[d].lost
<1>t. approval \in [AdminCalls -> ApprovalRecord] /\ approval[d] \in ApprovalRecord
  BY DEF WithdrawalRows, RowsOK
<1>1. ASSUME NEW e \in AdminCalls, e # d, ApprovalStepOf(e) PROVE approval'[d] = approval[d]
  BY <1>t, <1>1 DEF ApprovalStepOf, ClaimRequest, Disburse, FindDisbursement, LoseDisbursement,
                    RefuseDisbursement, RestorePending, RecordDisbursed, AbandonApproval
<1>2. ASSUME NEW r \in Calls, ClaimRequest(d, r)
      PROVE  /\ approval[d].step = "idle" /\ approval'[d].step = "claimed"
             /\ approval'[d].lost = approval[d].lost /\ approval'[d].request = r
             /\ request[r].status = "pending"
  BY <1>t, <1>2 DEF ClaimRequest, ApprovalRecord
<1>3. ASSUME NEW t \in Txns, Disburse(d, t) \/ FindDisbursement(d, t)
      PROVE  /\ approval[d].step = "claimed" /\ approval'[d].step = "paid"
             /\ approval'[d].lost = approval[d].lost /\ approval'[d].txn = t
             /\ approval'[d].request = approval[d].request
  <2>1. approval[d].step = "claimed"
        /\ approval' = [approval EXCEPT ![d] = [approval[d] EXCEPT !.step = "paid", !.txn = t]]
    BY <1>3 DEF Disburse, FindDisbursement
  <2>2. approval'[d] = [approval[d] EXCEPT !.step = "paid", !.txn = t]
    BY <1>t, <2>1
  <2> QED
    BY <1>t, <2>1, <2>2 DEF ApprovalRecord
<1>4. ASSUME NEW t \in Txns, LoseDisbursement(d, t)
      PROVE  /\ approval[d].step = "claimed" /\ approval'[d].step = "refused"
             /\ approval'[d].lost = TRUE /\ approval'[d].request = approval[d].request
  BY <1>t, <1>4 DEF LoseDisbursement, ApprovalRecord
<1>5. ASSUME RefuseDisbursement(d)
      PROVE  /\ approval[d].step = "claimed" /\ approval'[d].step = "refused"
             /\ approval'[d].lost = approval[d].lost /\ approval'[d].request = approval[d].request
  BY <1>t, <1>5 DEF RefuseDisbursement, ApprovalRecord
<1>6. ASSUME RestorePending(d) \/ RecordDisbursed(d) \/ AbandonApproval(d)
      PROVE  /\ Active(d) /\ approval'[d].step = "done"
             /\ approval'[d].lost = approval[d].lost /\ approval'[d].request = approval[d].request
  BY <1>t, <1>6 DEF RestorePending, RecordDisbursed, AbandonApproval, Active, ApprovalRecord
<1>7. ASSUME ApprovalStepOf(d)
      PROVE  \/ \E r \in Calls : ClaimRequest(d, r)
             \/ \E t \in Txns : Disburse(d, t) \/ FindDisbursement(d, t)
             \/ \E t \in Txns : LoseDisbursement(d, t)
             \/ RefuseDisbursement(d)
             \/ RestorePending(d) \/ RecordDisbursed(d) \/ AbandonApproval(d)
  BY <1>7 DEF ApprovalStepOf
<1>8. approval' = approval \/ \E e \in AdminCalls : ApprovalStepOf(e)
  BY DEF WithdrawalNext, CustomerStep, OtherLedgerStep, withdrawalVars, Submit, PlaceHold, FindHold,
         InsertRequest, AbandonCall, RejectRequest
<1> QED
  BY <1>1, <1>2, <1>3, <1>4, <1>5, <1>6, <1>7, <1>8

\* What one commit does to one request.
LEMMA RequestMoves ==
  ASSUME WithdrawalRows, Claims, [WithdrawalNext]_withdrawalVars, NEW r \in Calls
  PROVE  \/ request'[r] = request[r]
         \/ request[r].status = "none" /\ request'[r].status = "pending"
         \/ /\ request'[r].account = request[r].account /\ request'[r].amount = request[r].amount
            /\ \/ request[r].status = "pending" /\ request'[r].status \in {"approved", "rejected"}
               \/ /\ request'[r].status = "pending" /\ request[r].status = "approved"
                  /\ \E d \in AdminCalls : approval[d].step = "refused" /\ approval[d].request = r
               \/ /\ request'[r].status = "disbursed" /\ request[r].status = "approved"
                  /\ \E d \in AdminCalls :
                        /\ approval[d].step = "paid" /\ approval[d].request = r
                        /\ request'[r].disbursement = approval[d].txn
<1>t. request \in [Calls -> RequestRecord] /\ request[r] \in RequestRecord
  BY DEF WithdrawalRows, RowsOK
<1>1. ASSUME NEW c \in Calls, InsertRequest(c)
      PROVE  \/ request'[r] = request[r]
             \/ request[r].status = "none" /\ request'[r].status = "pending"
  <2>1. CASE c = r
    <3>1. request[r].status = "none"
      BY <1>1, <2>1 DEF InsertRequest, Claims
    <3> QED
      BY <1>t, <1>1, <2>1, <3>1 DEF InsertRequest
  <2>2. CASE c # r
    BY <1>t, <1>1, <2>2 DEF InsertRequest
  <2> QED
    BY <2>1, <2>2
<1>2. ASSUME NEW d \in AdminCalls, NEW q \in Calls, ClaimRequest(d, q)
      PROVE  \/ request'[r] = request[r]
             \/ /\ request'[r].account = request[r].account /\ request'[r].amount = request[r].amount
                /\ request[r].status = "pending" /\ request'[r].status = "approved"
  BY <1>t, <1>2 DEF ClaimRequest, RequestRecord
<1>r. ASSUME NEW q \in Calls, RejectRequest(q)
      PROVE  \/ request'[r] = request[r]
             \/ /\ request'[r].account = request[r].account /\ request'[r].amount = request[r].amount
                /\ request[r].status = "pending" /\ request'[r].status \in {"approved", "rejected"}
  BY <1>t, <1>r DEF RejectRequest, RequestRecord
<1>3. ASSUME NEW d \in AdminCalls, RestorePending(d)
      PROVE  \/ request'[r] = request[r]
             \/ /\ request'[r].account = request[r].account /\ request'[r].amount = request[r].amount
                /\ request'[r].status = "pending" /\ request[r].status = "approved"
                /\ approval[d].step = "refused" /\ approval[d].request = r
  <2>1. request[approval[d].request].status = "approved" /\ approval[d].step = "refused"
    BY <1>3 DEF RestorePending, Claims, Active
  <2> QED
    BY <1>t, <1>3, <2>1 DEF RestorePending, RequestRecord
<1>4. ASSUME NEW d \in AdminCalls, RecordDisbursed(d)
      PROVE  \/ request'[r] = request[r]
             \/ /\ request'[r].account = request[r].account /\ request'[r].amount = request[r].amount
                /\ request'[r].status = "disbursed" /\ request[r].status = "approved"
                /\ approval[d].step = "paid" /\ approval[d].request = r
                /\ request'[r].disbursement = approval[d].txn
  <2>1. request[approval[d].request].status = "approved" /\ approval[d].step = "paid"
    BY <1>4 DEF RecordDisbursed, Claims, Active
  <2> QED
    BY <1>t, <1>4, <2>1 DEF RecordDisbursed, RequestRecord
<1> QED
  BY <1>1, <1>2, <1>r, <1>3, <1>4, RequestStep

\* What has been posted stays as it is.
LEMMA PostedStays ==
  ASSUME LedgerInv, WithdrawalRows, [WithdrawalNext]_withdrawalVars, NEW t \in Txns,
         entries[t]["debit"].status = "posted"
  PROVE  entries'[t]["debit"] = entries[t]["debit"]
<1>1. [Next]_vars
  BY LedgerStep
<1>2. EntryFinal(t, "debit")
  BY <1>1, FinalStep DEF Sides
<1>3. LedgerInv'
  BY <1>1, InvStep
<1>4. entries[t]["debit"] \in Entry /\ entries'[t]["debit"] \in Entry
  BY <1>3 DEF LedgerInv, TypeOK, Sides
<1> QED
  BY <1>2, <1>4 DEF EntryFinal, Entry

\* The transactions that pay a request are those that did so before, and the
\* one that is being posted for it.
LEMMA PaymentsGrow ==
  ASSUME LedgerInv, WithdrawalRows, KeysOwned, ApprovalsKnow, [WithdrawalNext]_withdrawalVars,
         NEW r \in Calls, NEW t \in Txns
  PROVE  t \in Disbursements(r)' <=>
            \/ t \in Disbursements(r)
            \/ \E d \in AdminCalls : Pays(d, t) /\ approval[d].request = r
<1>m. ASSUME NEW d \in AdminCalls
      PROVE  /\ approval[d].step # "idle" => approval'[d].request = approval[d].request
             /\ approval'[d].request # approval[d].request => approval[d].step = "idle"
  BY ApprovalMoves DEF Active
<1>p. ASSUME NEW d \in AdminCalls, NEW u \in Txns, Pays(d, u)
      PROVE  /\ approval[d].step = "claimed" /\ idempotencyKey'[u] = KeyOf(d)
             /\ approval'[d].request = approval[d].request
  <2>1. approval[d].step = "claimed" /\ PostTransaction(u, KeyOf(d), Payment(approval[d].request))
    BY <1>p DEF Pays, Disburse, LoseDisbursement
  <2>2. idempotencyKey'[u] = KeyOf(d)
    BY <2>1 DEF PostTransaction, WriteTransaction, LedgerInv, TypeOK
  <2> QED
    BY <2>1, <2>2, <1>m
<1>1. ASSUME t \in Disbursements(r) PROVE t \in Disbursements(r)'
  <2>1. idempotencyKey[t] # NoKey
    BY <1>1, NoKeyIsNone DEF Disbursements
  <2>2. idempotencyKey'[t] = idempotencyKey[t]
    BY <2>1, KeyStep
  <2>3. ASSUME NEW d \in AdminCalls, approval[d].request = r PROVE approval'[d].request = r
    BY <2>3, <1>m, WithdrawalAssumption DEF ApprovalsKnow
  <2> QED
    BY <1>1, <2>2, <2>3 DEF Disbursements
<1>2. ASSUME NEW d \in AdminCalls, Pays(d, t), approval[d].request = r
      PROVE  t \in Disbursements(r)'
  <2>1. idempotencyKey'[t] = KeyOf(d) /\ approval'[d].request = r
    BY <1>2, <1>p
  <2> QED
    BY <1>2, <2>1 DEF Disbursements, KeyOf
<1>3. ASSUME t \in Disbursements(r)', idempotencyKey'[t] = idempotencyKey[t]
      PROVE  t \in Disbursements(r)
  <2>1. CASE idempotencyKey[t] = ApproveKey(r)
    BY <2>1 DEF Disbursements
  <2>2. ASSUME NEW d \in AdminCalls, approval'[d].request = r, idempotencyKey[t] = ClickKey(d)
        PROVE  t \in Disbursements(r)
    <3>1. approval[d].step # "idle"
      BY <2>2 DEF KeysOwned
    <3> QED
      BY <2>2, <3>1, <1>m DEF Disbursements
  <2> QED
    BY <1>3, <2>1, <2>2 DEF Disbursements
<1>4. ASSUME t \in Disbursements(r)', idempotencyKey'[t] # idempotencyKey[t]
      PROVE  \E d \in AdminCalls : Pays(d, t) /\ approval[d].request = r
  <2>1. idempotencyKey'[t] = ApproveKey(r)
        \/ \E d \in AdminCalls : approval'[d].request = r /\ idempotencyKey'[t] = ClickKey(d)
    BY <1>4 DEF Disbursements
  <2>2. PICK e \in AdminCalls : Pays(e, t) /\ idempotencyKey'[t] = KeyOf(e)
    <3>1. \/ \E c \in Calls : PlaceHold(c, t) /\ idempotencyKey'[t] = HoldKey(call[c].key)
          \/ \E d \in AdminCalls : Pays(d, t) /\ idempotencyKey'[t] = KeyOf(d)
      BY <1>4, KeyStep
    <3> QED
      BY <2>1, <3>1, KeysApart
  <2>3. CASE KeyOf(e) = ApproveKey(approval[e].request)
    BY <2>1, <2>2, <2>3, KeysApart
  <2>4. CASE KeyOf(e) = ClickKey(e)
    <3>1. approval'[e].request = r
      BY <2>1, <2>2, <2>4, KeysApart
    <3> QED
      BY <2>2, <3>1, <1>p
  <2> QED
    BY <2>3, <2>4 DEF KeyOf
<1> QED
  BY <1>1, <1>2, <1>3, <1>4

\* What is true of an approval once it has been paid stays true of it.
LEMMA ApprovalsKnowStep ==
  ASSUME LedgerInv, WithdrawalRows, Claims, KeysOwned, ApprovalsKnow,
         [WithdrawalNext]_withdrawalVars
  PROVE  ApprovalsKnow'
<1> SUFFICES ASSUME NEW d \in AdminCalls
             PROVE  /\ approval'[d].step = "idle" =>
                          approval'[d].request = NoCall /\ ~approval'[d].lost
                    /\ approval'[d].step # "idle" =>
                          /\ approval'[d].request \in Calls
                          /\ request'[approval'[d].request].status # "none"
                    /\ \A r \in Calls : approval'[d].step = "paid" /\ approval'[d].request = r =>
                          approval'[d].txn \in Disbursements(r)'
  BY DEF ApprovalsKnow
<1>r. ASSUME NEW r \in Calls, request[r].status # "none" PROVE request'[r].status # "none"
  BY <1>r, RequestMoves
<1>t. approval[d] \in ApprovalRecord
  BY DEF WithdrawalRows, RowsOK
<1>s. ASSUME approval'[d].step # "idle", approval'[d].request = approval[d].request,
             approval[d].step # "idle"
      PROVE  approval'[d].request \in Calls /\ request'[approval'[d].request].status # "none"
  BY <1>s, <1>r DEF ApprovalsKnow
<1>1. CASE approval'[d] = approval[d]
  <2>1. ASSUME NEW r \in Calls, approval[d].step = "paid", approval[d].request = r
        PROVE  approval[d].txn \in Disbursements(r)'
    <3>1. approval[d].txn \in Disbursements(r) /\ approval[d].txn \in Txns
      BY <2>1 DEF ApprovalsKnow, Disbursements
    <3>2. \A t \in Txns : t \in Disbursements(r) => t \in Disbursements(r)'
      BY PaymentsGrow
    <3> QED
      BY <3>1, <3>2
  <2> QED
    BY <1>1, <1>s, <2>1 DEF ApprovalsKnow
<1>2. CASE /\ approval[d].step = "idle" /\ approval'[d].step = "claimed"
           /\ approval'[d].request \in Calls
           /\ request[approval'[d].request].status = "pending"
  BY <1>2, <1>r
<1>3. CASE /\ approval[d].step = "claimed" /\ approval'[d].request = approval[d].request
           /\ approval'[d].step = "paid" /\ approval'[d].txn \in Txns
           /\ Disburse(d, approval'[d].txn) \/ FindDisbursement(d, approval'[d].txn)
  <2>1. approval[d].request \in Calls /\ approval'[d].request \in Calls
        /\ request'[approval'[d].request].status # "none"
    BY <1>3, <1>s DEF ApprovalsKnow
  <2>2. ASSUME NEW r \in Calls, approval[d].request = r, NEW u \in Txns, u = approval'[d].txn
        PROVE  u \in Disbursements(r)'
    <3>1. CASE Disburse(d, u)
      BY <2>2, <3>1, PaymentsGrow DEF Pays
    <3>2. CASE FindDisbursement(d, u)
      <4>1. idempotencyKey[u] = KeyOf(d)
        BY <3>2 DEF FindDisbursement
      <4>2. u \in Disbursements(r)
        BY <2>2, <4>1 DEF Disbursements, KeyOf
      <4> QED
        BY <4>2, PaymentsGrow
    <3> QED
      BY <1>3, <2>2, <3>1, <3>2
  <2> QED
    BY <1>3, <2>1, <2>2
<1>4. CASE /\ Active(d) /\ approval'[d].request = approval[d].request
           /\ approval'[d].step \in {"refused", "done"}
  BY <1>4, <1>s DEF Active
<1> QED
  BY <1>1, <1>2, <1>3, <1>4, ApprovalMoves DEF Active

LEMMA KeysOwnedStep ==
  ASSUME LedgerInv, WithdrawalRows, Claims, KeysOwned, ApprovalsKnow,
         [WithdrawalNext]_withdrawalVars
  PROVE  KeysOwned'
<1>r. ASSUME NEW r \in Calls, request[r].status # "none" PROVE request'[r].status # "none"
  BY <1>r, RequestMoves
<1>a. ASSUME NEW d \in AdminCalls, approval[d].step # "idle" PROVE approval'[d].step # "idle"
  BY <1>a, ApprovalMoves
<1>1. CASE UNCHANGED idempotencyKey
  BY <1>1, <1>r, <1>a DEF KeysOwned
<1>2. ASSUME NEW t \in Txns,
             /\ \/ \E c \in Calls : PlaceHold(c, t) /\ idempotencyKey'[t] = HoldKey(call[c].key)
                \/ \E d \in AdminCalls : Pays(d, t) /\ idempotencyKey'[t] = KeyOf(d)
             /\ idempotencyKey[t] = NoKey
             /\ \A u \in Txns : u # t => idempotencyKey'[u] = idempotencyKey[u]
             /\ \A u \in Txns : idempotencyKey[u] # idempotencyKey'[t]
      PROVE  KeysOwned'
  <2>1. \A u, v \in Txns : idempotencyKey'[u] = idempotencyKey'[v] /\ idempotencyKey'[u] # NoKey
                             => u = v
    BY <1>2 DEF KeysOwned
  <2>2. /\ \A r \in Calls : idempotencyKey'[t] = ApproveKey(r) => request[r].status # "none"
        /\ \A d \in AdminCalls : idempotencyKey'[t] = ClickKey(d) =>
              d \in SendsKey /\ approval[d].step # "idle"
    <3>1. CASE \E c \in Calls : PlaceHold(c, t) /\ idempotencyKey'[t] = HoldKey(call[c].key)
      BY <3>1, KeysApart
    <3>2. ASSUME NEW e \in AdminCalls, Pays(e, t), idempotencyKey'[t] = KeyOf(e)
          PROVE  /\ \A r \in Calls : idempotencyKey'[t] = ApproveKey(r) => request[r].status # "none"
                 /\ \A d \in AdminCalls : idempotencyKey'[t] = ClickKey(d) =>
                       d \in SendsKey /\ approval[d].step # "idle"
      <4>1. approval[e].step = "claimed" /\ request[approval[e].request].status # "none"
        BY <3>2 DEF Pays, Disburse, LoseDisbursement, ApprovalsKnow
      <4>2. CASE e \in SendsKey
        BY <3>2, <4>1, <4>2, KeysApart DEF KeyOf
      <4>3. CASE e \notin SendsKey
        BY <3>2, <4>1, <4>3, KeysApart DEF KeyOf
      <4> QED
        BY <4>2, <4>3
    <3> QED
      BY <1>2, <3>1, <3>2
  <2>3. ASSUME NEW u \in Txns
        PROVE  /\ \A r \in Calls : idempotencyKey'[u] = ApproveKey(r) => request'[r].status # "none"
               /\ \A d \in AdminCalls : idempotencyKey'[u] = ClickKey(d) =>
                     d \in SendsKey /\ approval'[d].step # "idle"
    <3>1. CASE u = t
      BY <2>2, <3>1, <1>r, <1>a
    <3>2. CASE u # t
      BY <1>2, <3>2, <1>r, <1>a DEF KeysOwned
    <3> QED
      BY <3>1, <3>2
  <2> QED
    BY <2>1, <2>3 DEF KeysOwned
<1> QED
  BY <1>1, <1>2, KeyStep

\* A request that has been paid has been asked for.
LEMMA PaidIsAsked ==
  ASSUME KeysOwned, ApprovalsKnow, NEW r \in Calls, NEW t \in Disbursements(r)
  PROVE  request[r].status # "none"
  BY DEF Disbursements, KeysOwned, ApprovalsKnow

LEMMA PaymentsRealStep ==
  ASSUME LedgerInv, WithdrawalRows, Claims, PaymentInv, [WithdrawalNext]_withdrawalVars
  PROVE  PaymentsReal'
<1> USE DEF PaymentInv
<1> SUFFICES ASSUME NEW r \in Calls
             PROVE  /\ \A t \in Disbursements(r)' : Moved(r, t)'
                    /\ request'[r].status = "disbursed" =>
                          request'[r].disbursement \in Disbursements(r)'
  BY DEF PaymentsReal
<1>1. ASSUME NEW t \in Disbursements(r) PROVE t \in Disbursements(r)' /\ Moved(r, t)'
  <2>1. t \in Txns /\ request[r].status # "none" /\ Moved(r, t)
    BY <1>1, PaidIsAsked DEF PaymentsReal, Disbursements
  <2>2. entries'[t]["debit"] = entries[t]["debit"]
    BY <2>1, PostedStays DEF Moved
  <2>3. request'[r].account = request[r].account /\ request'[r].amount = request[r].amount
    BY <2>1, RequestMoves
  <2> QED
    BY <1>1, <2>1, <2>2, <2>3, PaymentsGrow DEF Moved
<1>2. ASSUME NEW t \in Txns, NEW d \in AdminCalls, Pays(d, t), approval[d].request = r
      PROVE  Moved(r, t)'
  <2>1. PostTransaction(t, KeyOf(d), Payment(r)) /\ request' = request
    BY <1>2 DEF Pays, Disburse, LoseDisbursement
  <2>2. entries' = [entries EXCEPT ![t] = NewEntries(Payment(r))]
    BY <2>1 DEF PostTransaction, WriteTransaction
  <2>3. entries'[t] = NewEntries(Payment(r))
    BY <2>2 DEF LedgerInv, TypeOK
  <2>4. entries'[t]["debit"] =
          [account |-> request[r].account, amount |-> request[r].amount, status |-> "posted"]
    BY <2>3 DEF NewEntries, Payment, EntryStatusOf, Sides
  <2> QED
    BY <2>1, <2>4 DEF Moved
<1>3. ASSUME NEW t \in Disbursements(r)' PROVE Moved(r, t)'
  <2>1. t \in Txns
    BY <1>3 DEF Disbursements
  <2> QED
    BY <1>1, <1>2, <1>3, <2>1, PaymentsGrow
<1>4. ASSUME request'[r].status = "disbursed"
      PROVE  request'[r].disbursement \in Disbursements(r)'
  <2>1. CASE request'[r] = request[r]
    BY <1>1, <1>4, <2>1 DEF PaymentsReal
  <2>2. ASSUME NEW d \in AdminCalls, approval[d].step = "paid", approval[d].request = r,
               request'[r].disbursement = approval[d].txn
        PROVE  request'[r].disbursement \in Disbursements(r)'
    BY <1>1, <2>2 DEF ApprovalsKnow
  <2> QED
    BY <1>4, <2>1, <2>2, RequestMoves
<1> QED
  BY <1>3, <1>4

LEMMA PaidIsTakenStep ==
  ASSUME LedgerInv, WithdrawalRows, Claims, PaymentInv, KeysOwned',
         [WithdrawalNext]_withdrawalVars
  PROVE  PaidIsTaken'
<1> USE DEF PaymentInv
<1> SUFFICES ASSUME NEW r \in Calls, ~Lost(r)'
             PROVE  /\ \A t, u \in Disbursements(r)' : t = u
                    /\ Disbursements(r)' # {} =>
                          /\ request'[r].status \in {"approved", "disbursed"}
                          /\ \A d \in AdminCalls : Active(d)' /\ approval'[d].request = r =>
                                approval'[d].step = "paid"
  BY DEF PaidIsTaken
<1>l. ~Lost(r)
  <2>1. ASSUME NEW d \in AdminCalls, approval[d].request = r, approval[d].lost PROVE FALSE
    <3>1. approval[d].step # "idle"
      BY <2>1 DEF ApprovalsKnow
    <3>2. approval'[d].request = r /\ approval'[d].lost
      BY <2>1, <3>1, ApprovalMoves
    <3> QED
      BY <3>2 DEF Lost
  <2> QED
    BY <2>1 DEF Lost
<1>p. ASSUME NEW d \in AdminCalls, NEW t \in Txns, Pays(d, t), approval[d].request = r
      PROVE  /\ approval[d].step = "claimed" /\ Disbursements(r) = {}
             /\ request[r].status = "approved" /\ request' = request
             /\ approval'[d].step = "paid"
             /\ idempotencyKey'[t] = KeyOf(d) /\ KeyOf(d) # NoKey
  <2>1. /\ approval[d].step = "claimed" /\ request' = request
        /\ PostTransaction(t, KeyOf(d), Payment(approval[d].request))
    BY <1>p DEF Pays, Disburse, LoseDisbursement
  <2>2. request[r].status = "approved" /\ Disbursements(r) = {}
    BY <1>l, <1>p, <2>1 DEF Claims, Active, PaidIsTaken
  <2>3. approval[d] \in ApprovalRecord /\ approval \in [AdminCalls -> ApprovalRecord]
    BY DEF WithdrawalRows, RowsOK
  <2>4. ~LoseDisbursement(d, t)
    <3>1. ASSUME LoseDisbursement(d, t) PROVE FALSE
      <4>1. approval'[d] = [approval[d] EXCEPT !.step = "refused", !.lost = TRUE]
        BY <2>3, <3>1 DEF LoseDisbursement
      <4>2. approval'[d].request = r /\ approval'[d].lost
        BY <1>p, <2>3, <4>1 DEF ApprovalRecord
      <4> QED
        BY <4>2 DEF Lost
    <3> QED
      BY <3>1
  <2>5. approval'[d] = [approval[d] EXCEPT !.step = "paid", !.txn = t]
    BY <1>p, <2>3, <2>4 DEF Pays, Disburse
  <2>6. approval'[d].step = "paid"
    BY <2>3, <2>5 DEF ApprovalRecord
  <2>7. idempotencyKey'[t] = KeyOf(d)
    BY <2>1 DEF PostTransaction, WriteTransaction, LedgerInv, TypeOK
  <2>8. KeyOf(d) # NoKey
    BY <1>p, NoKeyIsNone DEF KeyOf
  <2> QED
    BY <2>1, <2>2, <2>6, <2>7, <2>8
<1>o. ASSUME NEW d \in AdminCalls, NEW e \in AdminCalls, Active(d), Active(e),
             approval[d].request = r, approval[e].request = r
      PROVE  d = e
  BY <1>o DEF Claims
<1>1. ASSUME NEW t \in Disbursements(r)', NEW u \in Disbursements(r)' PROVE t = u
  <2>1. t \in Txns /\ u \in Txns
    BY <1>1 DEF Disbursements
  <2>2. CASE t \in Disbursements(r) /\ u \in Disbursements(r)
    BY <1>l, <2>2 DEF PaidIsTaken
  <2>3. CASE t \notin Disbursements(r) /\ u \notin Disbursements(r)
    <3>1. PICK d \in AdminCalls, e \in AdminCalls :
            /\ Pays(d, t) /\ approval[d].request = r
            /\ Pays(e, u) /\ approval[e].request = r
      BY <1>1, <2>1, <2>3, PaymentsGrow
    <3>2. d = e
      BY <1>p, <1>o, <2>1, <3>1 DEF Active
    <3>3. idempotencyKey'[t] = idempotencyKey'[u] /\ idempotencyKey'[t] # NoKey
      BY <1>p, <2>1, <3>1, <3>2
    <3> QED
      BY <2>1, <3>3 DEF KeysOwned
  <2>4. CASE ~(t \in Disbursements(r) <=> u \in Disbursements(r))
    BY <1>p, <1>1, <2>1, <2>4, PaymentsGrow
  <2> QED
    BY <2>2, <2>3, <2>4
<1>2. ASSUME NEW t \in Disbursements(r)'
      PROVE  /\ request'[r].status \in {"approved", "disbursed"}
             /\ \A d \in AdminCalls : Active(d)' /\ approval'[d].request = r =>
                   approval'[d].step = "paid"
  <2>1. t \in Txns
    BY <1>2 DEF Disbursements
  <2>2. CASE t \in Disbursements(r)
    <3>1. /\ request[r].status \in {"approved", "disbursed"}
          /\ \A d \in AdminCalls : Active(d) /\ approval[d].request = r => approval[d].step = "paid"
      BY <1>l, <2>2 DEF PaidIsTaken
    <3>2. request'[r].status \in {"approved", "disbursed"}
      BY <3>1, RequestMoves DEF Active
    <3>3. ASSUME NEW d \in AdminCalls, Active(d)', approval'[d].request = r
          PROVE  approval'[d].step = "paid"
      BY <3>1, <3>3, ApprovalMoves DEF Active
    <3> QED
      BY <3>2, <3>3
  <2>3. ASSUME NEW e \in AdminCalls, Pays(e, t), approval[e].request = r
        PROVE  /\ request'[r].status \in {"approved", "disbursed"}
               /\ \A d \in AdminCalls : Active(d)' /\ approval'[d].request = r =>
                     approval'[d].step = "paid"
    <3>1. /\ approval[e].step = "claimed" /\ request[r].status = "approved"
          /\ request' = request /\ approval'[e].step = "paid"
      BY <1>p, <2>1, <2>3
    <3>2. ASSUME NEW d \in AdminCalls, Active(d)', approval'[d].request = r
          PROVE  approval'[d].step = "paid"
      <4>1. Active(d) /\ approval[d].request = r
        BY <3>1, <3>2, ApprovalMoves DEF Active
      <4>2. d = e
        BY <1>o, <2>3, <3>1, <4>1 DEF Active
      <4> QED
        BY <3>1, <4>2
    <3> QED
      BY <3>1, <3>2
  <2> QED
    BY <1>2, <2>1, <2>2, <2>3, PaymentsGrow
<1> QED
  BY <1>1, <1>2

LEMMA PaymentsHold == WithdrawalSpec => []PaymentInv
<1>1. ASSUME WithdrawalInit PROVE PaymentInv
  <2>1. \A t \in Txns : idempotencyKey[t] = NoKey
    BY <1>1 DEF WithdrawalInit, Init
  <2>2. \A r \in Calls : Disbursements(r) = {} /\ request[r].status = "none"
    BY <1>1, <2>1, NoKeyIsNone DEF WithdrawalInit, Disbursements, NoRequest
  <2>3. \A d \in AdminCalls : /\ approval[d].step = "idle" /\ approval[d].request = NoCall
                              /\ approval[d].lost = FALSE
    BY <1>1 DEF WithdrawalInit
  <2> QED
    BY <2>1, <2>2, <2>3, NoKeyIsNone
       DEF PaymentInv, KeysOwned, ApprovalsKnow, PaymentsReal, PaidIsTaken
<1>2. LedgerInv /\ WithdrawalRows /\ Claims /\ PaymentInv /\ [WithdrawalNext]_withdrawalVars
        => PaymentInv'
  BY KeysOwnedStep, ApprovalsKnowStep, PaymentsRealStep, PaidIsTakenStep DEF PaymentInv
<1> QED
  BY <1>1, <1>2, ClaimsHold, WithdrawalInvariant, PTL DEF WithdrawalSpec

\* What reads 'disbursed' was paid, by the transaction it names.
THEOREM DisbursedRequestsArePaid == WithdrawalSpec => []DisbursedIsPaid
<1>1. PaymentInv => DisbursedIsPaid
  BY DEF PaymentInv, PaymentsReal, Moved, DisbursedIsPaid
<1> QED
  BY <1>1, PaymentsHold, PTL

\* What was rejected was not paid, unless the answer to a payment was lost.
THEOREM RejectedRequestsAreUnpaid == WithdrawalSpec => []RejectedIsUnpaid
<1>1. PaymentInv => RejectedIsUnpaid
  BY DEF PaymentInv, PaidIsTaken, Lost, RejectedIsUnpaid
<1> QED
  BY <1>1, PaymentsHold, PTL

\* No request is paid twice, unless an answer was lost and the approvals went
\* under different keys.
THEOREM RequestsArePaidOnce == WithdrawalSpec => []PaidOnceUnlessAnswerLost
<1>1. ASSUME PaymentInv, NEW r \in Calls, \A t, u \in Disbursements(r) : t = u
      PROVE  ~(Cardinality(Disbursements(r)) > 1)
  <2>1. CASE Disbursements(r) = {}
    <3>1. Cardinality({}) = 0
      BY FS_EmptySet
    <3> QED
      BY <2>1, <3>1
  <2>2. CASE Disbursements(r) # {}
    <3>1. PICK t \in Disbursements(r) : Disbursements(r) = {t}
      BY <1>1, <2>2
    <3>2. Cardinality({t}) = 1
      BY FS_Singleton
    <3> QED
      BY <3>1, <3>2
  <2> QED
    BY <2>1, <2>2
<1>2. ASSUME PaymentInv, NEW r \in Calls, Cardinality(Disbursements(r)) > 1
      PROVE  /\ Lost(r)
             /\ {d \in AdminCalls : approval[d].request = r} \cap SendsKey # {}
  <2>1. PICK t, u \in Disbursements(r) : t # u
    BY <1>1, <1>2
  <2>2. Lost(r)
    BY <1>2, <2>1 DEF PaymentInv, PaidIsTaken
  <2>3. t \in Txns /\ u \in Txns
    BY <2>1 DEF Disbursements
  <2>4. ASSUME \A d \in AdminCalls : approval[d].request = r => d \notin SendsKey PROVE FALSE
    <3>1. \A v \in Disbursements(r) : idempotencyKey[v] = ApproveKey(r)
      BY <1>2, <2>4 DEF Disbursements, PaymentInv, KeysOwned
    <3> QED
      BY <1>2, <2>1, <2>3, <3>1, NoKeyIsNone DEF PaymentInv, KeysOwned
  <2> QED
    BY <2>2, <2>4
<1>3. PaymentInv => PaidOnceUnlessAnswerLost
  BY <1>2 DEF PaidOnceUnlessAnswerLost, Lost
<1> QED
  BY <1>3, PaymentsHold, PTL

-----------------------------------------------------------------------------
(* Holds and the keys they were placed under                               *)

\* The hold of a call, and of the request it inserted, is the transaction with
\* its customer's key.
HoldNamed(c) ==
  /\ call[c].step = "held" => idempotencyKey[call[c].hold] = HoldKey(call[c].key)
  /\ request[c].status # "none" =>
        /\ call[c].step = "done"
        /\ call[c].key \in ClientKeys
        /\ idempotencyKey[request[c].hold] = HoldKey(call[c].key)

HoldsNamed == \A c \in Calls : HoldNamed(c)

LEMMA HoldKeys ==
  /\ \A k \in ClientKeys : HoldKey(k) # NoKey
  /\ \A k, l : HoldKey(k) = HoldKey(l) => k = l
<1>1. \A k \in ClientKeys : HoldKey(k) # NoKey
  BY LedgerAssumption, WithdrawalAssumption
<1>2. \A k, l : HoldKey(k) = HoldKey(l) => k = l
  BY DEF HoldKey
<1> QED
  BY <1>1, <1>2

\* A key that is used stays with its transaction.
LEMMA KeyKept ==
  ASSUME LedgerInv, WithdrawalRows, [WithdrawalNext]_withdrawalVars, NEW t \in Txns,
         idempotencyKey[t] # NoKey
  PROVE  idempotencyKey'[t] = idempotencyKey[t]
  BY KeyStep

\* What one commit does to one customer call.
LEMMA CallMoves ==
  ASSUME LedgerInv, WithdrawalRows, [WithdrawalNext]_withdrawalVars, NEW c \in Calls
  PROVE  \/ call'[c] = call[c]
         \/ call[c].step = "idle" /\ call'[c].step = "checked"
         \/ /\ call[c].step = "checked" /\ call'[c].step = "held"
            /\ call'[c].key = call[c].key
            /\ call'[c].hold \in Txns
            /\ idempotencyKey'[call'[c].hold] = HoldKey(call[c].key)
         \/ /\ call[c].step \in {"checked", "held"} /\ call'[c].step = "done"
            /\ call'[c].key = call[c].key
<1>t. call \in [Calls -> CallRecord] /\ call[c] \in CallRecord
  BY DEF WithdrawalRows, RowsOK
<1>1. ASSUME NEW d \in Calls, d # c, CustomerStep(d) PROVE call'[c] = call[c]
  BY <1>t, <1>1 DEF CustomerStep, Submit, PlaceHold, FindHold, InsertRequest, AbandonCall
<1>2. ASSUME NEW a \in Customers, NEW n \in Amounts, NEW k \in ClientKeys, Submit(c, a, n, k)
      PROVE  call[c].step = "idle" /\ call'[c].step = "checked"
  BY <1>t, <1>2 DEF Submit
<1>3. ASSUME NEW t \in Txns, PlaceHold(c, t) \/ FindHold(c, t)
      PROVE  /\ call[c].step = "checked" /\ call'[c].step = "held"
             /\ call'[c].key = call[c].key
             /\ call'[c].hold \in Txns
             /\ idempotencyKey'[call'[c].hold] = HoldKey(call[c].key)
  <2>1. call[c].step = "checked"
        /\ call' = [call EXCEPT ![c] = [call[c] EXCEPT !.step = "held", !.hold = t]]
    BY <1>3 DEF PlaceHold, FindHold
  <2>2. call'[c] = [call[c] EXCEPT !.step = "held", !.hold = t]
    BY <1>t, <2>1
  <2>3. call'[c].step = "held" /\ call'[c].key = call[c].key /\ call'[c].hold = t
    BY <1>t, <2>2 DEF CallRecord
  <2>4. idempotencyKey'[t] = HoldKey(call[c].key)
    BY <1>3 DEF PlaceHold, FindHold, PostTransaction, WriteTransaction, LedgerInv, TypeOK,
                ledgerVars, vars
  <2> QED
    BY <2>1, <2>3, <2>4
<1>4. ASSUME InsertRequest(c) \/ AbandonCall(c)
      PROVE  /\ call[c].step \in {"checked", "held"} /\ call'[c].step = "done"
             /\ call'[c].key = call[c].key
  <2>1. call[c].step \in {"checked", "held"} /\ call' = [call EXCEPT ![c].step = "done"]
    BY <1>4 DEF InsertRequest, AbandonCall
  <2> QED
    BY <1>t, <2>1 DEF CallRecord
<1>5. (\E d \in Calls : CustomerStep(d)) \/ call' = call
  BY DEF WithdrawalNext, ApprovalStepOf, OtherLedgerStep, withdrawalVars, ClaimRequest, Disburse,
         FindDisbursement, LoseDisbursement, RefuseDisbursement, RestorePending, RecordDisbursed,
         AbandonApproval, RejectRequest
<1>6. CustomerStep(c) =>
         \/ \E a \in Customers, n \in Amounts, k \in ClientKeys : Submit(c, a, n, k)
         \/ \E t \in Txns : PlaceHold(c, t) \/ FindHold(c, t)
         \/ InsertRequest(c) \/ AbandonCall(c)
  BY DEF CustomerStep
<1> QED
  BY <1>1, <1>2, <1>3, <1>4, <1>5, <1>6

\* A request keeps its hold for good.
LEMMA HoldMoves ==
  ASSUME WithdrawalRows, Claims, [WithdrawalNext]_withdrawalVars, NEW r \in Calls
  PROVE  \/ InsertRequest(r)
         \/ /\ request'[r].hold = request[r].hold
            /\ request[r].status = "none" => request'[r].status = "none"
<1> DEFINE Kept == /\ request'[r].hold = request[r].hold
                   /\ request[r].status = "none" => request'[r].status = "none"
<1>t. request \in [Calls -> RequestRecord] /\ request[r] \in RequestRecord
  BY DEF WithdrawalRows, RowsOK
<1>1. ASSUME NEW c \in Calls, InsertRequest(c) PROVE InsertRequest(r) \/ Kept
  BY <1>t, <1>1 DEF InsertRequest
<1>2. ASSUME NEW d \in AdminCalls, NEW q \in Calls, ClaimRequest(d, q) \/ RejectRequest(q)
      PROVE  Kept
  BY <1>t, <1>2 DEF ClaimRequest, RejectRequest, RequestRecord
<1>3. ASSUME NEW q \in Calls, RejectRequest(q) PROVE Kept
  BY <1>t, <1>3 DEF RejectRequest, RequestRecord
<1>4. ASSUME NEW d \in AdminCalls, RestorePending(d) PROVE Kept
  <2>1. request[approval[d].request].status = "approved"
    BY <1>4 DEF RestorePending, Claims, Active
  <2> QED
    BY <1>t, <1>4, <2>1 DEF RestorePending, RequestRecord
<1>5. ASSUME NEW d \in AdminCalls, RecordDisbursed(d) PROVE Kept
  <2>1. request[approval[d].request].status = "approved"
    BY <1>5 DEF RecordDisbursed, Claims, Active
  <2> QED
    BY <1>t, <1>5, <2>1 DEF RecordDisbursed, RequestRecord
<1> QED
  BY <1>1, <1>2, <1>3, <1>4, <1>5, RequestStep

LEMMA HoldsNamedStep ==
  ASSUME LedgerInv, WithdrawalRows, Claims, HoldsNamed, [WithdrawalNext]_withdrawalVars
  PROVE  HoldsNamed'
<1> SUFFICES ASSUME NEW c \in Calls PROVE HoldNamed(c)'
  BY DEF HoldsNamed
<1>k. HoldNamed(c) /\ (call[c].step # "done" => request[c].status = "none")
  BY DEF HoldsNamed, Claims
<1>1. call'[c].step = "held" => idempotencyKey'[call'[c].hold] = HoldKey(call'[c].key)
  <2>1. CASE call'[c] = call[c] /\ call[c].step = "held"
    <3>1. call[c].hold \in Txns /\ call[c].key \in ClientKeys
      BY <2>1 DEF WithdrawalRows, CallsReal
    <3>2. idempotencyKey[call[c].hold] = HoldKey(call[c].key)
      BY <1>k, <2>1 DEF HoldNamed
    <3>3. idempotencyKey[call[c].hold] # NoKey
      BY <3>1, <3>2, HoldKeys
    <3> QED
      BY <2>1, <3>1, <3>2, <3>3, KeyKept
  <2>2. CASE call'[c].step = "held" /\ call'[c] # call[c]
    BY <2>2, CallMoves
  <2> QED
    BY <2>1, <2>2
<1>2. ASSUME request'[c].status # "none"
      PROVE  /\ call'[c].step = "done"
             /\ call'[c].key \in ClientKeys
             /\ idempotencyKey'[request'[c].hold] = HoldKey(call'[c].key)
  <2>1. CASE InsertRequest(c)
    <3>1. /\ call[c].step = "held"
          /\ call' = [call EXCEPT ![c].step = "done"]
          /\ request' = [request EXCEPT ![c] =
               [status |-> "pending", account |-> call[c].account, amount |-> call[c].amount,
                hold |-> call[c].hold, disbursement |-> NoTxn]]
          /\ UNCHANGED idempotencyKey
      BY <2>1 DEF InsertRequest, ledgerVars, vars
    <3>2. call'[c].step = "done" /\ call'[c].key = call[c].key
      BY <3>1 DEF WithdrawalRows, RowsOK, CallRecord
    <3>3. request'[c].hold = call[c].hold
      BY <3>1 DEF WithdrawalRows, RowsOK
    <3>4. call[c].key \in ClientKeys
      BY <3>1 DEF WithdrawalRows, CallsReal
    <3>5. idempotencyKey[call[c].hold] = HoldKey(call[c].key)
      BY <3>1, <1>k DEF HoldNamed
    <3> QED
      BY <3>1, <3>2, <3>3, <3>4, <3>5
  <2>2. CASE ~InsertRequest(c)
    <3>1. request'[c].hold = request[c].hold /\ request[c].status # "none"
      BY <1>2, <2>2, HoldMoves
    <3>2. /\ call[c].step = "done" /\ call[c].key \in ClientKeys
          /\ idempotencyKey[request[c].hold] = HoldKey(call[c].key)
      BY <1>k, <3>1 DEF HoldNamed
    <3>3. call'[c] = call[c]
      BY <3>2, CallMoves
    <3>4. request[c].hold \in Txns
      BY <3>1 DEF WithdrawalRows, RequestsReal
    <3>5. idempotencyKey'[request[c].hold] = idempotencyKey[request[c].hold]
      BY <3>2, <3>4, HoldKeys, KeyKept
    <3> QED
      BY <3>1, <3>2, <3>3, <3>5
  <2> QED
    BY <2>1, <2>2
<1> QED
  BY <1>1, <1>2 DEF HoldNamed

LEMMA HoldsAreNamed == WithdrawalSpec => []HoldsNamed
<1>1. WithdrawalInit => HoldsNamed
  BY DEF WithdrawalInit, HoldsNamed, HoldNamed, NoRequest
<1> QED
  BY <1>1, HoldsNamedStep, ClaimsHold, WithdrawalInvariant, PTL DEF WithdrawalSpec

\* Two requests share a hold only if their customers sent one key.
OneKeyPerHold ==
  \A r, q \in Calls :
     /\ request[r].status # "none" /\ request[q].status # "none"
     /\ request[r].hold = request[q].hold
     => call[r].key = call[q].key

\* A hold belongs to one key: requests share it only when a key was sent again.
THEOREM SharedHoldIsReplay == WithdrawalSpec => []OneKeyPerHold
<1>1. HoldsNamed => OneKeyPerHold
  BY HoldKeys DEF HoldsNamed, HoldNamed, OneKeyPerHold
<1> QED
  BY <1>1, HoldsAreNamed, PTL

\* No two calls of POST /withdrawals came with one Idempotency-Key.
KeysNotReused ==
  \A c, d \in Calls :
     call[c].step # "idle" /\ call[d].step # "idle" /\ call[c].key = call[d].key => c = d

\* The same hold is paid out twice only where a key was sent again: customers
\* who never repeat a key are paid once for each hold.
THEOREM FreshKeysPayOnce == WithdrawalSpec /\ []KeysNotReused => []ReplayPaysOnce
<1>1. ASSUME HoldsNamed, KeysNotReused PROVE ReplayPaysOnce
  <2> SUFFICES ASSUME NEW r \in Calls, NEW q \in Calls,
                      request[r].status = "disbursed", request[q].status = "disbursed",
                      request[r].hold = request[q].hold
               PROVE  r = q
    BY DEF ReplayPaysOnce
  <2>1. call[r].key = call[q].key
    BY <1>1, HoldKeys DEF HoldsNamed, HoldNamed
  <2>2. call[r].step = "done" /\ call[q].step = "done"
    BY <1>1 DEF HoldsNamed, HoldNamed
  <2> QED
    BY <1>1, <2>1, <2>2 DEF KeysNotReused
<1> QED
  BY <1>1, HoldsAreNamed, PTL

\* Nobody has taken the money of a hold: only the release of its transaction
\* does.
HoldsUntaken ==
  \A t \in Txns, k \in ClientKeys :
     idempotencyKey[t] = HoldKey(k) => entries[t]["debit"].status \in {"pending", "released"}

\* No administrator releases a transaction that is a hold.
NoHoldIsReleased ==
  \A t \in Txns, k \in ClientKeys : idempotencyKey[t] = HoldKey(k) => ~ReleaseTransaction(t)

\* Of the steps here, only a release posts what was pending.
LEMMA OnlyReleasePosts ==
  ASSUME LedgerInv, WithdrawalRows, [WithdrawalNext]_withdrawalVars, NEW t \in Txns,
         entries[t]["debit"].status = "pending", entries'[t]["debit"].status = "posted"
  PROVE  ReleaseTransaction(t)
<1>t. entries \in [Txns -> [Sides -> Entry]] /\ Exists(t)
  BY DEF LedgerInv, TypeOK, EntriesPaired, Exists
<1>1. ASSUME NEW u \in Txns, NEW k, NEW p, PostTransaction(u, k, p) PROVE FALSE
  <2>1. u # t
    BY <1>1, <1>t DEF PostTransaction, WriteTransaction
  <2> QED
    BY <1>1, <1>t, <2>1 DEF PostTransaction, WriteTransaction
<1>2. ASSUME NEW u \in Txns, CancelHold(u) PROVE FALSE
  <2>1. CASE u = t
    <3>1. entries'[t]["debit"] = Flipped(entries[t]["debit"], "released")
      BY <1>2, <1>t, <2>1 DEF CancelHold, Flip, Sides
    <3> QED
      BY <3>1 DEF Flipped
  <2>2. CASE u # t
    BY <1>2, <1>t, <2>2 DEF CancelHold, Flip
  <2> QED
    BY <2>1, <2>2
<1>3. ASSUME NEW u \in Txns, ReleaseTransaction(u) PROVE u = t
  BY <1>3, <1>t DEF ReleaseTransaction, PostPending, Flip
<1>4. CASE UNCHANGED entries
  BY <1>4
<1>5. \/ UNCHANGED entries
      \/ \E u \in Txns : ReleaseTransaction(u) \/ CancelHold(u)
      \/ \E u \in Txns, c \in Calls : PostTransaction(u, HoldKey(call[c].key), HoldPosting(c))
      \/ \E u \in Txns, d \in AdminCalls : PostTransaction(u, KeyOf(d), Payment(approval[d].request))
  <2>1. \A r \in Calls : request[r].status = "pending" => request[r].hold \in Txns
    BY DEF WithdrawalRows, RequestsReal
  <2> QED
    BY <2>1
    DEF WithdrawalNext, CustomerStep, ApprovalStepOf, OtherLedgerStep, withdrawalVars, vars,
        ledgerVars, Submit, PlaceHold, FindHold, InsertRequest, AbandonCall, ClaimRequest, Disburse,
        LoseDisbursement, FindDisbursement, RefuseDisbursement, RestorePending, RecordDisbursed,
        AbandonApproval, RejectRequest, FlagTransaction, FreezeAccounts, UnfreezeAccounts,
        SetAccountStatus
<1> QED
  BY <1>1, <1>2, <1>3, <1>4, <1>5

LEMMA HoldsUntakenStep ==
  ASSUME LedgerInv, WithdrawalRows, HoldsUntaken, [WithdrawalNext]_withdrawalVars,
         [NoHoldIsReleased]_withdrawalVars
  PROVE  HoldsUntaken'
<1> SUFFICES ASSUME NEW t \in Txns, NEW k \in ClientKeys, idempotencyKey'[t] = HoldKey(k)
             PROVE  entries'[t]["debit"].status \in {"pending", "released"}
  BY DEF HoldsUntaken
<1>k. HoldKey(k) # NoKey
  BY HoldKeys
<1>1. CASE idempotencyKey[t] = HoldKey(k)
  <2>1. entries[t]["debit"].status \in {"pending", "released"}
    BY <1>1 DEF HoldsUntaken
  <2>2. EntryFinal(t, "debit")
    BY LedgerStep, FinalStep DEF Sides
  <2>3. CASE entries'[t]["debit"].status = "posted"
    <3>1. ReleaseTransaction(t)
      BY <2>1, <2>2, <2>3, OnlyReleasePosts DEF EntryFinal
    <3>2. entries' # entries
      BY <2>1, <2>3
    <3> QED
      BY <1>1, <3>1, <3>2 DEF NoHoldIsReleased, withdrawalVars, vars
  <2> QED
    BY <2>1, <2>2, <2>3 DEF EntryFinal
<1>2. CASE idempotencyKey[t] # HoldKey(k)
  <2>1. idempotencyKey[t] = NoKey /\ \E c \in Calls : PlaceHold(c, t)
    BY <1>2, KeyStep, KeysApart DEF KeyOf
  <2>2. PICK c \in Calls : PlaceHold(c, t)
    BY <2>1
  <2>3. entries'[t] = NewEntries(HoldPosting(c))
    BY <2>2 DEF PlaceHold, PostTransaction, WriteTransaction, LedgerInv, TypeOK
  <2> QED
    BY <2>3 DEF NewEntries, EntryStatusOf, HoldPosting, Sides
<1> QED
  BY <1>1, <1>2

\* A disbursed request has given its hold back unless an administrator released
\* the hold as a transaction: nothing else takes the money a second time.
THEOREM UnreleasedHoldsAreGivenBack ==
  WithdrawalSpec /\ [][NoHoldIsReleased]_withdrawalVars => []DisbursedGaveHoldBack
<1>1. WithdrawalInit => HoldsUntaken
  BY HoldKeys DEF WithdrawalInit, Init, HoldsUntaken
<1>2. LedgerInv /\ WithdrawalRows /\ HoldsUntaken /\ [WithdrawalNext]_withdrawalVars
        /\ [NoHoldIsReleased]_withdrawalVars => HoldsUntaken'
  BY HoldsUntakenStep
<1>3. ASSUME WithdrawalRows, HoldsNamed, HoldsUntaken, DecidedHoldsNothing
      PROVE  DisbursedGaveHoldBack
  <2> SUFFICES ASSUME NEW r \in Calls, request[r].status = "disbursed"
               PROVE  entries[request[r].hold]["debit"].status = "released"
    BY DEF DisbursedGaveHoldBack
  <2>1. /\ request[r].hold \in Txns
        /\ call[r].key \in ClientKeys
        /\ idempotencyKey[request[r].hold] = HoldKey(call[r].key)
    BY <1>3 DEF WithdrawalRows, RequestsReal, HoldsNamed, HoldNamed
  <2>2. entries[request[r].hold]["debit"].status # "pending"
    BY <1>3 DEF DecidedHoldsNothing, Sides
  <2> QED
    BY <1>3, <2>1, <2>2 DEF HoldsUntaken
<1> QED
  BY <1>1, <1>2, <1>3, HoldsAreNamed, DecidedRequestsHoldNothing, WithdrawalInvariant, PTL
     DEF WithdrawalSpec
=============================================================================
