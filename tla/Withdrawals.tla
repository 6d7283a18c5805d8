------------------------------ MODULE Withdrawals ------------------------------
(***************************************************************************)
(* Customer withdrawals.  POST /withdrawals places a hold with the ledger  *)
(* and inserts a row of withdrawal_requests; an administrator approves the *)
(* request (the hold is cancelled, then a disbursement is posted) or       *)
(* rejects it.  Neither handler is one database transaction: every action  *)
(* here is one commit of one, and a handler may stop after any of them.    *)
(*                                                                         *)
(* The ledger below is module Ledger, whose actions the handlers call.     *)
(***************************************************************************)
EXTENDS Ledger, FiniteSets

CONSTANTS Calls,       \* calls of POST /withdrawals, replays included
          AdminCalls,  \* calls of POST /withdrawals/:id/approve
          SendsKey,    \* the admin calls that send an Idempotency-Key header
          ClientKeys,  \* Idempotency-Key headers of customers
          Clearing,    \* the EXTERNAL_CLEARING account
          NoTxn,       \* a null transaction id
          NoCall       \* no request

\* The keys handed to postTransaction.  The admin console draws a new header
\* for every click; without the header the handler derives the key.
HoldKey(k) == <<"hold", k>>
ApproveKey(r) == <<"approve", r>>
ClickKey(d) == <<"click", d>>

ASSUME WithdrawalAssumption ==
  /\ Clearing \in Accounts
  /\ SendsKey \subseteq AdminCalls
  /\ NoTxn \notin Txns
  /\ NoCall \notin Calls
  /\ \A k \in ClientKeys : HoldKey(k) \in Keys
  /\ \A r \in Calls : ApproveKey(r) \in Keys
  /\ \A d \in AdminCalls : ClickKey(d) \in Keys

VARIABLES call,      \* each customer call: its step and local variables
          request,   \* withdrawal_requests; a call inserts one row, named after it
          approval   \* each admin call: its step and local variables

ledgerVars == vars
withdrawalVars == <<vars, call, request, approval>>

CallStep == {"idle", "checked", "held", "done"}
ApprovalStep == {"idle", "claimed", "paid", "refused", "done"}
RequestStatus == {"pending", "approved", "rejected", "disbursed"}

Customers == Accounts \ {Clearing}

NoRequest == [status |-> "none", account |-> NoAccount, amount |-> 0,
              hold |-> NoTxn, disbursement |-> NoTxn]

-----------------------------------------------------------------------------
(* POST /withdrawals                                                       *)

HoldPosting(c) ==
  [status |-> "pending",
   debit  |-> call[c].account, paid     |-> call[c].amount,
   credit |-> Clearing,        received |-> call[c].amount]

\* The handler has read the account: it exists and is active.
Submit(c, a, n, k) ==
  /\ call[c].step = "idle"
  /\ accountStatus[a] = "active"
  /\ n > 0
  /\ call' = [call EXCEPT ![c] =
       [step |-> "checked", account |-> a, amount |-> n, key |-> k, hold |-> NoTxn]]
  /\ UNCHANGED <<ledgerVars, request, approval>>

\* postTransaction writes the hold, whatever happened since the account was read.
PlaceHold(c, t) ==
  /\ call[c].step = "checked"
  /\ PostTransaction(t, HoldKey(call[c].key), HoldPosting(c))
  /\ call' = [call EXCEPT ![c] = [@ EXCEPT !.step = "held", !.hold = t]]
  /\ UNCHANGED <<request, approval>>

\* postTransaction finds the key and returns the transaction it belongs to.
FindHold(c, t) ==
  /\ call[c].step = "checked"
  /\ idempotencyKey[t] = HoldKey(call[c].key)
  /\ call' = [call EXCEPT ![c] = [@ EXCEPT !.step = "held", !.hold = t]]
  /\ UNCHANGED <<ledgerVars, request, approval>>

\* The row is inserted whether the hold is new or was found.
InsertRequest(c) ==
  /\ call[c].step = "held"
  /\ request' = [request EXCEPT ![c] =
       [status |-> "pending", account |-> call[c].account, amount |-> call[c].amount,
        hold |-> call[c].hold, disbursement |-> NoTxn]]
  /\ call' = [call EXCEPT ![c].step = "done"]
  /\ UNCHANGED <<ledgerVars, approval>>

\* postTransaction or the insert throws, or the server stops.
AbandonCall(c) ==
  /\ call[c].step \in {"checked", "held"}
  /\ call' = [call EXCEPT ![c].step = "done"]
  /\ UNCHANGED <<ledgerVars, request, approval>>

-----------------------------------------------------------------------------
(* POST /withdrawals/:id/approve                                           *)

Payment(r) ==
  [status |-> "posted",
   debit  |-> request[r].account, paid     |-> request[r].amount,
   credit |-> Clearing,           received |-> request[r].amount]

KeyOf(d) == IF d \in SendsKey THEN ClickKey(d) ELSE ApproveKey(approval[d].request)

\* A variant: the status is not checked under the lock.
ClaimAnyRequest(d, r) ==
  /\ approval[d].step = "idle"
  /\ request[r].status # "none"
  /\ CancelHold(request[r].hold)
  /\ request' = [request EXCEPT ![r].status = "approved"]
  /\ approval' = [approval EXCEPT ![d] = [@ EXCEPT !.step = "claimed", !.request = r]]
  /\ UNCHANGED call

\* A variant: the status is written at the end of the handler only.
ClaimUnmarked(d, r) ==
  /\ approval[d].step = "idle"
  /\ request[r].status = "pending"
  /\ CancelHold(request[r].hold)
  /\ approval' = [approval EXCEPT ![d] = [@ EXCEPT !.step = "claimed", !.request = r]]
  /\ UNCHANGED <<call, request>>

\* The request row is locked and must be 'pending'; the hold is cancelled.
ClaimRequest(d, r) ==
  /\ approval[d].step = "idle"
  /\ request[r].status = "pending"
  /\ CancelHold(request[r].hold)
  /\ request' = [request EXCEPT ![r].status = "approved"]
  /\ approval' = [approval EXCEPT ![d] = [@ EXCEPT !.step = "claimed", !.request = r]]
  /\ UNCHANGED call

Disburse(d, t) ==
  /\ approval[d].step = "claimed"
  /\ PostTransaction(t, KeyOf(d), Payment(approval[d].request))
  /\ approval' = [approval EXCEPT ![d] = [@ EXCEPT !.step = "paid", !.txn = t]]
  /\ UNCHANGED <<call, request>>

\* The disbursement is already there: an earlier call under the same key.
FindDisbursement(d, t) ==
  /\ approval[d].step = "claimed"
  /\ idempotencyKey[t] = KeyOf(d)
  /\ approval' = [approval EXCEPT ![d] = [@ EXCEPT !.step = "paid", !.txn = t]]
  /\ UNCHANGED <<ledgerVars, call, request>>

\* The disbursement commits, but the connection drops before COMMIT is
\* answered: to the handler postTransaction has failed.
LoseDisbursement(d, t) ==
  /\ approval[d].step = "claimed"
  /\ PostTransaction(t, KeyOf(d), Payment(approval[d].request))
  /\ approval' = [approval EXCEPT ![d] = [@ EXCEPT !.step = "refused", !.lost = TRUE]]
  /\ UNCHANGED <<call, request>>

\* A variant: the catch clause forgets to throw the error again.
SwallowRefusal(d) ==
  /\ approval[d].step = "claimed"
  /\ approval' = [approval EXCEPT ![d].step = "paid"]
  /\ UNCHANGED <<ledgerVars, call, request>>

\* postTransaction throws: not enough available, inactive, connection lost.
RefuseDisbursement(d) ==
  /\ approval[d].step = "claimed"
  /\ approval' = [approval EXCEPT ![d].step = "refused"]
  /\ UNCHANGED <<ledgerVars, call, request>>

\* The catch clause: back to 'pending', whatever the row says by now.
RestorePending(d) ==
  /\ approval[d].step = "refused"
  /\ request' = [request EXCEPT ![approval[d].request].status = "pending"]
  /\ approval' = [approval EXCEPT ![d].step = "done"]
  /\ UNCHANGED <<ledgerVars, call>>

RecordDisbursed(d) ==
  /\ approval[d].step = "paid"
  /\ request' = [request EXCEPT ![approval[d].request] =
       [@ EXCEPT !.status = "disbursed", !.disbursement = approval[d].txn]]
  /\ approval' = [approval EXCEPT ![d].step = "done"]
  /\ UNCHANGED <<ledgerVars, call>>

\* The server stops between two commits of the handler.
AbandonApproval(d) ==
  /\ approval[d].step \in {"claimed", "paid", "refused"}
  /\ approval' = [approval EXCEPT ![d].step = "done"]
  /\ UNCHANGED <<ledgerVars, call, request>>

-----------------------------------------------------------------------------
(* POST /withdrawals/:id/reject: one database transaction                  *)

\* A variant: the hold stays.
RejectKeepingHold(r) ==
  /\ request[r].status = "pending"
  /\ request' = [request EXCEPT ![r].status = "rejected"]
  /\ UNCHANGED <<ledgerVars, call, approval>>

\* A variant: any request can be rejected.
RejectAnyRequest(r) ==
  /\ request[r].status # "none"
  /\ CancelHold(request[r].hold)
  /\ request' = [request EXCEPT ![r].status = "rejected"]
  /\ UNCHANGED <<call, approval>>

RejectRequest(r) ==
  /\ request[r].status = "pending"
  /\ CancelHold(request[r].hold)
  /\ request' = [request EXCEPT ![r].status = "rejected"]
  /\ UNCHANGED <<call, approval>>

-----------------------------------------------------------------------------
(* What others do to the same rows meanwhile                               *)

\* An administrator releases a transaction; the fraud engine, which hears of a
\* withdrawal only once it is posted, puts it under review; the customer is
\* frozen or unfrozen.
OtherLedgerStep ==
  /\ \/ \E t \in Txns : ReleaseTransaction(t)
     \/ \E t \in Txns : txnStatus[t] = "posted" /\ FlagTransaction(t)
     \/ \E as \in SUBSET Customers : FreezeAccounts(as) \/ UnfreezeAccounts(as)
  /\ UNCHANGED <<call, request, approval>>

-----------------------------------------------------------------------------

WithdrawalInit ==
  /\ Init
  /\ call = [c \in Calls |-> [step |-> "idle", account |-> NoAccount, amount |-> 0,
                              key |-> NoKey, hold |-> NoTxn]]
  /\ request = [r \in Calls |-> NoRequest]
  /\ approval = [d \in AdminCalls |-> [step |-> "idle", request |-> NoCall,
                                       txn |-> NoTxn, lost |-> FALSE]]

CustomerStep(c) ==
  \/ \E a \in Customers, n \in Amounts, k \in ClientKeys : Submit(c, a, n, k)
  \/ \E t \in Txns : PlaceHold(c, t) \/ FindHold(c, t)
  \/ InsertRequest(c)
  \/ AbandonCall(c)

ApprovalStepOf(d) ==
  \/ \E r \in Calls : ClaimRequest(d, r)
  \/ \E t \in Txns : Disburse(d, t) \/ FindDisbursement(d, t) \/ LoseDisbursement(d, t)
  \/ RefuseDisbursement(d)
  \/ RestorePending(d)
  \/ RecordDisbursed(d)
  \/ AbandonApproval(d)

WithdrawalNext ==
  \/ \E c \in Calls : CustomerStep(c)
  \/ \E d \in AdminCalls : ApprovalStepOf(d)
  \/ \E r \in Calls : RejectRequest(r)
  \/ OtherLedgerStep

WithdrawalSpec == WithdrawalInit /\ [][WithdrawalNext]_withdrawalVars

-----------------------------------------------------------------------------
(* Properties                                                              *)

WithdrawalTypeOK ==
  /\ TypeOK
  /\ call \in [Calls -> [step : CallStep, account : Accounts \cup {NoAccount},
                         amount : Amounts \cup {0}, key : ClientKeys \cup {NoKey},
                         hold : Txns \cup {NoTxn}]]
  /\ request \in [Calls -> [status : RequestStatus \cup {"none"},
                            account : Accounts \cup {NoAccount},
                            amount : Amounts \cup {0}, hold : Txns \cup {NoTxn},
                            disbursement : Txns \cup {NoTxn}]]
  /\ approval \in [AdminCalls -> [step : ApprovalStep, request : Calls \cup {NoCall},
                                  txn : Txns \cup {NoTxn}, lost : BOOLEAN]]

\* The disbursements posted on behalf of request r.
Disbursements(r) ==
  {t \in Txns : \/ idempotencyKey[t] = ApproveKey(r)
                \/ \E d \in AdminCalls : /\ approval[d].request = r
                                         /\ idempotencyKey[t] = ClickKey(d)}

\* A request that has been decided holds no money any more, whoever touched
\* its hold in between: a rejection gives the money back, an approval does so
\* before it pays.
DecidedHoldsNothing ==
  \A r \in Calls :
     request[r].status \in {"approved", "rejected", "disbursed"} =>
        \A side \in Sides : entries[request[r].hold][side].status # "pending"

\* A request that reads 'disbursed' was paid: the transaction it names moved
\* the requested amount from the requested account, also when an earlier call
\* had posted it and this one only found it under its key.
DisbursedIsPaid ==
  \A r \in Calls :
     request[r].status = "disbursed" =>
        /\ request[r].disbursement \in Disbursements(r)
        /\ entries[request[r].disbursement]["debit"] =
             [account |-> request[r].account, amount |-> request[r].amount,
              status |-> "posted"]

\* A request is paid twice in one case only: one call lost the answer to its
\* COMMIT, the request was approved again, and one of the two brought its own
\* key.  Calls that overlap, that fail or that stop half way never pay twice.
PaidOnceUnlessAnswerLost ==
  \A r \in Calls :
     LET of == {d \in AdminCalls : approval[d].request = r}
     IN Cardinality(Disbursements(r)) > 1 =>
          /\ \E d \in of : approval[d].lost
          /\ of \cap SendsKey # {}

\* A rejected request is never paid, before or after the rejection, except
\* that the answer to an earlier payment was lost.
RejectedIsUnpaid ==
  \A r \in Calls :
     request[r].status = "rejected" =>
        \/ Disbursements(r) = {}
        \/ \E d \in AdminCalls : approval[d].request = r /\ approval[d].lost

\* 'rejected' and 'disbursed' are final, although the handler writes the
\* status without looking at it in RestorePending and RecordDisbursed.
DecisionsFinal ==
  [][\A r \in Calls :
        request[r].status \in {"rejected", "disbursed"} =>
           request'[r] = request[r]]_withdrawalVars

\* SECURITY_ARCHITECTURE.md section 14.4: the replay of an idempotency key does
\* not debit twice.  Two requests that were placed under one key, for the same
\* account and amount, are not both paid.
ReplayPaysOnce ==
  \A r, q \in Calls :
     /\ request[r].status = "disbursed" /\ request[q].status = "disbursed"
     /\ request[r].hold = request[q].hold
     /\ request[r].account = request[q].account
     /\ request[r].amount = request[q].amount
     => r = q

\* openapi.yaml on POST /withdrawals/:id/approve: it "releases hold + posts
\* disbursement".  Once a request is disbursed, its hold has been given back
\* and has not taken the money as well.
DisbursedGaveHoldBack ==
  \A r \in Calls :
     request[r].status = "disbursed" =>
        entries[request[r].hold]["debit"].status = "released"

\* The ledger seen by itself goes through steps of module Ledger only, so
\* every property of the ledger holds while withdrawals run.
ImplementsLedger == Spec
=============================================================================
