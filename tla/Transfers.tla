----------------------------- MODULE Transfers -----------------------------
(***************************************************************************)
(* Transfers of one customer: the Move Money page with its forms and its  *)
(* PIN dialog (apps/web: pages/MoveMoney, Transfer, Wire), the handlers of *)
(* POST /transfers/internal, /ach and /wire/domestic, the single-use PINs  *)
(* an administrator issues, and the external accounts (apps/core-banking-  *)
(* api: routes/transfers, services/pin, routes/counterparties; apps/admin- *)
(* api: routes/pins).  What happens to a pending transfer later is in      *)
(* module Settlement.                                                      *)
(***************************************************************************)
EXTENDS Naturals, FiniteSets

CONSTANTS
    Requests,  \* requests that post a transfer, each used once
    Payees,    \* external accounts the customer may register
    NoPayee,
    MaxPins    \* bound: PINs issued

ASSUME TransferAssumption == MaxPins \in Nat /\ NoPayee \notin Payees

VARIABLES
    panel,     \* the panel of the Move Money page: tab, form, dialog, and the requests it waits for
    payees,    \* counterparties that are not deleted
    pins,      \* transfer_pins, in the order of created_at
    request,   \* the requests
    txn        \* the transaction of a request, and its ach_transfers or wire_transfers row

transferVars == <<panel, payees, pins, request, txn>>
-----------------------------------------------------------------------------
Kinds == {"internal", "ach", "wire"}
Purposes == Kinds \cup {"generic"}
PinIds == 1..MaxPins

(* due: expires_at of an active PIN has passed.                            *)
Pin == [status : {"none", "active", "consumed", "expired", "revoked"},
        purpose : Purposes, due : BOOLEAN]

(* typed: the PIN entered, 0 for digits of none, until they are verified;  *)
(* pin: the row consumePin chose; payee: until it is checked; "unposted":  *)
(* refused by postTransaction; "cut": ended by an error or a stop.         *)
Request == [step : {"unused", "sent", "checked", "chosen", "consumed", "posted", "queued",
                 "done", "refused", "unposted", "cut"},
         kind : Kinds, payee : Payees \cup {NoPayee}, typed : 0..MaxPins, pin : 0..MaxPins]

Txn == [status : {"none", "posted", "pending", "pending_review"}, pin : 0..MaxPins,
        queued : BOOLEAN]

Panel == [tab : Kinds, loading : BOOLEAN, listed : SUBSET Payees, payee : Payees \cup {NoPayee},
         filled : BOOLEAN, asks : BOOLEAN, waits : SUBSET Requests]

TransferTypeOK ==
    /\ panel \in Panel
    /\ payees \in SUBSET Payees
    /\ pins \in [PinIds -> Pin]
    /\ request \in [Requests -> Request]
    /\ txn \in [Requests -> Txn]

Ended == {"done", "refused", "unposted", "cut"}

(* A form that has just been mounted.                                      *)
Mounted(tab, loading) ==
    [tab |-> tab, loading |-> loading, listed |-> {}, payee |-> NoPayee, filled |-> FALSE,
     asks |-> FALSE, waits |-> {}]

TransferInit ==
    /\ panel = Mounted("internal", TRUE)
    /\ payees = {}
    /\ pins = [i \in PinIds |-> [status |-> "none", purpose |-> "generic", due |-> FALSE]]
    /\ request = [c \in Requests |-> [step |-> "unused", kind |-> "internal",
                                      payee |-> NoPayee, typed |-> 0, pin |-> 0]]
    /\ txn = [c \in Requests |-> [status |-> "none", pin |-> 0, queued |-> FALSE]]

Move(c, step) == request' = [request EXCEPT ![c] = [@ EXCEPT !.step = step]]

Refuse(c) ==
    request' = [request EXCEPT ![c] = [@ EXCEPT !.step = "refused", !.payee = NoPayee,
                                                !.typed = 0, !.pin = 0]]
-----------------------------------------------------------------------------
(* The page.  The answer of GET /accounts shows the panel; leaving a tab  *)
(* and a reload that a live event starts take it away with its form, and a *)
(* request it has sent goes on without it.                                 *)
AccountsLoaded ==
    /\ panel.loading
    /\ panel' = [panel EXCEPT !.loading = FALSE]
    /\ UNCHANGED <<payees, pins, request, txn>>

LiveReload ==
    /\ ~panel.loading
    /\ panel' = Mounted(IF panel.tab = "ach" THEN "internal" ELSE panel.tab, TRUE)
    /\ UNCHANGED <<payees, pins, request, txn>>

OpenTab(tab) ==
    /\ ~panel.loading /\ tab # panel.tab
    /\ panel' = Mounted(tab, FALSE)
    /\ UNCHANGED <<payees, pins, request, txn>>

(* The ACH tab lists, adds and removes the external accounts.              *)
LoadPayees ==
    /\ ~panel.loading /\ panel.tab = "ach"
    /\ panel' = [panel EXCEPT !.listed = payees]
    /\ UNCHANGED <<payees, pins, request, txn>>

AddPayee(y) ==
    /\ ~panel.loading /\ panel.tab = "ach" /\ y \notin payees
    /\ payees' = payees \cup {y}
    /\ UNCHANGED <<panel, pins, request, txn>>

(* DELETE /counterparties/:id sets deleted_at; a second one gets 404.      *)
RemovePayee(y) ==
    /\ ~panel.loading /\ panel.tab = "ach" /\ y \in panel.listed
    /\ payees' = payees \ {y}
    /\ UNCHANGED <<panel, pins, request, txn>>

(* The required fields of each form, all of them filled in.  The form for  *)
(* an ACH transfer asks for one of the external accounts it lists.         *)
Fill(tab, y) ==
    /\ ~panel.loading /\ panel.tab = tab /\ ~panel.filled /\ ~panel.asks
    /\ panel' = [panel EXCEPT !.filled = TRUE, !.payee = y]
    /\ UNCHANGED <<payees, pins, request, txn>>

FillInternal == Fill("internal", NoPayee)

FillAch == \E y \in panel.listed : Fill("ach", y)

FillWire == Fill("wire", NoPayee)

(* The submit button asks for the PIN; it is off while a request of the    *)
(* form is under way.                                                      *)
AskPin ==
    /\ ~panel.loading /\ panel.tab # "ach" /\ panel.filled /\ ~panel.asks /\ panel.waits = {}
    /\ panel' = [panel EXCEPT !.asks = TRUE]
    /\ UNCHANGED <<payees, pins, request, txn>>

(* Except in the ACH form, whose own "disabled" takes the place of the     *)
(* button's: it can be sent again meanwhile.                               *)
AskPinAch ==
    /\ ~panel.loading /\ panel.tab = "ach" /\ panel.filled /\ ~panel.asks /\ panel.listed # {}
    /\ panel' = [panel EXCEPT !.asks = TRUE]
    /\ UNCHANGED <<payees, pins, request, txn>>

CancelPin ==
    /\ panel.asks
    /\ panel' = [panel EXCEPT !.asks = FALSE]
    /\ UNCHANGED <<payees, pins, request, txn>>

(* Six digits: those of a PIN the customer was given, or others.           *)
ConfirmPin(c, i) ==
    /\ panel.asks /\ request[c].step = "unused"
    /\ i = 0 \/ i \in {j \in PinIds : pins[j].status # "none"}
    /\ panel' = [panel EXCEPT !.asks = FALSE, !.waits = @ \cup {c}]
    /\ request' = [request EXCEPT ![c] = [@ EXCEPT !.step = "sent", !.kind = panel.tab,
                                                   !.payee = panel.payee, !.typed = i]]
    /\ UNCHANGED <<payees, pins, txn>>

(* The form that sent the request shows its answer, and after a success    *)
(* asks for another amount; a form taken away meanwhile shows nothing.     *)
ShowAnswer(c) ==
    /\ c \in panel.waits /\ request[c].step \in Ended
    /\ panel' = [panel EXCEPT !.waits = @ \ {c},
                              !.filled = @ /\ request[c].step # "done"]
    /\ UNCHANGED <<payees, pins, request, txn>>
-----------------------------------------------------------------------------
(* The handlers.  What can be checked before the PIN is: the key of the    *)
(* request, the source account and the destination,                        *)
Checked(c, kind) ==
    /\ request[c].step = "sent" /\ request[c].kind = kind
    /\ request' = [request EXCEPT ![c] = [@ EXCEPT !.step = "checked", !.payee = NoPayee]]
    /\ UNCHANGED <<panel, payees, pins, txn>>

CheckInternal(c) == Checked(c, "internal")

(* for an ACH transfer the rails and the external account,                 *)
CheckAch(c) == request[c].payee \in payees /\ Checked(c, "ach")

(* and for a wire the rails.                                               *)
CheckWire(c) == Checked(c, "wire")

(* A variant of RefuseTransfer that checks once more behind the PIN.       *)
RefuseBehindPin(c) ==
    /\ request[c].step \in {"sent", "consumed"}
    /\ Refuse(c)
    /\ UNCHANGED <<panel, payees, pins, txn>>

(* Each may refuse: rails that are switched off, an account that is frozen *)
(* or unknown, an external account that was removed.  The status and the   *)
(* money of accounts are left to module Ledger.                            *)
RefuseTransfer(c) ==
    /\ request[c].step = "sent"
    /\ Refuse(c)
    /\ UNCHANGED <<panel, payees, pins, txn>>

(* The limiters of requests and of PIN attempts come before the handler.   *)
LimitTransfer(c) ==
    /\ request[c].step = "sent"
    /\ Refuse(c)
    /\ UNCHANGED <<panel, payees, pins, txn>>

Usable(c) == {i \in PinIds : pins[i].status = "active"
                              /\ pins[i].purpose \in {request[c].kind, "generic"}}

Newest(S) == {i \in S : \A j \in S : j <= i}

(* consumePin: the SELECT takes the newest active PIN for the purpose, and *)
(* waits while another transaction has the row locked.                     *)
ChoosePin(c) ==
    /\ request[c].step = "checked"
    /\ \/ /\ Usable(c) = {}
          /\ Refuse(c)
       \/ \E i \in Newest(Usable(c)) :
             request' = [request EXCEPT ![c] = [@ EXCEPT !.step = "chosen", !.pin = i]]
    /\ UNCHANGED <<panel, payees, pins, txn>>

Right(c) ==
    LET i == request[c].pin IN
    pins[i].status = "active" /\ ~pins[i].due /\ request[c].typed = i

(* A variant of ConsumePin that does not look at the row again.            *)
ConsumeUnlocked(c) ==
    /\ request[c].step = "chosen"
    /\ ~pins[request[c].pin].due /\ request[c].typed = request[c].pin
    /\ pins' = [pins EXCEPT ![request[c].pin] = [@ EXCEPT !.status = "consumed", !.due = FALSE]]
    /\ request' = [request EXCEPT ![c] = [@ EXCEPT !.step = "consumed", !.typed = 0]]
    /\ UNCHANGED <<panel, payees, txn>>

(* The locked row is looked at again: it is consumed if it is still active *)
(* and not due, and the digits are its own.                                *)
ConsumePin(c) ==
    /\ request[c].step = "chosen" /\ Right(c)
    /\ pins' = [pins EXCEPT ![request[c].pin] = [@ EXCEPT !.status = "consumed", !.due = FALSE]]
    /\ request' = [request EXCEPT ![c] = [@ EXCEPT !.step = "consumed", !.typed = 0]]
    /\ UNCHANGED <<panel, payees, txn>>

(* A row that is no longer active is no row at all; for one that is due,   *)
(* and for wrong digits, the UPDATE is rolled back by the error that ends  *)
(* the transaction, so neither the status nor the attempts change.         *)
RefusePin(c) ==
    /\ request[c].step = "chosen" /\ ~Right(c)
    /\ Refuse(c)
    /\ UNCHANGED <<panel, payees, pins, txn>>

(* postTransaction, with the PIN it was authorized by.                     *)
Posts(c, kind, status) ==
    /\ request[c].step = "consumed" /\ request[c].kind = kind
    /\ txn' = [txn EXCEPT ![c] = [@ EXCEPT !.status = status, !.pin = request[c].pin]]
    /\ Move(c, "posted")
    /\ UNCHANGED <<panel, payees, pins>>

PostInternal(c) == Posts(c, "internal", "posted")

PostAch(c) == Posts(c, "ach", "pending")

(* A variant of PostWire that takes the event's name for the status.       *)
PostWireFlagged(c) == \E s \in {"pending", "flagged"} : Posts(c, "wire", s)

(* From the review threshold on a wire is posted as pending_review.        *)
PostWire(c) == \E s \in {"pending", "pending_review"} : Posts(c, "wire", s)

(* Refused there: not enough money, or a source frozen since the check.    *)
RefusePosting(c) ==
    /\ request[c].step = "consumed"
    /\ Move(c, "unposted")
    /\ UNCHANGED <<panel, payees, pins, txn>>

(* After the transaction is committed: the INSERT into ach_transfers,      *)
Queue(c, kind, queued) ==
    /\ request[c].step = "posted" /\ request[c].kind = kind
    /\ txn' = [txn EXCEPT ![c] = [@ EXCEPT !.queued = queued]]
    /\ Move(c, "queued")
    /\ UNCHANGED <<panel, payees, pins>>

QueueAch(c) == Queue(c, "ach", TRUE)

(* A variant of QueueWire that leaves the row out.                         *)
ForgetWire(c) == Queue(c, "wire", FALSE)

(* or into wire_transfers.                                                 *)
QueueWire(c) == Queue(c, "wire", TRUE)

(* The audit record, the event and the answer.                             *)
Accept(c) ==
    /\ Move(c, "done")
    /\ UNCHANGED <<panel, payees, pins, txn>>

AnswerInternal(c) == request[c].step = "posted" /\ request[c].kind = "internal" /\ Accept(c)

AnswerExternal(c) == request[c].step = "queued" /\ Accept(c)

(* An error of the database or of a publisher, or the server stops: what   *)
(* is committed stays, and the panel is told that the transfer failed.     *)
CutTransfer(c) ==
    /\ request[c].step \notin {"unused"} \cup Ended
    /\ request' = [request EXCEPT ![c] = [@ EXCEPT
                   !.step = "cut", !.payee = NoPayee, !.typed = 0,
                   !.pin = IF request[c].step = "chosen" THEN 0 ELSE request[c].pin]]
    /\ UNCHANGED <<panel, payees, pins, txn>>
-----------------------------------------------------------------------------
(* POST /users/:userId/pins                                                *)
IssuePin(i, purpose) ==
    /\ pins[i].status = "none" /\ \A j \in PinIds : j < i => pins[j].status # "none"
    /\ pins' = [pins EXCEPT ![i] = [@ EXCEPT !.status = "active", !.purpose = purpose]]
    /\ UNCHANGED <<panel, payees, request, txn>>

(* POST /users/:userId/pins/:pinId/revoke                                  *)
RevokePin(i) ==
    /\ pins[i].status = "active"
    /\ pins' = [pins EXCEPT ![i] = [@ EXCEPT !.status = "revoked", !.due = FALSE]]
    /\ UNCHANGED <<panel, payees, request, txn>>

PinDue(i) ==
    /\ pins[i].status = "active" /\ ~pins[i].due
    /\ pins' = [pins EXCEPT ![i] = [@ EXCEPT !.due = TRUE]]
    /\ UNCHANGED <<panel, payees, request, txn>>

(* The scheduler's pinReaper.                                              *)
ReapPins ==
    /\ \E i \in PinIds : pins[i].status = "active" /\ pins[i].due
    /\ pins' = [i \in PinIds |->
                  IF pins[i].status = "active" /\ pins[i].due
                  THEN [pins[i] EXCEPT !.status = "expired", !.due = FALSE] ELSE pins[i]]
    /\ UNCHANGED <<panel, payees, request, txn>>
-----------------------------------------------------------------------------
TransferNext ==
    \/ AccountsLoaded \/ LiveReload \/ LoadPayees \/ FillInternal \/ FillAch \/ FillWire
    \/ AskPin \/ AskPinAch \/ CancelPin
    \/ \E tab \in Kinds : OpenTab(tab)
    \/ \E y \in Payees : AddPayee(y) \/ RemovePayee(y)
    \/ \E c \in Requests :
         \/ \E i \in 0..MaxPins : ConfirmPin(c, i)
         \/ ShowAnswer(c)
         \/ CheckInternal(c) \/ CheckAch(c) \/ CheckWire(c) \/ RefuseTransfer(c) \/ LimitTransfer(c)
         \/ ChoosePin(c) \/ ConsumePin(c) \/ RefusePin(c)
         \/ PostInternal(c) \/ PostAch(c) \/ PostWire(c) \/ RefusePosting(c)
         \/ QueueAch(c) \/ QueueWire(c) \/ AnswerInternal(c) \/ AnswerExternal(c)
         \/ CutTransfer(c)
    \/ \E i \in PinIds :
         \/ \E purpose \in Purposes : IssuePin(i, purpose)
         \/ RevokePin(i) \/ PinDue(i)
    \/ ReapPins

TransferSpec == TransferInit /\ [][TransferNext]_transferVars
-----------------------------------------------------------------------------
(* A PIN authorizes one transfer: a transaction names a PIN that is used   *)
(* up and was issued for its kind, and no two transactions name the same,  *)
(* although requests choose their PIN before they have it locked.          *)
OneTransferPerPin ==
    \A c \in Requests : txn[c].status # "none" =>
        /\ txn[c].pin \in PinIds
        /\ pins[txn[c].pin].status = "consumed"
        /\ pins[txn[c].pin].purpose \in {request[c].kind, "generic"}
        /\ \A d \in Requests : txn[d].status # "none" /\ txn[d].pin = txn[c].pin => d = c

(* A PIN is used up for nothing only where the posting itself refused, or  *)
(* where the handler did not get to its end: every check that can be made  *)
(* before comes before.                                                    *)
BurntPinExplained ==
    \A i \in PinIds : pins[i].status = "consumed" =>
        \E c \in Requests :
            /\ request[c].pin = i
            /\ request[c].step \in {"consumed", "unposted", "cut"} \/ txn[c].pin = i

(* A pending external transfer has the row the settlement works from,      *)
(* unless the handler is just about to insert it or was cut short there.   *)
PendingIsQueued ==
    \A c \in Requests :
        /\ txn[c].status \in {"pending", "pending_review"} =>
              txn[c].queued \/ request[c].step \in {"posted", "cut"}
        /\ txn[c].queued =>
              txn[c].status \in {"pending", "pending_review"} /\ request[c].kind # "internal"
=============================================================================
