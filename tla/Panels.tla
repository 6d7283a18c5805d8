------------------------------- MODULE Panels -------------------------------
(***************************************************************************)
(* The Withdraw and Deposit tabs of the Move Money page (apps/web:         *)
(* pages/MoveMoney, Withdraw, Deposit, hooks/useAccounts, useMutation) and *)
(* the handlers they call (apps/core-banking-api: POST and GET             *)
(* /withdrawals, GET /transactions).  Approval is in module Withdrawals,   *)
(* the tabs for transfers are in module Transfers.                         *)
(***************************************************************************)
EXTENDS FiniteSets

CONSTANTS
    Submissions,  \* requests POST /withdrawals, each used once
    Gets,         \* requests for a list under way at a time
    Accounts,     \* the customer's accounts
    First,        \* the one GET /accounts returns first
    NoAccount

ASSUME PanelAssumption == First \in Accounts /\ NoAccount \notin Accounts

VARIABLES
    tab,         \* the tab of the page, "loading" while GET /accounts is under way
    withdraw,    \* the Withdraw panel
    deposit,     \* the Deposit panel
    get,         \* its requests for lists
    submission   \* the requests for withdrawals

panelVars == <<tab, withdraw, deposit, get, submission>>
-----------------------------------------------------------------------------
Tabs == {"withdraw", "deposit"}

(* tried: what was sent from the form since it was filled in; told: what   *)
(* the panel has reported as accepted; error: the list could not be        *)
(* loaded; current: no other request was under way when the list was last  *)
(* asked for, and that request did not fail.                               *)
Withdraw == [filled : BOOLEAN, waits : SUBSET Submissions, tried : SUBSET Submissions,
             told : SUBSET Submissions, items : SUBSET Submissions, error : BOOLEAN,
             current : BOOLEAN]

Deposit == [selected : Accounts, recent : Accounts \cup {NoAccount}, current : BOOLEAN]

(* of: the account whose deposits are asked for, NoAccount for the list of *)
(* withdrawal requests.                                                    *)
Get == [step : {"unused", "sent", "answered"}, of : Accounts \cup {NoAccount},
        rows : SUBSET Submissions]

(* hold, row: the hold and the withdrawal_requests row are committed.      *)
(* "failed": ended by an error after the hold.  lost: the panel that sent  *)
(* it saw the connection fail.  after: sent from the same filling before.  *)
Submission == [step : {"unused", "sent", "held", "stored", "accepted", "refused", "failed"},
               hold : BOOLEAN, row : BOOLEAN, lost : BOOLEAN, after : SUBSET Submissions]

PanelTypeOK ==
    /\ tab \in [active : Tabs, loading : BOOLEAN]
    /\ withdraw \in Withdraw /\ deposit \in Deposit
    /\ get \in [Gets -> Get] /\ submission \in [Submissions -> Submission]

NoGet == [step |-> "unused", of |-> NoAccount, rows |-> {}]

NewWithdraw == [filled |-> FALSE, waits |-> {}, tried |-> {}, told |-> {}, items |-> {},
                error |-> FALSE, current |-> TRUE]

NewDeposit == [selected |-> First, recent |-> NoAccount, current |-> TRUE]

PanelInit ==
    /\ tab = [active |-> "withdraw", loading |-> TRUE]
    /\ withdraw = NewWithdraw /\ deposit = NewDeposit
    /\ get = [g \in Gets |-> NoGet]
    /\ submission = [s \in Submissions |-> [step |-> "unused", hold |-> FALSE, row |-> FALSE,
                                            lost |-> FALSE, after |-> {}]]

Shows(t) == tab.active = t /\ ~tab.loading

Asked(a) == [NoGet EXCEPT !.step = "sent", !.of = a]

Quiet == \A g \in Gets : get[g] = NoGet
-----------------------------------------------------------------------------
(* A panel is mounted with an empty form and asks for its list at once.    *)
(* What the panel before it waited for goes on without it.                 *)
Mount(t) ==
    /\ withdraw' = NewWithdraw /\ deposit' = NewDeposit
    /\ \E g \in Gets :
          get' = [x \in Gets |-> IF x # g THEN NoGet
                                 ELSE Asked(IF t = "deposit" THEN First ELSE NoAccount)]
    /\ UNCHANGED submission

AccountsArrive ==
    /\ tab.loading
    /\ tab' = [tab EXCEPT !.loading = FALSE]
    /\ Mount(tab.active)

(* An event about a balance starts a reload, which takes the panel away.   *)
ReloadAccounts ==
    /\ ~tab.loading
    /\ tab' = [tab EXCEPT !.loading = TRUE]
    /\ withdraw' = NewWithdraw /\ deposit' = NewDeposit
    /\ get' = [g \in Gets |-> NoGet]
    /\ UNCHANGED submission

SwitchTab(t) ==
    /\ tab.active # t
    /\ tab' = [tab EXCEPT !.active = t]
    /\ IF tab.loading THEN UNCHANGED <<withdraw, deposit, get, submission>> ELSE Mount(t)
-----------------------------------------------------------------------------
(* The Withdraw panel.  Its form is filled in, or filled in anew.          *)
FillWithdrawal ==
    /\ Shows("withdraw")
    /\ withdraw' = [withdraw EXCEPT !.filled = TRUE, !.tried = {}]
    /\ UNCHANGED <<tab, deposit, get, submission>>

(* A variant of SubmitWithdrawal: the button stays on while busy.          *)
SubmitAgain(s) ==
    /\ Shows("withdraw") /\ withdraw.filled
    /\ submission[s].step = "unused"
    /\ submission' = [submission EXCEPT ![s].step = "sent", ![s].after = withdraw.tried]
    /\ withdraw' = [withdraw EXCEPT !.waits = @ \cup {s}, !.tried = @ \cup {s}]
    /\ UNCHANGED <<tab, deposit, get>>

(* Every submission draws an Idempotency-Key of its own.                   *)
SubmitWithdrawal(s) ==
    /\ Shows("withdraw") /\ withdraw.filled /\ withdraw.waits = {}
    /\ submission[s].step = "unused"
    /\ submission' = [submission EXCEPT ![s].step = "sent", ![s].after = withdraw.tried]
    /\ withdraw' = [withdraw EXCEPT !.waits = {s}, !.tried = @ \cup {s}]
    /\ UNCHANGED <<tab, deposit, get>>

(* A variant of ShowAccepted: the list is not asked for again.             *)
ShowOnly(s, g) ==
    /\ s \in withdraw.waits /\ submission[s].step = "accepted"
    /\ get[g] = NoGet
    /\ withdraw' = [withdraw EXCEPT !.waits = @ \ {s}, !.filled = FALSE, !.told = @ \cup {s}]
    /\ UNCHANGED <<tab, deposit, get, submission>>

(* The answer empties the form and asks for the list again.                *)
ShowAccepted(s, g) ==
    /\ s \in withdraw.waits /\ submission[s].step = "accepted"
    /\ get[g] = NoGet
    /\ withdraw' = [withdraw EXCEPT !.waits = @ \ {s}, !.filled = FALSE, !.told = @ \cup {s},
                                    !.error = FALSE, !.current = Quiet]
    /\ get' = [get EXCEPT ![g] = Asked(NoAccount)]
    /\ UNCHANGED <<tab, deposit, submission>>

(* An error is shown, and the form stays as it was filled in.              *)
ShowError(s) ==
    /\ s \in withdraw.waits /\ submission[s].step \in {"refused", "failed"}
    /\ withdraw' = [withdraw EXCEPT !.waits = @ \ {s}]
    /\ UNCHANGED <<tab, deposit, get, submission>>

(* The connection fails; the handler, if it has the request, goes on.      *)
LoseAnswer(s) ==
    /\ s \in withdraw.waits
    /\ withdraw' = [withdraw EXCEPT !.waits = @ \ {s}]
    /\ submission' = [submission EXCEPT ![s].lost = TRUE]
    /\ UNCHANGED <<tab, deposit, get>>

(* "Try again", where the list could not be loaded.                        *)
RetryList(g) ==
    /\ withdraw.error /\ get[g] = NoGet
    /\ get' = [get EXCEPT ![g] = Asked(NoAccount)]
    /\ withdraw' = [withdraw EXCEPT !.error = FALSE, !.current = Quiet]
    /\ UNCHANGED <<tab, deposit, submission>>
-----------------------------------------------------------------------------
(* POST /withdrawals.  Refused by the limiter, the validation, the check   *)
(* of the account or postTransaction; or the hold is committed, then the   *)
(* row, and after the audit and the event the answer is sent.  An error in *)
(* between leaves what was committed.                                      *)
Advances(s, from, to) ==
    /\ submission[s].step = from
    /\ submission' = [submission EXCEPT
          ![s] = [@ EXCEPT !.step = to, !.hold = submission[s].hold \/ to = "held",
                                        !.row = submission[s].row \/ to = "stored"]]
    /\ UNCHANGED <<tab, withdraw, deposit, get>>

RefuseWithdrawal(s) == Advances(s, "sent", "refused")
HoldWithdrawal(s) == Advances(s, "sent", "held")
StoreWithdrawal(s) == Advances(s, "held", "stored")
AcceptWithdrawal(s) == Advances(s, "stored", "accepted")
FailWithdrawal(s) == Advances(s, "held", "failed") \/ Advances(s, "stored", "failed")
-----------------------------------------------------------------------------
(* The Deposit panel asks for the deposits of the account it has selected. *)
SelectAccount(a, g) ==
    /\ Shows("deposit") /\ deposit.selected # a /\ get[g] = NoGet
    /\ deposit' = [deposit EXCEPT !.selected = a, !.current = Quiet]
    /\ get' = [get EXCEPT ![g] = Asked(a)]
    /\ UNCHANGED <<tab, withdraw, submission>>
-----------------------------------------------------------------------------
(* GET /withdrawals lists the customer's rows; of the deposits it matters  *)
(* whose they are.                                                         *)
AnswerGet(g) ==
    /\ get[g].step = "sent"
    /\ get' = [get EXCEPT ![g].step = "answered",
                          ![g].rows = {s \in Submissions : get[g].of = NoAccount /\ submission[s].row}]
    /\ UNCHANGED <<tab, withdraw, deposit, submission>>

ShowList(g) ==
    /\ get[g].step = "answered"
    /\ IF get[g].of = NoAccount
       THEN withdraw' = [withdraw EXCEPT !.items = get[g].rows] /\ deposit' = deposit
       ELSE deposit' = [deposit EXCEPT !.recent = get[g].of] /\ withdraw' = withdraw
    /\ get' = [get EXCEPT ![g] = NoGet]
    /\ UNCHANGED <<tab, submission>>

FailGet(g) ==
    /\ get[g].step # "unused"
    /\ IF get[g].of = NoAccount
       THEN withdraw' = [withdraw EXCEPT !.error = TRUE, !.current = FALSE] /\ deposit' = deposit
       ELSE deposit' = [deposit EXCEPT !.current = FALSE] /\ withdraw' = withdraw
    /\ get' = [get EXCEPT ![g] = NoGet]
    /\ UNCHANGED <<tab, submission>>
-----------------------------------------------------------------------------
PanelNext ==
    \/ AccountsArrive \/ ReloadAccounts
    \/ \E t \in Tabs : SwitchTab(t)
    \/ FillWithdrawal
    \/ \E s \in Submissions :
          \/ SubmitWithdrawal(s) \/ ShowError(s) \/ LoseAnswer(s)
          \/ \E g \in Gets : ShowAccepted(s, g)
          \/ RefuseWithdrawal(s) \/ HoldWithdrawal(s) \/ StoreWithdrawal(s)
          \/ AcceptWithdrawal(s) \/ FailWithdrawal(s)
    \/ \E g \in Gets :
          \/ RetryList(g) \/ AnswerGet(g) \/ ShowList(g) \/ FailGet(g)
          \/ \E a \in Accounts : SelectAccount(a, g)

PanelSpec == PanelInit /\ [][PanelNext]_panelVars
-----------------------------------------------------------------------------
(* What was filled in once is held twice only if the customer saw an error *)
(* or a broken connection in between: neither a second click nor an answer *)
(* that takes long does it, although every submission has a new key.       *)
HeldAgainOnlyAfterError ==
    \A s \in Submissions : submission[s].hold =>
        \A p \in submission[s].after :
            submission[p].hold => submission[p].lost \/ submission[p].step = "failed"

(* With nothing under way, and unless two requests for the same list have  *)
(* met, the Withdraw panel lists what it has reported as accepted, and the *)
(* Deposit panel shows the deposits of the account it names.               *)
PanelsAreCurrent ==
    Quiet =>
        /\ Shows("withdraw") /\ withdraw.current => withdraw.told \subseteq withdraw.items
        /\ Shows("deposit") /\ deposit.current => deposit.recent = deposit.selected
=============================================================================
