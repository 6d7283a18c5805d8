--------------------------- MODULE MoveMoneyProofs ---------------------------
(***************************************************************************)
(* Proofs about the Move Money page and the handlers behind it: transfers  *)
(* and their PINs (module Transfers), the Withdraw panel (module Panels).  *)
(* At the end, the three parts of a customer's side put side by side as    *)
(* the run of MCCustomers explores them.                                   *)
(***************************************************************************)
EXTENDS MCCustomers, SessionProofs

\* A request that has consumed a PIN names it for good.
Spent(c) == request[c].pin # 0 /\ request[c].step # "chosen"

FitsPin(c) ==
    /\ request[c].pin \in PinIds
    /\ pins[request[c].pin].purpose \in {request[c].kind, "generic"}

\* What a request has behind it at each step.
RequestKnows(c) ==
    /\ request[c].step \in {"unused", "sent", "checked", "refused"} => request[c].pin = 0
    /\ request[c].step \in {"consumed", "posted", "queued", "done", "unposted"} => request[c].pin # 0
    /\ request[c].step = "chosen" => FitsPin(c) /\ pins[request[c].pin].status # "none"
    /\ Spent(c) => FitsPin(c) /\ pins[request[c].pin].status = "consumed"

\* What its transaction and the row beside it say.
TxnKnows(c) ==
    /\ request[c].step \in {"posted", "queued", "done"} => txn[c].status # "none"
    /\ txn[c].status # "none" =>
          /\ request[c].step \in {"posted", "queued", "done", "cut"}
          /\ txn[c].pin = request[c].pin /\ request[c].pin # 0
    /\ txn[c].status = "posted" => request[c].kind = "internal"
    /\ txn[c].status \in {"pending", "pending_review"} =>
          /\ request[c].kind # "internal"
          /\ txn[c].queued \/ request[c].step \in {"posted", "cut"}
    /\ txn[c].queued => txn[c].status \in {"pending", "pending_review"}

SpentOnce ==
    \A b, c \in Requests : Spent(b) /\ Spent(c) /\ request[b].pin = request[c].pin => b = c

\* A consumed PIN was consumed by one of the requests.
ConsumedByRequest ==
    \A i \in PinIds : pins[i].status = "consumed" =>
        \E c \in Requests : Spent(c) /\ request[c].pin = i

PinInv ==
    /\ \A c \in Requests : RequestKnows(c) /\ TxnKnows(c)
    /\ SpentOnce /\ ConsumedByRequest

TransferInv == TransferTypeOK /\ PinInv

-----------------------------------------------------------------------------
(* Types                                                                   *)

LEMMA TransferInitType ==
  ASSUME TransferInit PROVE TransferTypeOK
  BY TransferAssumption
     DEF TransferInit, TransferTypeOK, Mounted, Panel, Pin, Request, Txn, Kinds, Purposes, PinIds

\* The steps of the page; ConfirmPin, which sends a request, is one of them.
LEMMA PageType ==
  ASSUME TransferTypeOK,
         \/ AccountsLoaded \/ LiveReload \/ LoadPayees \/ FillInternal \/ FillAch \/ FillWire
         \/ AskPin \/ AskPinAch \/ CancelPin
         \/ \E kind \in Kinds : OpenTab(kind)
         \/ \E y \in Payees : AddPayee(y) \/ RemovePayee(y)
         \/ \E c \in Requests : ShowAnswer(c)
  PROVE  TransferTypeOK'
<1> USE DEF TransferTypeOK
<1>1. ASSUME NEW kind \in Kinds, NEW loading \in BOOLEAN
      PROVE  Mounted(kind, loading) \in Panel
  BY DEF Mounted, Panel
<1>2. AccountsLoaded => TransferTypeOK'
  BY DEF AccountsLoaded, Panel
<1>3. LiveReload => TransferTypeOK'
  <2> DEFINE k == IF panel.tab = "ach" THEN "internal" ELSE panel.tab
  <2>1. k \in Kinds
    BY DEF Panel, Kinds
  <2>2. Mounted(k, TRUE) \in Panel
    BY <1>1, <2>1
  <2> QED
    BY <2>2 DEF LiveReload
<1>4. ASSUME NEW kind \in Kinds PROVE OpenTab(kind) => TransferTypeOK'
  BY <1>1 DEF OpenTab
<1>5. LoadPayees => TransferTypeOK'
  BY DEF LoadPayees, Panel
<1>6. ASSUME NEW y \in Payees PROVE AddPayee(y) \/ RemovePayee(y) => TransferTypeOK'
  BY DEF AddPayee, RemovePayee
<1>7. ASSUME NEW y \in Payees \cup {NoPayee}, NEW kind, Fill(kind, y) PROVE TransferTypeOK'
  BY <1>7 DEF Fill, Panel
<1>8. FillInternal \/ FillAch \/ FillWire => TransferTypeOK'
  BY <1>7 DEF FillInternal, FillAch, FillWire, Panel
<1>9. AskPin \/ AskPinAch \/ CancelPin => TransferTypeOK'
  BY DEF AskPin, AskPinAch, CancelPin, Panel
<1>10. ASSUME NEW c \in Requests PROVE ShowAnswer(c) => TransferTypeOK'
  <2> DEFINE keeps == panel.filled /\ request[c].step # "done"
  <2>1. keeps \in BOOLEAN
    OBVIOUS
  <2>2. ShowAnswer(c) => panel' = [panel EXCEPT !.waits = @ \ {c}, !.filled = keeps]
    BY DEF ShowAnswer
  <2> HIDE DEF keeps
  <2>3. [panel EXCEPT !.waits = @ \ {c}, !.filled = keeps] \in Panel
    BY <2>1 DEF Panel
  <2> QED
    BY <2>2, <2>3 DEF ShowAnswer
<1> QED
  BY <1>2, <1>3, <1>4, <1>5, <1>6, <1>8, <1>9, <1>10

LEMMA ZeroPin == 0 \in 0..MaxPins
  BY TransferAssumption

LEMMA RequestSet ==
  ASSUME NEW r \in Request, NEW step \in {"consumed", "refused", "cut"},
         NEW digits \in 0..MaxPins, NEW i \in 0..MaxPins
  PROVE  /\ [r EXCEPT !.step = step, !.payee = NoPayee, !.typed = digits, !.pin = i] \in Request
         /\ [r EXCEPT !.step = step, !.typed = digits] \in Request
  BY DEF Request

LEMMA RefuseType ==
  ASSUME TransferTypeOK, NEW c \in Requests, Refuse(c)
  PROVE  request' \in [Requests -> Request]
<1>1. \A b \in Requests : request[b] \in Request
  BY DEF TransferTypeOK
<1>2. [request[c] EXCEPT !.step = "refused", !.payee = NoPayee, !.typed = 0, !.pin = 0] \in Request
  BY <1>1, RequestSet, ZeroPin, Zenon
<1> QED
  BY <1>2 DEF Refuse, TransferTypeOK

LEMMA MoveType ==
  ASSUME TransferTypeOK, NEW c \in Requests,
         NEW step \in {"posted", "queued", "done", "unposted"}, Move(c, step)
  PROVE  request' \in [Requests -> Request]
<1>1. \A b \in Requests : request[b] \in Request
  BY DEF TransferTypeOK
<1> QED
  BY <1>1 DEF Move, Request, TransferTypeOK

LEMMA TransferNextType ==
  ASSUME TransferTypeOK, [TransferNext]_transferVars
  PROVE  TransferTypeOK'
<1> USE TransferAssumption DEF TransferTypeOK
<1>0. /\ \A c \in Requests : request[c] \in Request /\ txn[c] \in Txn
      /\ \A i \in PinIds : pins[i] \in Pin
      /\ panel \in Panel
  OBVIOUS
<1>1. ASSUME NEW c \in Requests, NEW i \in 0..MaxPins, ConfirmPin(c, i) PROVE TransferTypeOK'
  <2>1. panel' \in Panel
    BY <1>0, <1>1 DEF ConfirmPin, Panel
  <2>2. panel.tab \in Kinds /\ panel.payee \in Payees \cup {NoPayee}
    BY <1>0 DEF Panel
  <2>3. request' \in [Requests -> Request]
    BY <1>0, <1>1, <2>2 DEF ConfirmPin, Request
  <2> QED
    BY <1>1, <2>1, <2>3 DEF ConfirmPin
<1>2. ASSUME NEW c \in Requests, CheckInternal(c) \/ CheckAch(c) \/ CheckWire(c)
      PROVE  TransferTypeOK'
  <2>1. [request[c] EXCEPT !.step = "checked", !.payee = NoPayee] \in Request
    BY <1>0 DEF Request
  <2>2. request' \in [Requests -> Request]
    BY <1>2, <2>1 DEF CheckInternal, CheckAch, CheckWire, Checked
  <2> QED
    BY <1>2, <2>2 DEF CheckInternal, CheckAch, CheckWire, Checked
<1>3. ASSUME NEW c \in Requests, RefuseTransfer(c) \/ LimitTransfer(c) \/ RefusePin(c)
      PROVE  TransferTypeOK'
  <2>1. request' \in [Requests -> Request]
    BY <1>3, RefuseType DEF RefuseTransfer, LimitTransfer, RefusePin
  <2> QED
    BY <1>3, <2>1 DEF RefuseTransfer, LimitTransfer, RefusePin
<1>4. ASSUME NEW c \in Requests, ChoosePin(c) PROVE TransferTypeOK'
  <2>1. ASSUME Refuse(c) PROVE request' \in [Requests -> Request]
    BY <2>1, RefuseType
  <2>2. ASSUME NEW i \in PinIds,
               request' = [request EXCEPT ![c] = [@ EXCEPT !.step = "chosen", !.pin = i]]
        PROVE  request' \in [Requests -> Request]
    <3>1. i \in 0..MaxPins
      BY DEF PinIds
    <3> QED
      BY <1>0, <2>2, <3>1 DEF Request
  <2>3. Newest(Usable(c)) \subseteq PinIds
    BY DEF Newest, Usable
  <2>4. request' \in [Requests -> Request]
    BY <1>4, <2>1, <2>2, <2>3 DEF ChoosePin
  <2> QED
    BY <1>4, <2>4 DEF ChoosePin
<1>5. ASSUME NEW c \in Requests, ConsumePin(c) PROVE TransferTypeOK'
  <2>0. [request[c] EXCEPT !.step = "consumed", !.typed = 0] \in Request
    BY <1>0, RequestSet, ZeroPin, Zenon
  <2>1. request' \in [Requests -> Request]
    BY <1>5, <2>0 DEF ConsumePin
  <2>2. pins' \in [PinIds -> Pin]
    BY <1>0, <1>5 DEF ConsumePin, Pin
  <2> QED
    BY <1>5, <2>1, <2>2 DEF ConsumePin
<1>6. ASSUME NEW c \in Requests, NEW kind, NEW status \in {"posted", "pending", "pending_review"},
             Posts(c, kind, status)
      PROVE  TransferTypeOK'
  <2>1. request' \in [Requests -> Request]
    BY <1>6, MoveType DEF Posts
  <2>2. request[c].pin \in 0..MaxPins
    BY <1>0 DEF Request
  <2>3. txn' \in [Requests -> Txn]
    BY <1>0, <1>6, <2>2 DEF Posts, Txn
  <2> QED
    BY <1>6, <2>1, <2>3 DEF Posts
<1>7. ASSUME NEW c \in Requests, NEW kind, Queue(c, kind, TRUE) PROVE TransferTypeOK'
  <2>1. request' \in [Requests -> Request]
    BY <1>7, MoveType DEF Queue
  <2>2. txn' \in [Requests -> Txn]
    BY <1>0, <1>7 DEF Queue, Txn
  <2> QED
    BY <1>7, <2>1, <2>2 DEF Queue
<1>8. ASSUME NEW c \in Requests, RefusePosting(c) \/ AnswerInternal(c) \/ AnswerExternal(c)
      PROVE  TransferTypeOK'
  <2>1. request' \in [Requests -> Request]
    BY <1>8, MoveType DEF RefusePosting, AnswerInternal, AnswerExternal, Accept
  <2> QED
    BY <1>8, <2>1 DEF RefusePosting, AnswerInternal, AnswerExternal, Accept
<1>9. ASSUME NEW c \in Requests, CutTransfer(c) PROVE TransferTypeOK'
  <2> DEFINE pin == IF request[c].step = "chosen" THEN 0 ELSE request[c].pin
  <2>1. pin \in 0..MaxPins
    BY <1>0 DEF Request
  <2>2. request' = [request EXCEPT ![c] = [@ EXCEPT
                      !.step = "cut", !.payee = NoPayee, !.typed = 0, !.pin = pin]]
    BY <1>9 DEF CutTransfer
  <2> HIDE DEF pin
  <2>3. [request[c] EXCEPT !.step = "cut", !.payee = NoPayee, !.typed = 0, !.pin = pin] \in Request
    BY <1>0, <2>1, RequestSet, ZeroPin, Zenon
  <2>4. request' \in [Requests -> Request]
    BY <2>2, <2>3
  <2> QED
    BY <1>9, <2>4 DEF CutTransfer
<1>10. ASSUME NEW i \in PinIds, NEW purpose \in Purposes,
              IssuePin(i, purpose) \/ RevokePin(i) \/ PinDue(i)
       PROVE  TransferTypeOK'
  <2>0. /\ [pins[i] EXCEPT !.status = "active", !.purpose = purpose] \in Pin
        /\ [pins[i] EXCEPT !.status = "revoked", !.due = FALSE] \in Pin
        /\ [pins[i] EXCEPT !.due = TRUE] \in Pin
    BY <1>0 DEF Pin
  <2>1. pins' \in [PinIds -> Pin]
    BY <1>10, <2>0 DEF IssuePin, RevokePin, PinDue
  <2> QED
    BY <1>10, <2>1 DEF IssuePin, RevokePin, PinDue
<1>11. ASSUME ReapPins PROVE TransferTypeOK'
  <2>1. \A i \in PinIds : [pins[i] EXCEPT !.status = "expired", !.due = FALSE] \in Pin
    BY <1>0 DEF Pin
  <2>2. pins' \in [PinIds -> Pin]
    BY <1>0, <1>11, <2>1 DEF ReapPins
  <2> QED
    BY <1>11, <2>2 DEF ReapPins
<1>12. ASSUME NEW c \in Requests, PostInternal(c) \/ PostAch(c) \/ PostWire(c)
       PROVE  TransferTypeOK'
  BY <1>6, <1>12 DEF PostInternal, PostAch, PostWire
<1>13. ASSUME NEW c \in Requests, QueueAch(c) \/ QueueWire(c) PROVE TransferTypeOK'
  BY <1>7, <1>13 DEF QueueAch, QueueWire
<1>14. "generic" \in Purposes
  BY DEF Purposes
<1>15. UNCHANGED transferVars => TransferTypeOK'
  BY DEF transferVars
<1> QED
  BY <1>1, <1>2, <1>3, <1>4, <1>5, <1>8, <1>9, <1>10, <1>11, <1>12, <1>13, <1>14, <1>15, PageType
     DEF TransferNext

-----------------------------------------------------------------------------
(* PINs and the requests that use them                                     *)

\* Nobody but request c does anything, and c neither takes nor drops a PIN.
LEMMA RequestStep ==
  ASSUME TransferInv, NEW c \in Requests, pins' = pins,
         \A b \in Requests : b # c => request'[b] = request[b] /\ txn'[b] = txn[b],
         RequestKnows(c)', TxnKnows(c)',
         Spent(c)' <=> Spent(c),
         Spent(c) => request'[c].pin = request[c].pin
  PROVE  PinInv'
<1> USE DEF TransferInv, PinInv
<1>1. \A b \in Requests : RequestKnows(b)' /\ TxnKnows(b)'
  BY DEF RequestKnows, TxnKnows, FitsPin, Spent
<1>2. SpentOnce' /\ ConsumedByRequest'
  BY DEF SpentOnce, ConsumedByRequest, Spent
<1> QED
  BY <1>1, <1>2

\* An administrator or the reaper changes PINs: no PIN that was handed out
\* changes its purpose, none is handed out or consumed again.
LEMMA PinStep ==
  ASSUME TransferInv, request' = request, txn' = txn,
         \A i \in PinIds :
            /\ pins'[i].status = "consumed" <=> pins[i].status = "consumed"
            /\ pins[i].status # "none" =>
                  pins'[i].status # "none" /\ pins'[i].purpose = pins[i].purpose
  PROVE  PinInv'
<1> USE DEF TransferInv, PinInv
<1>1. \A c \in Requests : RequestKnows(c)' /\ TxnKnows(c)'
  BY DEF RequestKnows, TxnKnows, FitsPin, Spent
<1>2. SpentOnce' /\ ConsumedByRequest'
  BY DEF SpentOnce, ConsumedByRequest, Spent
<1> QED
  BY <1>1, <1>2

LEMMA TransferInitInv ==
  ASSUME TransferInit PROVE TransferInv
<1>1. \A c \in Requests : RequestKnows(c) /\ TxnKnows(c) /\ ~Spent(c)
  BY DEF TransferInit, RequestKnows, TxnKnows, Spent
<1>2. SpentOnce /\ ConsumedByRequest
  BY <1>1 DEF TransferInit, SpentOnce, ConsumedByRequest
<1> QED
  BY <1>1, <1>2, TransferInitType DEF TransferInv, PinInv

LEMMA TransferNextInv ==
  ASSUME TransferInv, [TransferNext]_transferVars
  PROVE  TransferInv'
<1> USE TransferAssumption DEF TransferInv
<1>0. TransferTypeOK'
  BY TransferNextType
<1>t. /\ \A c \in Requests : request[c] \in Request /\ txn[c] \in Txn
      /\ request \in [Requests -> Request] /\ txn \in [Requests -> Txn] /\ pins \in [PinIds -> Pin]
  BY DEF TransferTypeOK
<1>k. \A c \in Requests : RequestKnows(c) /\ TxnKnows(c)
  BY DEF PinInv
<1>1. ASSUME UNCHANGED <<pins, request, txn>> PROVE PinInv'
  BY <1>1, PinStep
<1>2. ASSUME NEW c \in Requests, NEW i \in 0..MaxPins, ConfirmPin(c, i) PROVE PinInv'
  <2>1. /\ request'[c].step = "sent" /\ request'[c].pin = 0 /\ txn' = txn /\ pins' = pins
        /\ request[c].step = "unused" /\ request[c].pin = 0
        /\ \A b \in Requests : b # c => request'[b] = request[b]
    BY <1>t, <1>k, <1>2 DEF ConfirmPin, Request, RequestKnows
  <2> QED
    BY <1>k, <2>1, RequestStep DEF RequestKnows, TxnKnows, Spent
<1>3. ASSUME NEW c \in Requests, Refuse(c), UNCHANGED <<pins, txn>>,
             request[c].step \in {"sent", "checked", "chosen"}
      PROVE  PinInv'
  <2>1. /\ request'[c].step = "refused" /\ request'[c].pin = 0
        /\ \A b \in Requests : b # c => request'[b] = request[b]
    BY <1>t, <1>3 DEF Refuse, Request
  <2>2. ~Spent(c) /\ txn[c].status = "none" /\ ~txn[c].queued
    BY <1>k, <1>3 DEF RequestKnows, TxnKnows, Spent
  <2> QED
    BY <1>k, <1>3, <2>1, <2>2, RequestStep DEF RequestKnows, TxnKnows, Spent
<1>4. ASSUME NEW c \in Requests, NEW kind, Checked(c, kind) PROVE PinInv'
  <2>1. /\ request'[c].step = "checked" /\ request'[c].pin = request[c].pin
        /\ request[c].step = "sent" /\ txn' = txn /\ pins' = pins
        /\ \A b \in Requests : b # c => request'[b] = request[b]
    BY <1>t, <1>4 DEF Checked, Request
  <2> QED
    BY <1>k, <2>1, RequestStep DEF RequestKnows, TxnKnows, Spent
<1>5. ASSUME NEW c \in Requests, ChoosePin(c) PROVE PinInv'
  <2>1. CASE Refuse(c)
    BY <1>3, <1>5, <2>1 DEF ChoosePin
  <2>2. CASE ~Refuse(c)
    <3>1. PICK i \in Newest(Usable(c)) :
             request' = [request EXCEPT ![c] = [@ EXCEPT !.step = "chosen", !.pin = i]]
      BY <1>5, <2>2 DEF ChoosePin
    <3>2. /\ i \in PinIds /\ pins[i].status = "active"
          /\ pins[i].purpose \in {request[c].kind, "generic"}
      BY DEF Newest, Usable
    <3>3. /\ request'[c].step = "chosen" /\ request'[c].pin = i
          /\ request'[c].kind = request[c].kind
          /\ \A b \in Requests : b # c => request'[b] = request[b]
      BY <1>t, <3>1 DEF Request
    <3>4. request[c].step = "checked" /\ txn' = txn /\ pins' = pins /\ request[c].pin = 0
      BY <1>k, <1>5 DEF ChoosePin, RequestKnows
    <3>5. RequestKnows(c)' /\ TxnKnows(c)'
      BY <1>k, <3>2, <3>3, <3>4 DEF RequestKnows, TxnKnows, Spent, FitsPin
    <3>6. ~Spent(c) /\ ~Spent(c)'
      BY <3>3, <3>4 DEF Spent
    <3> QED
      BY <3>3, <3>4, <3>5, <3>6, RequestStep
  <2> QED
    BY <2>1, <2>2
<1>6. ASSUME NEW c \in Requests, ConsumePin(c) PROVE PinInv'
  <2> DEFINE i == request[c].pin
  <2>1. /\ i \in PinIds /\ pins[i].status = "active" /\ i # 0
        /\ pins[i].purpose \in {request[c].kind, "generic"}
    BY <1>k, <1>6 DEF ConsumePin, Right, RequestKnows, FitsPin, PinIds
  <2>2. /\ request'[c].step = "consumed" /\ request'[c].pin = i
        /\ request'[c].kind = request[c].kind /\ request[c].step = "chosen" /\ txn' = txn
        /\ \A b \in Requests : b # c => request'[b] = request[b]
    BY <1>t, <1>6 DEF ConsumePin, Request
  <2>3. /\ pins'[i].status = "consumed" /\ pins'[i].purpose = pins[i].purpose
        /\ \A j \in PinIds : j # i => pins'[j] = pins[j]
    BY <1>t, <1>6, <2>1 DEF ConsumePin, Pin
  <2> HIDE DEF i
  <2>4. RequestKnows(c)' /\ TxnKnows(c)' /\ Spent(c)'
    BY <1>k, <2>1, <2>2, <2>3 DEF RequestKnows, TxnKnows, Spent, FitsPin
  <2>5. ASSUME NEW b \in Requests, b # c
        PROVE  /\ RequestKnows(b)' /\ TxnKnows(b)'
               /\ Spent(b)' <=> Spent(b)
               /\ Spent(b) => request[b].pin # i
    BY <1>k, <2>1, <2>2, <2>3, <2>5 DEF RequestKnows, TxnKnows, Spent, FitsPin
  <2>6. SpentOnce'
    BY <2>2, <2>5 DEF PinInv, SpentOnce
  <2>7. ConsumedByRequest'
    <3>1. ~Spent(c)
      BY <2>2 DEF Spent
    <3>2. ASSUME NEW j \in PinIds, pins'[j].status = "consumed"
          PROVE  \E b \in Requests : Spent(b)' /\ request'[b].pin = j
      <4>1. CASE j = i
        BY <2>2, <2>4, <4>1
      <4>2. CASE j # i
        <5>1. PICK b \in Requests : Spent(b) /\ request[b].pin = j
          BY <2>3, <3>2, <4>2 DEF PinInv, ConsumedByRequest
        <5> QED
          BY <2>2, <2>5, <3>1, <5>1
      <4> QED
        BY <4>1, <4>2
    <3> QED
      BY <3>2 DEF ConsumedByRequest
  <2> QED
    BY <2>4, <2>5, <2>6, <2>7 DEF PinInv
<1>7. ASSUME NEW c \in Requests, NEW kind, NEW status \in {"posted", "pending", "pending_review"},
             status = "posted" <=> kind = "internal", Posts(c, kind, status)
      PROVE  PinInv'
  <2>1. /\ request'[c].step = "posted" /\ request'[c].pin = request[c].pin
        /\ request'[c].kind = request[c].kind /\ request[c].kind = kind
        /\ request[c].step = "consumed" /\ pins' = pins
        /\ txn'[c].status = status /\ txn'[c].pin = request[c].pin
        /\ txn'[c].queued = txn[c].queued
        /\ \A b \in Requests : b # c => request'[b] = request[b] /\ txn'[b] = txn[b]
    BY <1>t, <1>7 DEF Posts, Move, Request, Txn
  <2>2. RequestKnows(c)' /\ TxnKnows(c)'
    BY <1>k, <1>7, <2>1 DEF RequestKnows, TxnKnows, Spent, FitsPin
  <2>3. Spent(c)' <=> Spent(c)
    BY <2>1 DEF Spent
  <2> QED
    BY <2>1, <2>2, <2>3, RequestStep
<1>8. ASSUME NEW c \in Requests, NEW kind, kind # "internal", Queue(c, kind, TRUE) PROVE PinInv'
  <2>1. /\ request'[c].step = "queued" /\ request'[c].pin = request[c].pin
        /\ request'[c].kind = request[c].kind /\ request[c].kind = kind
        /\ request[c].step = "posted" /\ pins' = pins
        /\ txn'[c].status = txn[c].status /\ txn'[c].pin = txn[c].pin
        /\ \A b \in Requests : b # c => request'[b] = request[b] /\ txn'[b] = txn[b]
    BY <1>t, <1>8 DEF Queue, Move, Request, Txn
  <2>q. txn'[c].queued
    BY <1>t, <1>8 DEF Queue
  <2>2. RequestKnows(c)' /\ TxnKnows(c)'
    <3>1. txn[c].status \in {"pending", "pending_review"}
      BY <1>k, <1>t, <1>8, <2>1 DEF TxnKnows, Txn
    <3> QED
      BY <1>k, <1>8, <2>1, <2>q, <3>1 DEF RequestKnows, TxnKnows, Spent, FitsPin
  <2>3. Spent(c)' <=> Spent(c)
    BY <2>1 DEF Spent
  <2> QED
    BY <2>1, <2>2, <2>3, RequestStep
<1>9. ASSUME NEW c \in Requests, RefusePosting(c) \/ AnswerInternal(c) \/ AnswerExternal(c)
      PROVE  PinInv'
  <2>1. /\ \/ request[c].step = "consumed" /\ request'[c].step = "unposted"
           \/ /\ request[c].step = "posted" /\ request[c].kind = "internal"
              /\ request'[c].step = "done"
           \/ request[c].step = "queued" /\ request'[c].step = "done"
        /\ request'[c].pin = request[c].pin /\ request'[c].kind = request[c].kind
        /\ pins' = pins /\ txn' = txn
        /\ \A b \in Requests : b # c => request'[b] = request[b]
    BY <1>t, <1>9 DEF RefusePosting, AnswerInternal, AnswerExternal, Accept, Move, Request
  <2>2. RequestKnows(c)'
    BY <1>k, <2>1 DEF RequestKnows, Spent, FitsPin
  <2>3. TxnKnows(c)'
    BY <1>k, <2>1 DEF TxnKnows
  <2>4. Spent(c)' <=> Spent(c)
    BY <2>1 DEF Spent
  <2> QED
    BY <2>1, <2>2, <2>3, <2>4, RequestStep
<1>10. ASSUME NEW c \in Requests, CutTransfer(c) PROVE PinInv'
  <2>1. /\ request'[c].step = "cut" /\ request'[c].kind = request[c].kind
        /\ request'[c].pin = IF request[c].step = "chosen" THEN 0 ELSE request[c].pin
        /\ request[c].step \notin {"unused", "done", "refused", "unposted", "cut"}
        /\ pins' = pins /\ txn' = txn
        /\ \A b \in Requests : b # c => request'[b] = request[b]
    BY <1>t, <1>10 DEF CutTransfer, Ended, Request
  <2>2. RequestKnows(c)'
    BY <1>k, <2>1 DEF RequestKnows, Spent, FitsPin
  <2>3. TxnKnows(c)'
    BY <1>k, <2>1 DEF TxnKnows
  <2>4. /\ Spent(c)' <=> Spent(c)
        /\ Spent(c) => request'[c].pin = request[c].pin
    BY <2>1 DEF Spent
  <2> QED
    BY <2>1, <2>2, <2>3, <2>4, RequestStep
<1>11. ASSUME NEW i \in PinIds, NEW purpose \in Purposes,
              IssuePin(i, purpose) \/ RevokePin(i) \/ PinDue(i)
       PROVE  PinInv'
  <2>1. /\ pins'[i].status = "consumed" <=> pins[i].status = "consumed"
        /\ pins[i].status # "none" =>
              pins'[i].status # "none" /\ pins'[i].purpose = pins[i].purpose
        /\ \A j \in PinIds : j # i => pins'[j] = pins[j]
    BY <1>t, <1>11 DEF IssuePin, RevokePin, PinDue, Pin
  <2>2. request' = request /\ txn' = txn
    BY <1>11 DEF IssuePin, RevokePin, PinDue
  <2> QED
    BY <2>1, <2>2, PinStep
<1>12. ASSUME ReapPins PROVE PinInv'
  <2>1. \A i \in PinIds :
            /\ pins'[i].status = "consumed" <=> pins[i].status = "consumed"
            /\ pins[i].status # "none" =>
                  pins'[i].status # "none" /\ pins'[i].purpose = pins[i].purpose
    BY <1>t, <1>12 DEF ReapPins, Pin
  <2> QED
    BY <1>12, <2>1, PinStep DEF ReapPins
<1>13. ASSUME NEW c \in Requests, PostInternal(c) \/ PostAch(c) \/ PostWire(c) PROVE PinInv'
  BY <1>7, <1>13 DEF PostInternal, PostAch, PostWire
<1>14. ASSUME NEW c \in Requests, QueueAch(c) \/ QueueWire(c) PROVE PinInv'
  BY <1>8, <1>14 DEF QueueAch, QueueWire
<1>15. ASSUME NEW c \in Requests, CheckInternal(c) \/ CheckAch(c) \/ CheckWire(c) PROVE PinInv'
  BY <1>4, <1>15 DEF CheckInternal, CheckAch, CheckWire
<1>16. ASSUME NEW c \in Requests, RefuseTransfer(c) \/ LimitTransfer(c) \/ RefusePin(c)
       PROVE  PinInv'
  BY <1>3, <1>16 DEF RefuseTransfer, LimitTransfer, RefusePin
<1>17. ASSUME \/ AccountsLoaded \/ LiveReload \/ LoadPayees \/ FillInternal \/ FillAch \/ FillWire
              \/ AskPin \/ AskPinAch \/ CancelPin
              \/ \E kind \in Kinds : OpenTab(kind)
              \/ \E y \in Payees : AddPayee(y) \/ RemovePayee(y)
              \/ \E c \in Requests : ShowAnswer(c)
              \/ UNCHANGED transferVars
       PROVE  PinInv'
  <2>1. UNCHANGED <<pins, request, txn>>
    BY <1>17 DEF AccountsLoaded, LiveReload, LoadPayees, FillInternal, FillAch, FillWire, Fill,
       AskPin, AskPinAch, CancelPin, OpenTab, AddPayee, RemovePayee, ShowAnswer, transferVars
  <2> QED
    BY <1>1, <2>1
<1>18. "generic" \in Purposes
  BY DEF Purposes
<1>19. PinInv'
  BY <1>2, <1>5, <1>6, <1>9, <1>10, <1>11, <1>12, <1>13, <1>14, <1>15, <1>16, <1>17, <1>18
     DEF TransferNext
<1> QED
  BY <1>0, <1>19

\* Types, what every request has behind it at its step, and the unique use of
\* every PIN hold together.
THEOREM TransferInvariant == TransferSpec => []TransferInv
<1>1. TransferInit => TransferInv
  BY TransferInitInv
<1>2. TransferInv /\ [TransferNext]_transferVars => TransferInv'
  BY TransferNextInv
<1> QED
  BY <1>1, <1>2, PTL DEF TransferSpec

\* No PIN authorizes two transfers, for any number of requests and PINs,
\* although a request chooses its PIN before it locks the row.
THEOREM PinsAreSingleUse == TransferSpec => []OneTransferPerPin
<1>1. TransferInv => OneTransferPerPin
  <2> SUFFICES ASSUME TransferInv PROVE OneTransferPerPin
    OBVIOUS
  <2>1. \A c \in Requests : txn[c].status # "none" => Spent(c) /\ txn[c].pin = request[c].pin
    BY DEF TransferInv, PinInv, TxnKnows, Spent
  <2>2. \A c \in Requests : Spent(c) => FitsPin(c) /\ pins[request[c].pin].status = "consumed"
    BY DEF TransferInv, PinInv, RequestKnows
  <2> QED
    BY <2>1, <2>2 DEF OneTransferPerPin, TransferInv, PinInv, SpentOnce, FitsPin
<1> QED
  BY <1>1, TransferInvariant, PTL

\* A PIN is used up without a transfer only where the posting refused or the
\* handler was cut short.
THEOREM PinsAreNotWasted == TransferSpec => []BurntPinExplained
<1>1. TransferInv => BurntPinExplained
  <2> SUFFICES ASSUME TransferInv, NEW i \in PinIds, pins[i].status = "consumed"
               PROVE  \E c \in Requests :
                        /\ request[c].pin = i
                        /\ request[c].step \in {"consumed", "unposted", "cut"} \/ txn[c].pin = i
    BY DEF BurntPinExplained
  <2>1. PICK c \in Requests : Spent(c) /\ request[c].pin = i
    BY DEF TransferInv, PinInv, ConsumedByRequest
  <2>2. request[c] \in Request /\ RequestKnows(c) /\ TxnKnows(c)
    BY DEF TransferInv, TransferTypeOK, PinInv
  <2>3. request[c].step \in {"consumed", "posted", "queued", "done", "unposted", "cut"}
    BY <2>1, <2>2 DEF Spent, RequestKnows, Request
  <2> QED
    BY <2>1, <2>2, <2>3 DEF TxnKnows
<1> QED
  BY <1>1, TransferInvariant, PTL

\* A pending external transfer has its ach_transfers or wire_transfers row,
\* unless the handler is just about to insert it or was cut short there.
THEOREM PendingTransfersAreQueued == TransferSpec => []PendingIsQueued
<1>1. TransferInv => PendingIsQueued
  BY DEF TransferInv, PinInv, TxnKnows, PendingIsQueued
<1> QED
  BY <1>1, TransferInvariant, PTL

-----------------------------------------------------------------------------
(* The Withdraw and Deposit panels                                         *)

\* Sent, and nothing more is to be expected of it but an error.
GivenUp(p) == submission[p].lost \/ submission[p].step \in {"refused", "failed"}

\* What the handler of a submission has committed at each step.
SubmissionKnows(s) ==
    /\ submission[s].step \in {"unused", "sent", "refused"} => ~submission[s].hold
    /\ submission[s].step \in {"stored", "accepted"} => submission[s].row
    /\ \A p \in submission[s].after : GivenUp(p)

\* A form that is still filled in waits for what it has sent, or saw it fail.
FormKnows == withdraw.filled => \A p \in withdraw.tried : p \in withdraw.waits \/ GivenUp(p)

\* Lists are asked for by the panel that shows, which alone has a history.
ListsBelong ==
    /\ \A g \in Gets : get[g] # NoGet =>
          /\ ~tab.loading
          /\ tab.active = "withdraw" <=> get[g].of = NoAccount
    /\ withdraw.waits # {} \/ withdraw.told # {} \/ withdraw.error => Shows("withdraw")

\* What was reported is stored; an answer to the newest request has all of it.
ListsAreNew ==
    /\ \A s \in withdraw.told : submission[s].row
    /\ withdraw.current =>
          /\ Quiet => withdraw.told \subseteq withdraw.items
          /\ \A g \in Gets : get[g].step = "answered" => withdraw.told \subseteq get[g].rows
    /\ deposit.current /\ Shows("deposit") =>
          /\ Quiet => deposit.recent = deposit.selected
          /\ \A g \in Gets : get[g] # NoGet => get[g].of = deposit.selected

PanelInv ==
    /\ PanelTypeOK
    /\ \A s \in Submissions : SubmissionKnows(s)
    /\ FormKnows /\ ListsBelong /\ ListsAreNew

LEMMA GetTypes == NoGet \in Get /\ \A a \in Accounts \cup {NoAccount} : Asked(a) \in Get
  BY DEF NoGet, Asked, Get

LEMMA PanelTypes == NewWithdraw \in Withdraw /\ NewDeposit \in Deposit
  BY PanelAssumption DEF NewWithdraw, NewDeposit, Withdraw, Deposit

LEMMA PanelInitInv ==
  ASSUME PanelInit PROVE PanelInv
<1>1. PanelTypeOK
  BY GetTypes, PanelTypes DEF PanelInit, PanelTypeOK, Tabs, Submission
<1>2. \A s \in Submissions : SubmissionKnows(s)
  BY DEF PanelInit, SubmissionKnows
<1>3. FormKnows /\ ListsBelong /\ ListsAreNew
  BY DEF PanelInit, FormKnows, ListsBelong, ListsAreNew, NewWithdraw, NewDeposit, NoGet, Shows
<1> QED
  BY <1>1, <1>2, <1>3 DEF PanelInv

\* The panel is mounted anew, or taken away.
LEMMA MountStep ==
  ASSUME PanelInv, Mount(tab'.active), tab' \in [active : Tabs, loading : BOOLEAN], ~tab'.loading
  PROVE  PanelInv'
<1> USE PanelAssumption, GetTypes, PanelTypes DEF PanelInv
<1> DEFINE a == IF tab'.active = "deposit" THEN First ELSE NoAccount
<1>1. PICK g \in Gets : get' = [x \in Gets |-> IF x # g THEN NoGet ELSE Asked(a)]
  BY DEF Mount
<1>2. /\ withdraw' = NewWithdraw /\ deposit' = NewDeposit /\ submission' = submission
      /\ get'[g].of = a /\ get'[g].step = "sent" /\ get'[g] # NoGet
      /\ \A x \in Gets : x # g => get'[x] = NoGet
  BY <1>1 DEF Mount, Asked, NoGet
<1>3. a \in Accounts \cup {NoAccount}
  OBVIOUS
<1>4. PanelTypeOK'
  BY <1>1, <1>2, <1>3 DEF PanelTypeOK
<1>5. /\ \A s \in Submissions : SubmissionKnows(s)'
      /\ FormKnows'
  BY <1>2 DEF SubmissionKnows, GivenUp, FormKnows, NewWithdraw
<1>6. tab'.active = "withdraw" <=> a = NoAccount
  BY DEF Tabs
<1>7. ListsBelong'
  BY <1>2, <1>6 DEF ListsBelong, NewWithdraw
<1>8. ListsAreNew'
  BY <1>2 DEF ListsAreNew, NewWithdraw, NewDeposit, Shows, Quiet, NoGet
<1> QED
  BY <1>4, <1>5, <1>7, <1>8

LEMMA SubmissionSet ==
  ASSUME NEW x \in Submission, NEW h \in BOOLEAN, NEW r \in BOOLEAN,
         NEW to \in {"refused", "held", "stored", "accepted", "failed"}
  PROVE  [x EXCEPT !.step = to, !.hold = h, !.row = r] \in Submission
<1> DEFINE steps == {"unused", "sent", "held", "stored", "accepted", "refused", "failed"}
<1>1. to \in steps
  OBVIOUS
<1> HIDE DEF steps
<1>2. Submission = [step : steps, hold : BOOLEAN, row : BOOLEAN, lost : BOOLEAN,
                    after : SUBSET Submissions]
  BY DEF Submission, steps
<1> QED
  BY <1>1, <1>2, Zenon

LEMMA PanelNextType ==
  ASSUME PanelTypeOK, [PanelNext]_panelVars, ~(\E t \in Tabs : SwitchTab(t)), ~AccountsArrive
  PROVE  PanelTypeOK'
<1> USE GetTypes, PanelTypes DEF PanelTypeOK
<1>0. /\ \A g \in Gets : get[g] \in Get
      /\ \A s \in Submissions : submission[s] \in Submission
      /\ withdraw \in Withdraw /\ deposit \in Deposit
      /\ Quiet \in BOOLEAN
  BY DEF Quiet
<1>1. ASSUME ReloadAccounts PROVE PanelTypeOK'
  BY <1>1 DEF ReloadAccounts
<1>2. ASSUME FillWithdrawal PROVE PanelTypeOK'
  BY <1>0, <1>2 DEF FillWithdrawal, Withdraw
<1>3. ASSUME NEW s \in Submissions, SubmitWithdrawal(s) PROVE PanelTypeOK'
  <2>1. withdraw.tried \subseteq Submissions
    BY <1>0 DEF Withdraw
  <2>2. submission' \in [Submissions -> Submission]
    BY <1>0, <1>3, <2>1 DEF SubmitWithdrawal, Submission
  <2>3. withdraw' \in Withdraw
    BY <1>0, <1>3 DEF SubmitWithdrawal, Withdraw
  <2> QED
    BY <1>3, <2>2, <2>3 DEF SubmitWithdrawal
<1>4. ASSUME NEW s \in Submissions, NEW g \in Gets, ShowAccepted(s, g) PROVE PanelTypeOK'
  <2>1. withdraw' \in Withdraw
    <3> DEFINE q == Quiet
    <3>1. q \in BOOLEAN
      BY <1>0
    <3>2. withdraw' = [withdraw EXCEPT !.waits = @ \ {s}, !.filled = FALSE, !.told = @ \cup {s},
                                       !.error = FALSE, !.current = q]
      BY <1>4 DEF ShowAccepted
    <3> HIDE DEF q
    <3> QED
      BY <1>0, <3>1, <3>2 DEF Withdraw
  <2> QED
    BY <1>4, <2>1 DEF ShowAccepted
<1>5. ASSUME NEW s \in Submissions, ShowError(s) PROVE PanelTypeOK'
  BY <1>0, <1>5 DEF ShowError, Withdraw
<1>6. ASSUME NEW s \in Submissions, LoseAnswer(s) PROVE PanelTypeOK'
  <2>1. submission' \in [Submissions -> Submission]
    BY <1>0, <1>6 DEF LoseAnswer, Submission
  <2>2. withdraw' \in Withdraw
    BY <1>0, <1>6 DEF LoseAnswer, Withdraw
  <2> QED
    BY <1>6, <2>1, <2>2 DEF LoseAnswer
<1>7. ASSUME NEW g \in Gets, RetryList(g) PROVE PanelTypeOK'
  <2>1. withdraw' \in Withdraw
    <3> DEFINE q == Quiet
    <3>1. q \in BOOLEAN
      BY <1>0
    <3>2. withdraw' = [withdraw EXCEPT !.error = FALSE, !.current = q]
      BY <1>7 DEF RetryList
    <3> HIDE DEF q
    <3> QED
      BY <1>0, <3>1, <3>2 DEF Withdraw
  <2> QED
    BY <1>7, <2>1 DEF RetryList
<1>8. ASSUME NEW s \in Submissions, NEW from,
             NEW to \in {"refused", "held", "stored", "accepted", "failed"}, Advances(s, from, to)
      PROVE  PanelTypeOK'
  <2> DEFINE h == submission[s].hold \/ to = "held"
             r == submission[s].row \/ to = "stored"
  <2>1. h \in BOOLEAN /\ r \in BOOLEAN
    OBVIOUS
  <2>2. submission' = [submission EXCEPT ![s] = [@ EXCEPT !.step = to, !.hold = h, !.row = r]]
    BY <1>8 DEF Advances
  <2> HIDE DEF h, r
  <2>3. [submission[s] EXCEPT !.step = to, !.hold = h, !.row = r] \in Submission
    BY <1>0, <2>1, SubmissionSet
  <2> QED
    BY <1>8, <2>2, <2>3 DEF Advances
<1>9. ASSUME NEW a \in Accounts, NEW g \in Gets, SelectAccount(a, g) PROVE PanelTypeOK'
  <2>1. deposit' \in Deposit
    <3> DEFINE q == Quiet
    <3>1. q \in BOOLEAN
      BY <1>0
    <3>2. deposit' = [deposit EXCEPT !.selected = a, !.current = q]
      BY <1>9 DEF SelectAccount
    <3> HIDE DEF q
    <3> QED
      BY <1>0, <3>1, <3>2 DEF Deposit
  <2> QED
    BY <1>9, <2>1 DEF SelectAccount
<1>10. ASSUME NEW g \in Gets, AnswerGet(g) PROVE PanelTypeOK'
  <2> DEFINE r == {s \in Submissions : get[g].of = NoAccount /\ submission[s].row}
  <2>1. r \subseteq Submissions
    OBVIOUS
  <2>2. get' = [get EXCEPT ![g].step = "answered", ![g].rows = r]
    BY <1>10 DEF AnswerGet
  <2> HIDE DEF r
  <2>3. [get[g] EXCEPT !.step = "answered", !.rows = r] \in Get
    BY <1>0, <2>1 DEF Get
  <2>4. get' = [get EXCEPT ![g] = [get[g] EXCEPT !.step = "answered", !.rows = r]]
    BY <2>2
  <2>5. get' \in [Gets -> Get]
    BY <2>3, <2>4
  <2> QED
    BY <1>10, <2>5 DEF AnswerGet
<1>11. ASSUME NEW g \in Gets, ShowList(g) PROVE PanelTypeOK'
  <2>1. get[g].rows \subseteq Submissions /\ get[g].of \in Accounts \cup {NoAccount}
    BY <1>0 DEF Get
  <2>2. [withdraw EXCEPT !.items = get[g].rows] \in Withdraw
        /\ [deposit EXCEPT !.recent = get[g].of] \in Deposit
    BY <1>0, <2>1 DEF Withdraw, Deposit
  <2>3. get' \in [Gets -> Get]
    BY <1>11 DEF ShowList
  <2> QED
    BY <1>11, <2>2, <2>3 DEF ShowList
<1>12. ASSUME NEW g \in Gets, FailGet(g) PROVE PanelTypeOK'
  <2>1. [withdraw EXCEPT !.error = TRUE, !.current = FALSE] \in Withdraw
        /\ [deposit EXCEPT !.current = FALSE] \in Deposit
    BY <1>0 DEF Withdraw, Deposit
  <2>2. get' \in [Gets -> Get]
    BY <1>12 DEF FailGet
  <2> QED
    BY <1>12, <2>1, <2>2 DEF FailGet
<1>13. UNCHANGED panelVars => PanelTypeOK'
  BY DEF panelVars
<1> QED
  BY <1>1, <1>2, <1>3, <1>4, <1>5, <1>6, <1>7, <1>8, <1>9, <1>10, <1>11, <1>12, <1>13
     DEF PanelNext, RefuseWithdrawal, HoldWithdrawal, StoreWithdrawal, AcceptWithdrawal,
         FailWithdrawal

\* A submission moves on, and no list is touched.
LEMMA SubmissionStep ==
  ASSUME PanelInv, UNCHANGED <<tab, withdraw, deposit, get>>, NEW s \in Submissions,
         \A p \in Submissions : p # s => submission'[p] = submission[p],
         GivenUp(s) => GivenUp(s)',
         submission[s].row => submission'[s].row,
         SubmissionKnows(s)'
  PROVE  /\ \A p \in Submissions : SubmissionKnows(p)'
         /\ FormKnows' /\ ListsBelong' /\ ListsAreNew'
<1> USE DEF PanelInv
<1>1. \A p \in Submissions : GivenUp(p) => GivenUp(p)'
  BY DEF GivenUp
<1>2. \A p \in Submissions : submission[p].after \subseteq Submissions
  BY DEF PanelTypeOK, Submission
<1>3. withdraw.tried \subseteq Submissions /\ withdraw.told \subseteq Submissions
  BY DEF PanelTypeOK, Withdraw
<1>4. \A p \in Submissions : SubmissionKnows(p)'
  <2> TAKE p \in Submissions
  <2>1. CASE p = s
    BY <2>1
  <2>2. CASE p # s
    BY <1>1, <1>2, <2>2 DEF SubmissionKnows
  <2> QED
    BY <2>1, <2>2
<1>5. FormKnows'
  BY <1>1, <1>3 DEF FormKnows
<1>6. ListsBelong' /\ ListsAreNew'
  BY <1>3 DEF ListsBelong, ListsAreNew, Shows, Quiet
<1> QED
  BY <1>4, <1>5, <1>6

LEMMA PanelNextInv ==
  ASSUME PanelInv, [PanelNext]_panelVars
  PROVE  PanelInv'
<1> USE PanelAssumption DEF PanelInv
<1> DEFINE PanelRest == /\ \A s \in Submissions : SubmissionKnows(s)
                        /\ FormKnows /\ ListsBelong /\ ListsAreNew
<1>t. /\ \A g \in Gets : get[g] \in Get
      /\ \A s \in Submissions : submission[s] \in Submission
      /\ withdraw \in Withdraw /\ deposit \in Deposit /\ tab \in [active : Tabs, loading : BOOLEAN]
      /\ get \in [Gets -> Get] /\ submission \in [Submissions -> Submission]
  BY DEF PanelTypeOK
<1>1. ASSUME AccountsArrive PROVE PanelInv'
  <2>1. tab' \in [active : Tabs, loading : BOOLEAN] /\ ~tab'.loading /\ tab'.active = tab.active
    BY <1>t, <1>1 DEF AccountsArrive
  <2> QED
    BY <1>1, <2>1, MountStep DEF AccountsArrive
<1>2. ASSUME NEW t \in Tabs, SwitchTab(t) PROVE PanelInv'
  <2>1. /\ tab' \in [active : Tabs, loading : BOOLEAN]
        /\ tab'.active = t /\ tab'.loading = tab.loading
    BY <1>t, <1>2 DEF SwitchTab
  <2>2. CASE ~tab.loading
    BY <1>2, <2>1, <2>2, MountStep DEF SwitchTab
  <2>3. CASE tab.loading
    <3>1. /\ UNCHANGED <<withdraw, deposit, get, submission>>
          /\ ~Shows("withdraw") /\ ~Shows("withdraw")' /\ ~Shows("deposit")'
      BY <1>2, <2>1, <2>3 DEF SwitchTab, Shows
    <3>2. PanelTypeOK'
      BY <2>1, <3>1 DEF PanelTypeOK
    <3>3. (\A s \in Submissions : SubmissionKnows(s)') /\ FormKnows'
      BY <3>1 DEF SubmissionKnows, FormKnows, GivenUp
    <3>4. ListsBelong'
      BY <2>3, <3>1 DEF ListsBelong
    <3>5. ListsAreNew'
      BY <3>1 DEF ListsAreNew, Quiet
    <3> QED
      BY <3>2, <3>3, <3>4, <3>5
  <2> QED
    BY <2>2, <2>3
<1>3. ASSUME ReloadAccounts PROVE PanelRest'
  BY <1>3 DEF ReloadAccounts, SubmissionKnows, GivenUp, FormKnows, ListsBelong, ListsAreNew,
     NewWithdraw, NewDeposit, NoGet, Shows
<1>4. ASSUME FillWithdrawal PROVE PanelRest'
  <2>1. /\ withdraw'.tried = {} /\ withdraw'.waits = withdraw.waits
        /\ withdraw'.told = withdraw.told /\ withdraw'.items = withdraw.items
        /\ withdraw'.error = withdraw.error /\ withdraw'.current = withdraw.current
        /\ UNCHANGED <<tab, deposit, get, submission>>
    BY <1>t, <1>4 DEF FillWithdrawal, Withdraw
  <2> QED
    BY <2>1 DEF SubmissionKnows, GivenUp, FormKnows, ListsBelong, ListsAreNew, Shows, Quiet
<1>5. ASSUME NEW s \in Submissions, SubmitWithdrawal(s) PROVE PanelRest'
  <2>1. /\ withdraw'.tried = withdraw.tried \cup {s} /\ withdraw'.waits = {s}
        /\ withdraw'.told = withdraw.told /\ withdraw'.items = withdraw.items
        /\ withdraw'.error = withdraw.error /\ withdraw'.current = withdraw.current
        /\ UNCHANGED <<tab, deposit, get>> /\ Shows("withdraw")
    BY <1>t, <1>5 DEF SubmitWithdrawal, Withdraw
  <2>2. /\ submission[s].step = "unused" /\ submission'[s].step = "sent"
        /\ submission'[s].hold = submission[s].hold /\ submission'[s].row = submission[s].row
        /\ submission'[s].lost = submission[s].lost /\ submission'[s].after = withdraw.tried
        /\ \A p \in Submissions : p # s => submission'[p] = submission[p]
    BY <1>t, <1>5 DEF SubmitWithdrawal, Submission
  <2>3. /\ \A p \in Submissions : submission[p].after \subseteq Submissions
        /\ withdraw.tried \subseteq Submissions /\ withdraw.told \subseteq Submissions
    BY <1>t DEF Submission, Withdraw
  <2>4. \A p \in Submissions : GivenUp(p) => GivenUp(p)'
    BY <2>2 DEF GivenUp
  <2>5. \A p \in withdraw.tried : GivenUp(p)
    BY <1>5 DEF SubmitWithdrawal, FormKnows
  <2>6. \A p \in Submissions : SubmissionKnows(p)'
    <3> TAKE p \in Submissions
    <3>1. CASE p = s
      BY <2>2, <2>3, <2>4, <2>5, <3>1 DEF SubmissionKnows
    <3>2. CASE p # s
      BY <2>2, <2>3, <2>4, <3>2 DEF SubmissionKnows
    <3> QED
      BY <3>1, <3>2
  <2>7. FormKnows'
    BY <2>1, <2>3, <2>4, <2>5 DEF FormKnows
  <2>8. ListsBelong'
    BY <2>1 DEF ListsBelong, Shows
  <2>9. ListsAreNew'
    BY <2>1, <2>2, <2>3 DEF ListsAreNew, Shows, Quiet
  <2> QED
    BY <2>6, <2>7, <2>8, <2>9
<1>6. ASSUME NEW s \in Submissions, NEW g \in Gets, ShowAccepted(s, g) PROVE PanelRest'
  <2>1. /\ ~withdraw'.filled /\ withdraw'.waits = withdraw.waits \ {s}
        /\ withdraw'.told = withdraw.told \cup {s} /\ withdraw'.current = Quiet
        /\ UNCHANGED <<tab, deposit, submission>> /\ Shows("withdraw")
        /\ submission[s].step = "accepted"
    BY <1>t, <1>6 DEF ShowAccepted, Withdraw, ListsBelong
  <2>2. /\ get'[g].step = "sent" /\ get'[g].of = NoAccount /\ get'[g] # NoGet
        /\ \A x \in Gets : x # g => get'[x] = get[x]
    BY <1>t, <1>6 DEF ShowAccepted, Asked, NoGet
  <2>3. tab.active = "withdraw" /\ ~tab.loading
    BY <2>1 DEF Shows
  <2>4. ListsBelong'
    BY <2>1, <2>2, <2>3 DEF ListsBelong, Shows
  <2>5. ListsAreNew'
    <3>1. \A p \in withdraw'.told : submission'[p].row
      BY <2>1 DEF ListsAreNew, SubmissionKnows
    <3>0. withdraw'.current => Quiet
      BY <2>1, Zenon
    <3>2. withdraw'.current => \A x \in Gets : get'[x].step # "answered"
      BY <2>2, <3>0 DEF Quiet, NoGet
    <3>3. ~Quiet' /\ ~Shows("deposit")'
      BY <2>1, <2>2, <2>3 DEF Quiet, Shows
    <3> QED
      BY <3>1, <3>2, <3>3 DEF ListsAreNew
  <2>6. (\A p \in Submissions : SubmissionKnows(p)') /\ FormKnows'
    BY <2>1 DEF SubmissionKnows, GivenUp, FormKnows
  <2> QED
    BY <2>4, <2>5, <2>6
<1>7. ASSUME NEW s \in Submissions, ShowError(s) PROVE PanelRest'
  <2>1. /\ withdraw'.filled = withdraw.filled /\ withdraw'.waits = withdraw.waits \ {s}
        /\ withdraw'.tried = withdraw.tried
        /\ withdraw'.told = withdraw.told /\ withdraw'.items = withdraw.items
        /\ withdraw'.error = withdraw.error /\ withdraw'.current = withdraw.current
        /\ UNCHANGED <<tab, deposit, get, submission>> /\ GivenUp(s)
    BY <1>t, <1>7 DEF ShowError, Withdraw, GivenUp
  <2>2. FormKnows' /\ \A p \in Submissions : SubmissionKnows(p)'
    BY <2>1 DEF SubmissionKnows, GivenUp, FormKnows
  <2>3. ListsBelong' /\ ListsAreNew'
    BY <2>1 DEF ListsBelong, ListsAreNew, Shows, Quiet
  <2> QED
    BY <2>2, <2>3
<1>8. ASSUME NEW s \in Submissions, LoseAnswer(s) PROVE PanelRest'
  <2>1. /\ withdraw'.filled = withdraw.filled /\ withdraw'.waits = withdraw.waits \ {s}
        /\ withdraw'.tried = withdraw.tried
        /\ withdraw'.told = withdraw.told /\ withdraw'.items = withdraw.items
        /\ withdraw'.error = withdraw.error /\ withdraw'.current = withdraw.current
        /\ UNCHANGED <<tab, deposit, get>>
    BY <1>t, <1>8 DEF LoseAnswer, Withdraw
  <2>2. /\ submission'[s].step = submission[s].step /\ submission'[s].lost
        /\ submission'[s].hold = submission[s].hold /\ submission'[s].row = submission[s].row
        /\ submission'[s].after = submission[s].after
        /\ \A p \in Submissions : p # s => submission'[p] = submission[p]
    BY <1>t, <1>8 DEF LoseAnswer, Submission
  <2>3. /\ \A p \in Submissions : submission[p].after \subseteq Submissions
        /\ withdraw.tried \subseteq Submissions /\ withdraw.told \subseteq Submissions
    BY <1>t DEF Submission, Withdraw
  <2>4. (\A p \in Submissions : GivenUp(p) => GivenUp(p)') /\ GivenUp(s)'
    BY <2>2 DEF GivenUp
  <2>5. \A p \in Submissions : SubmissionKnows(p)'
    BY <2>2, <2>3, <2>4 DEF SubmissionKnows
  <2>6. FormKnows'
    BY <2>1, <2>3, <2>4 DEF FormKnows
  <2>7. ListsBelong' /\ ListsAreNew'
    BY <2>1, <2>2, <2>3 DEF ListsBelong, ListsAreNew, Shows, Quiet
  <2> QED
    BY <2>5, <2>6, <2>7
<1>9. ASSUME NEW g \in Gets, RetryList(g) PROVE PanelRest'
  <2>1. /\ withdraw'.filled = withdraw.filled /\ withdraw'.waits = withdraw.waits
        /\ withdraw'.tried = withdraw.tried
        /\ withdraw'.told = withdraw.told /\ withdraw'.current = Quiet
        /\ UNCHANGED <<tab, deposit, submission>> /\ Shows("withdraw")
    BY <1>t, <1>9 DEF RetryList, Withdraw, ListsBelong
  <2>2. /\ get'[g].step = "sent" /\ get'[g].of = NoAccount /\ get'[g] # NoGet
        /\ \A x \in Gets : x # g => get'[x] = get[x]
    BY <1>t, <1>9 DEF RetryList, Asked, NoGet
  <2>3. tab.active = "withdraw" /\ ~tab.loading
    BY <2>1 DEF Shows
  <2>4. ListsBelong'
    BY <2>1, <2>2, <2>3 DEF ListsBelong, Shows
  <2>5. ListsAreNew'
    <3>0. withdraw'.current => Quiet
      BY <2>1, Zenon
    <3>1. withdraw'.current => \A x \in Gets : get'[x].step # "answered"
      BY <2>2, <3>0 DEF Quiet, NoGet
    <3>2. ~Quiet' /\ ~Shows("deposit")'
      BY <2>1, <2>2, <2>3 DEF Quiet, Shows
    <3> QED
      BY <2>1, <3>1, <3>2 DEF ListsAreNew
  <2>6. (\A p \in Submissions : SubmissionKnows(p)') /\ FormKnows'
    BY <2>1 DEF SubmissionKnows, GivenUp, FormKnows
  <2> QED
    BY <2>4, <2>5, <2>6
<1>10. ASSUME NEW s \in Submissions,
              \/ RefuseWithdrawal(s) \/ HoldWithdrawal(s) \/ StoreWithdrawal(s)
              \/ AcceptWithdrawal(s) \/ FailWithdrawal(s)
       PROVE  PanelRest'
  <2>1. PICK from \in {"sent", "held", "stored"},
             to \in {"refused", "held", "stored", "accepted", "failed"} :
          /\ Advances(s, from, to)
          /\ to \in {"refused", "held"} <=> from = "sent"
          /\ to = "accepted" => from = "stored"
    BY <1>10 DEF RefuseWithdrawal, HoldWithdrawal, StoreWithdrawal, AcceptWithdrawal, FailWithdrawal
  <2> DEFINE h == submission[s].hold \/ to = "held"
             r == submission[s].row \/ to = "stored"
  <2>2. /\ UNCHANGED <<tab, withdraw, deposit, get>> /\ submission[s].step = from
        /\ submission' = [submission EXCEPT ![s] = [@ EXCEPT !.step = to, !.hold = h, !.row = r]]
    BY <2>1 DEF Advances
  <2>3. /\ submission'[s].step = to /\ submission'[s].hold = h /\ submission'[s].row = r
        /\ submission'[s].lost = submission[s].lost /\ submission'[s].after = submission[s].after
        /\ \A p \in Submissions : p # s => submission'[p] = submission[p]
    <3> HIDE DEF h, r
    <3> QED
      BY <1>t, <2>2 DEF Submission
  <2>4. SubmissionKnows(s) /\ (GivenUp(s) => GivenUp(s)')
    BY <2>2, <2>3 DEF GivenUp
  <2>5. \A p \in submission[s].after : GivenUp(p)'
    <3>1. submission[s].after \subseteq Submissions
      BY <1>t DEF Submission
    <3> QED
      BY <2>3, <2>4, <3>1 DEF SubmissionKnows, GivenUp
  <2>6. SubmissionKnows(s)'
    BY <2>1, <2>2, <2>3, <2>4, <2>5 DEF SubmissionKnows
  <2>7. submission[s].row => submission'[s].row
    BY <2>3
  <2> HIDE DEF h, r
  <2> QED
    BY <2>2, <2>3, <2>4, <2>6, <2>7, SubmissionStep
<1>11. ASSUME NEW a \in Accounts, NEW g \in Gets, SelectAccount(a, g) PROVE PanelRest'
  <2>1. /\ deposit'.selected = a /\ deposit'.current = Quiet
        /\ UNCHANGED <<tab, withdraw, submission>> /\ Shows("deposit") /\ ~Shows("withdraw")
    BY <1>t, <1>11 DEF SelectAccount, Deposit, Shows
  <2>2. /\ get'[g].step = "sent" /\ get'[g].of = a /\ get'[g] # NoGet
        /\ \A x \in Gets : x # g => get'[x] = get[x]
    BY <1>t, <1>11 DEF SelectAccount, Asked, NoGet
  <2>3. tab.active = "deposit" /\ ~tab.loading
    BY <2>1 DEF Shows
  <2>4. ListsBelong'
    BY <2>1, <2>2, <2>3 DEF ListsBelong, Shows
  <2>5. ListsAreNew'
    <3>1. withdraw.told = {}
      BY <2>1 DEF ListsBelong
    <3>2. deposit'.current => \A x \in Gets : get'[x] # NoGet => get'[x].of = a
      BY <2>1, <2>2 DEF Quiet
    <3>3. ~Quiet'
      BY <2>2 DEF Quiet
    <3> QED
      BY <2>1, <3>1, <3>2, <3>3 DEF ListsAreNew
  <2>6. (\A p \in Submissions : SubmissionKnows(p)') /\ FormKnows'
    BY <2>1 DEF SubmissionKnows, GivenUp, FormKnows
  <2> QED
    BY <2>4, <2>5, <2>6
<1>12. ASSUME NEW g \in Gets, AnswerGet(g) PROVE PanelRest'
  <2> DEFINE rows == {s \in Submissions : get[g].of = NoAccount /\ submission[s].row}
  <2>1. get' = [get EXCEPT ![g].step = "answered", ![g].rows = rows]
        /\ UNCHANGED <<tab, withdraw, deposit, submission>> /\ get[g].step = "sent"
    BY <1>12 DEF AnswerGet
  <2>2. /\ get'[g].step = "answered" /\ get'[g].rows = rows /\ get'[g].of = get[g].of
        /\ get[g] # NoGet /\ get'[g] # NoGet
        /\ \A x \in Gets : x # g => get'[x] = get[x]
    <3> HIDE DEF rows
    <3>1. get' = [get EXCEPT ![g] = [get[g] EXCEPT !.step = "answered", !.rows = rows]]
      BY <2>1
    <3>2. get'[g] = [get[g] EXCEPT !.step = "answered", !.rows = rows]
          /\ \A x \in Gets : x # g => get'[x] = get[x]
      BY <1>t, <3>1
    <3>3. get'[g].step = "answered" /\ get'[g].rows = rows /\ get'[g].of = get[g].of
      BY <1>t, <3>2 DEF Get
    <3>4. get[g] # NoGet /\ get'[g] # NoGet
      <4>1. NoGet.step = "unused"
        BY DEF NoGet
      <4>2. get[g].step = "sent"
        BY <2>1
      <4> QED
        BY <3>3, <4>1, <4>2
    <3> QED
      BY <3>2, <3>3, <3>4
  <2>3. withdraw.told \subseteq rows
    <3>1. CASE get[g].of = NoAccount
      BY <1>t, <3>1 DEF ListsAreNew, Withdraw
    <3>2. CASE get[g].of # NoAccount
      BY <2>2, <3>2 DEF ListsBelong, Shows
    <3> QED
      BY <3>1, <3>2
  <2> HIDE DEF rows
  <2>4. ListsBelong'
    BY <2>1, <2>2 DEF ListsBelong, Shows
  <2>5. ListsAreNew'
    <3>1. ~Quiet /\ ~Quiet'
      BY <2>2 DEF Quiet
    <3>2. withdraw.current => \A x \in Gets : get'[x].step = "answered" =>
                                                 withdraw.told \subseteq get'[x].rows
      BY <2>2, <2>3 DEF ListsAreNew
    <3>3. deposit.current /\ Shows("deposit") =>
             \A x \in Gets : get'[x] # NoGet => get'[x].of = deposit.selected
      BY <2>2 DEF ListsAreNew
    <3> QED
      BY <2>1, <3>1, <3>2, <3>3 DEF ListsAreNew, Shows
  <2>6. (\A p \in Submissions : SubmissionKnows(p)') /\ FormKnows'
    BY <2>1 DEF SubmissionKnows, GivenUp, FormKnows
  <2> QED
    BY <2>4, <2>5, <2>6
<1>13. ASSUME NEW g \in Gets, ShowList(g) PROVE PanelRest'
  <2>1. /\ UNCHANGED <<tab, submission>> /\ get[g].step = "answered" /\ get[g] # NoGet
        /\ get'[g] = NoGet /\ \A x \in Gets : x # g => get'[x] = get[x]
    BY <1>t, <1>13 DEF ShowList, NoGet
  <2>2. ~tab.loading /\ (tab.active = "withdraw" <=> get[g].of = NoAccount)
    BY <2>1 DEF ListsBelong
  <2>3. /\ \A s \in Submissions : SubmissionKnows(s)'
        /\ \A p : GivenUp(p)' <=> GivenUp(p)
    BY <2>1 DEF SubmissionKnows, GivenUp
  <2>4. CASE get[g].of = NoAccount
    <3>1. /\ withdraw'.filled = withdraw.filled /\ withdraw'.waits = withdraw.waits
          /\ withdraw'.tried = withdraw.tried /\ withdraw'.told = withdraw.told
          /\ withdraw'.items = get[g].rows
          /\ withdraw'.error = withdraw.error /\ withdraw'.current = withdraw.current
          /\ deposit' = deposit
      BY <1>t, <1>13, <2>4 DEF ShowList, Withdraw
    <3>2. FormKnows' /\ ListsBelong'
      BY <2>1, <2>3, <3>1 DEF FormKnows, ListsBelong, Shows
    <3>3. withdraw.current => withdraw.told \subseteq get[g].rows
      BY <2>1 DEF ListsAreNew
    <3>4. ~Shows("deposit")'
      BY <2>1, <2>2, <2>4 DEF Shows
    <3>5. \A x \in Gets : get'[x].step = "answered" => get'[x] = get[x]
      BY <2>1 DEF NoGet
    <3>6. ListsAreNew'
      BY <2>1, <3>1, <3>3, <3>4, <3>5 DEF ListsAreNew
    <3> QED
      BY <2>3, <3>2, <3>6
  <2>5. CASE get[g].of # NoAccount
    <3>1. /\ withdraw' = withdraw /\ deposit'.selected = deposit.selected
          /\ deposit'.recent = get[g].of /\ deposit'.current = deposit.current
      BY <1>t, <1>13, <2>5 DEF ShowList, Deposit
    <3>2. FormKnows' /\ ListsBelong'
      BY <2>1, <2>3, <3>1 DEF FormKnows, ListsBelong, Shows
    <3>3. withdraw.told = {}
      BY <2>2, <2>5 DEF ListsBelong, Shows
    <3>4. deposit.current /\ Shows("deposit") => get[g].of = deposit.selected
      BY <2>1 DEF ListsAreNew
    <3>5. \A x \in Gets : get'[x] # NoGet => get'[x] = get[x] /\ get[x] # NoGet
      BY <2>1
    <3>6. ListsAreNew'
      BY <2>1, <3>1, <3>3, <3>4, <3>5 DEF ListsAreNew, Shows
    <3> QED
      BY <2>3, <3>2, <3>6
  <2> QED
    BY <2>4, <2>5
<1>14. ASSUME NEW g \in Gets, FailGet(g) PROVE PanelRest'
  <2>1. /\ UNCHANGED <<tab, submission>> /\ get[g] # NoGet
        /\ get'[g] = NoGet /\ \A x \in Gets : x # g => get'[x] = get[x]
    BY <1>t, <1>14 DEF FailGet, NoGet
  <2>2. ~tab.loading /\ (tab.active = "withdraw" <=> get[g].of = NoAccount)
    BY <2>1 DEF ListsBelong
  <2>3. /\ \A s \in Submissions : SubmissionKnows(s)'
        /\ \A p : GivenUp(p)' <=> GivenUp(p)
    BY <2>1 DEF SubmissionKnows, GivenUp
  <2>4. CASE get[g].of = NoAccount
    <3>1. /\ withdraw'.filled = withdraw.filled /\ withdraw'.waits = withdraw.waits
          /\ withdraw'.tried = withdraw.tried /\ withdraw'.told = withdraw.told
          /\ withdraw'.error /\ ~withdraw'.current /\ deposit' = deposit
      BY <1>t, <1>14, <2>4 DEF FailGet, Withdraw
    <3>2. Shows("withdraw") /\ Shows("withdraw")' /\ ~Shows("deposit")'
      BY <2>1, <2>2, <2>4 DEF Shows
    <3>3. FormKnows' /\ ListsBelong'
      BY <2>1, <2>3, <3>1, <3>2 DEF FormKnows, ListsBelong
    <3>4. ListsAreNew'
      BY <2>1, <3>1, <3>2 DEF ListsAreNew
    <3> QED
      BY <2>3, <3>3, <3>4
  <2>5. CASE get[g].of # NoAccount
    <3>1. withdraw' = withdraw /\ ~deposit'.current
      BY <1>t, <1>14, <2>5 DEF FailGet, Deposit
    <3>2. FormKnows' /\ ListsBelong'
      BY <2>1, <2>3, <3>1 DEF FormKnows, ListsBelong, Shows
    <3>3. withdraw.told = {}
      BY <2>2, <2>5 DEF ListsBelong, Shows
    <3>4. ListsAreNew'
      BY <2>1, <3>1, <3>3 DEF ListsAreNew
    <3> QED
      BY <2>3, <3>2, <3>4
  <2> QED
    BY <2>4, <2>5
<1>15. ASSUME UNCHANGED panelVars PROVE PanelRest'
  BY <1>15 DEF panelVars, SubmissionKnows, GivenUp, FormKnows, ListsBelong, ListsAreNew, Shows, Quiet
<1>16. CASE (\E t \in Tabs : SwitchTab(t)) \/ AccountsArrive
  BY <1>1, <1>2, <1>16
<1>17. CASE ~(\E t \in Tabs : SwitchTab(t)) /\ ~AccountsArrive
  <2>1. PanelTypeOK'
    BY <1>17, PanelNextType
  <2>2. PanelRest'
    BY <1>3, <1>4, <1>5, <1>6, <1>7, <1>8, <1>9, <1>10, <1>11, <1>12, <1>13, <1>14, <1>15, <1>17
       DEF PanelNext
  <2> QED
    BY <2>1, <2>2
<1> QED
  BY <1>16, <1>17

\* Types, what a form knows of its submissions and what its lists hold belong
\* together at every step.
THEOREM PanelInvariant == PanelSpec => []PanelInv
<1>1. PanelInit => PanelInv
  BY PanelInitInv
<1>2. PanelInv /\ [PanelNext]_panelVars => PanelInv'
  BY PanelNextInv
<1> QED
  BY <1>1, <1>2, PTL DEF PanelSpec

\* No second click and no slow answer holds the money of one filling twice; an
\* error that was shown or a broken connection may.
THEOREM OneHoldPerFilling == PanelSpec => []HeldAgainOnlyAfterError
<1>1. PanelInv => HeldAgainOnlyAfterError
  <2> SUFFICES ASSUME PanelInv, NEW s \in Submissions, NEW p \in submission[s].after,
                      submission[p].hold
               PROVE  submission[p].lost \/ submission[p].step = "failed"
    BY DEF HeldAgainOnlyAfterError
  <2>1. p \in Submissions
    BY DEF PanelInv, PanelTypeOK, Submission
  <2> QED
    BY <2>1 DEF PanelInv, SubmissionKnows, GivenUp
<1> QED
  BY <1>1, PanelInvariant, PTL

\* With nothing under way and no two requests that met, a panel shows what it
\* has reported, and the deposits of the account it names.
THEOREM ListsCatchUp == PanelSpec => []PanelsAreCurrent
<1>1. PanelInv => PanelsAreCurrent
  BY DEF PanelInv, ListsAreNew, PanelsAreCurrent
<1> QED
  BY <1>1, PanelInvariant, PTL
-----------------------------------------------------------------------------
(* The customer's side as a whole                                          *)

\* The run that explores sessions, transfers and panels side by side explores
\* behaviours of each: what is proved of one holds of the run, whatever the
\* others do.
THEOREM SideBySide == MCSpec => SessionSpec /\ TransferSpec /\ PanelSpec
<1>1. MCInit => SessionInit /\ TransferInit /\ PanelInit
  BY DEF MCInit
<1>2. [MCNext]_<<sessionVars, transferVars, panelVars>> =>
        [SessionNext]_sessionVars /\ [TransferNext]_transferVars /\ [PanelNext]_panelVars
  BY DEF MCNext
<1> QED
  BY <1>1, <1>2, PTL DEF MCSpec, SessionSpec, TransferSpec, PanelSpec

\* The rows and the pages' states of all three keep their types, for any pages,
\* calls, tokens, requests, PINs and accounts.
THEOREM CustomersTyped == MCSpec => []CustomersTypeOK
<1>1. SessionInv /\ TransferInv /\ PanelInv => CustomersTypeOK
  BY DEF SessionInv, TransferInv, PanelInv, CustomersTypeOK
<1> QED
  BY <1>1, SideBySide, SessionInvariant, TransferInvariant, PanelInvariant, PTL
=============================================================================
