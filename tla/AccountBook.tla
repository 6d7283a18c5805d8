----------------------------- MODULE AccountBook -----------------------------
(***************************************************************************)
(* What the ledger promises, without its tables: for every account, the    *)
(* two figures that computeBalance reports.                                *)
(*                                                                         *)
(*   ledger[a]     posted credits minus posted debits                      *)
(*   available[a]  ledger[a] minus the pending debits held on a            *)
(*                                                                         *)
(* Money leaves an account only if it is available.  A hold makes money    *)
(* unavailable without moving it; settling a hold moves the money it held; *)
(* releasing a hold makes the money available again.  Module Ledger is     *)
(* shown to implement this specification.                                  *)
(***************************************************************************)
EXTENDS Integers

CONSTANTS Accounts,   \* the account ids
          Amounts,    \* the amounts an entry may carry, in units of 1/10000
          Opening     \* each account's balance before the first modelled posting

VARIABLES ledger, available

vars == <<ledger, available>>

Held(a) == ledger[a] - available[a]

\* Balances bal after n has left account d and m has reached account c.
Move(bal, d, n, c, m) ==
  [a \in Accounts |-> bal[a] - (IF a = d THEN n ELSE 0)
                             + (IF a = c THEN m ELSE 0)]

Init ==
  /\ ledger = Opening
  /\ available = Opening

-----------------------------------------------------------------------------

\* A posted transaction: n moves from d to c at once.
Pay(d, c, n) ==
  /\ n > 0
  /\ available[d] >= n
  /\ ledger' = Move(ledger, d, n, c, n)
  /\ available' = Move(available, d, n, c, n)

\* A pending transaction: n is reserved on d.
Hold(d, n) ==
  /\ n > 0
  /\ available[d] >= n
  /\ available' = [available EXCEPT ![d] = @ - n]
  /\ UNCHANGED ledger

\* A pending transaction posts: the n held on d goes to c.
Settle(d, c, n) ==
  /\ Held(d) >= n
  /\ ledger' = Move(ledger, d, n, c, n)
  /\ available' = Move(available, d, 0, c, n)

\* A pending transaction is cancelled: the n held on d is free again.
Release(d, n) ==
  /\ Held(d) >= n
  /\ available' = [available EXCEPT ![d] = @ + n]
  /\ UNCHANGED ledger

Next ==
  \E d \in Accounts, n \in Amounts :
     \/ Hold(d, n)
     \/ Release(d, n)
     \/ \E c \in Accounts : Pay(d, c, n) \/ Settle(d, c, n)

Spec == Init /\ [][Next]_vars
=============================================================================
