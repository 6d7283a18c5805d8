-------------------------------- MODULE Ledger --------------------------------
(***************************************************************************)
(* The double-entry ledger: the tables accounts, transactions,             *)
(* ledger_entries and outbox, and every committed database transaction     *)
(* that changes them.  packages/lib-ledger writes all rows through         *)
(* postTransaction; the admin API, the transaction worker and the fraud    *)
(* engine change their status afterwards.                                  *)
(*                                                                         *)
(* One action is one committed database transaction.  Module PostingEngine *)
(* opens postTransaction up into its statements and row locks.             *)
(*                                                                         *)
(* Every caller passes one debit and one credit entry, so a transaction    *)
(* has one entry on each side; the two amounts may differ, since only      *)
(* posted entries have to balance when they are written.                   *)
(***************************************************************************)
EXTENDS Integers

CONSTANTS Accounts,   \* account ids
          Txns,       \* transaction ids (bounds the number of postings)
          Keys,       \* idempotency keys
          NoKey,      \* the key column of an id not yet used
          NoAccount,  \* the account column of an id not yet used
          Amounts,    \* amounts a caller may ask for, 0 included
          Opening,    \* balance of each account before the first posting
          Total(_)    \* SQL's SUM of a column: a number for each transaction

Sides == {"debit", "credit"}
TxnStatus == {"pending", "pending_review", "posted", "settled", "cancelled",
              "reversed"}
EntryStatus == {"pending", "posted", "released"}
AccountStatus == {"active", "frozen"}

\* The one fact about SUM that the balances rest on: changing one row's
\* number by x changes the sum by x, and a sum of naturals is a natural.
TotalAssumption ==
  \A f \in [Txns -> Amounts \cup {0}] :
     /\ Total(f) \in Nat
     /\ \A t \in Txns, n \in Amounts \cup {0} :
           Total([f EXCEPT ![t] = n]) = Total(f) - f[t] + n

ASSUME LedgerAssumption ==
  /\ Amounts \subseteq Nat
  /\ Opening \in [Accounts -> Nat]
  /\ NoKey \notin Keys
  /\ NoAccount \notin Accounts
  /\ TotalAssumption
  /\ Total([t \in Txns |-> 0]) = 0

VARIABLES accountStatus,    \* accounts.status
          txnStatus,        \* transactions.status, "none" for an unused id
          idempotencyKey,   \* transactions.idempotency_key
          entries,          \* ledger_entries, by transaction and side
          outbox            \* outbox rows: transaction and topic

vars == <<accountStatus, txnStatus, idempotencyKey, entries, outbox>>

Entry == [account : Accounts \cup {NoAccount},
          amount  : Amounts \cup {0},
          status  : EntryStatus \cup {"none"}]

NoEntry == [account |-> NoAccount, amount |-> 0, status |-> "none"]

\* What a caller hands to postTransaction besides the key.
Postings == [status : {"posted", "pending", "pending_review"},
             debit  : Accounts, paid     : Amounts,
             credit : Accounts, received : Amounts]

Exists(t) == txnStatus[t] # "none"

-----------------------------------------------------------------------------
(* Trigger enforce_double_entry                                            *)

PostedOn(es, t, side) ==
  IF es[t][side].status = "posted" THEN es[t][side].amount ELSE 0

\* A variant: the trigger is missing.
NoDoubleEntryCheck(es, t, st) == TRUE

\* Constraint trigger enforce_double_entry, deferred to the commit.  It fires
\* for updated entries only, and not for a transaction in these statuses.
DoubleEntryCheck(es, t, st) ==
  \/ es[t] = entries[t]
  \/ st \in {"pending", "pending_review", "cancelled"}
  \/ PostedOn(es, t, "debit") = PostedOn(es, t, "credit")

-----------------------------------------------------------------------------
(* computeBalance                                                          *)

\* CASE WHEN direction = side AND status = st THEN amount ELSE 0 END, for one
\* entry of a side, WHERE account_id = a.
Counted(e, a, st) == IF e.account = a /\ e.status = st THEN e.amount ELSE 0

Column(a, side, st) == [t \in Txns |-> Counted(entries[t][side], a, st)]

SumOf(a, side, st) == Total(Column(a, side, st))

LedgerBalance(a) ==
  Opening[a] + SumOf(a, "credit", "posted") - SumOf(a, "debit", "posted")

\* A variant: money on its way counts as available.
AvailableWithPendingCredits(a) ==
  LedgerBalance(a) + SumOf(a, "credit", "pending") - SumOf(a, "debit", "pending")

\* Pending credits do not count; pending debits are holds.
Available(a) == LedgerBalance(a) - SumOf(a, "debit", "pending")

-----------------------------------------------------------------------------
(* postTransaction                                                         *)

EntryStatusOf(p) == IF p.status = "posted" THEN "posted" ELSE "pending"

NewEntries(p) ==
  [side \in Sides |->
     IF side = "debit"
     THEN [account |-> p.debit, amount |-> p.paid, status |-> EntryStatusOf(p)]
     ELSE [account |-> p.credit, amount |-> p.received, status |-> EntryStatusOf(p)]]

\* The checks made before the database transaction begins.
WellFormed(p) ==
  /\ p.paid > 0
  /\ p.received > 0
  /\ EntryStatusOf(p) = "posted" => p.paid = p.received

\* A variant: holds are not subtracted before a debit.
MayDebitIgnoringHolds(a, n) ==
  /\ accountStatus[a] = "active"
  /\ LedgerBalance(a) >= n

\* A variant: the status of the account is not read again under the lock.
MayDebitFrozen(a, n) == Available(a) >= n

\* The checks made under the lock of the entry accounts.
MayDebit(a, n) ==
  /\ accountStatus[a] = "active"
  /\ Available(a) >= n

KeyUsed(k) == \E t \in Txns : idempotencyKey[t] = k

\* The inserts and the commit: row, entries and outbox row become visible at
\* once, after the deferred trigger has looked at the entries.
WriteTransaction(t, k, p) ==
  /\ ~Exists(t)
  /\ entries' = [entries EXCEPT ![t] = NewEntries(p)]
  /\ DoubleEntryCheck(entries', t, p.status)
  /\ txnStatus' = [txnStatus EXCEPT ![t] = p.status]
  /\ idempotencyKey' = [idempotencyKey EXCEPT ![t] = k]
  /\ outbox' = outbox \cup {[txn |-> t, topic |-> p.status]}
  /\ UNCHANGED accountStatus

PostTransaction(t, k, p) ==
  /\ WellFormed(p)
  /\ ~KeyUsed(k)
  /\ MayDebit(p.debit, p.paid)
  /\ WriteTransaction(t, k, p)

-----------------------------------------------------------------------------
(* Status changes of rows already written                                  *)

\* A variant: UPDATE ledger_entries without AND status = 'pending'.
FlippedAlways(e, to) == [account |-> e.account, amount |-> e.amount, status |-> to]

\* UPDATE ledger_entries SET status = to WHERE transaction_id = t AND status = 'pending'
Flipped(e, to) ==
  [account |-> e.account, amount |-> e.amount,
   status |-> IF e.status = "pending" THEN to ELSE e.status]

Flip(t, to) ==
  [entries EXCEPT ![t] = [side \in Sides |-> Flipped(entries[t][side], to)]]

\* Every pending entry of t posts and t takes status st, unless the trigger
\* rolls the whole transaction back.
PostPending(t, st) ==
  /\ DoubleEntryCheck(Flip(t, "posted"), t, st)
  /\ entries' = Flip(t, "posted")
  /\ txnStatus' = [txnStatus EXCEPT ![t] = st]
  /\ UNCHANGED <<accountStatus, idempotencyKey, outbox>>

\* A variant: release accepts any transaction.
ReleaseAnyTransaction(t) == Exists(t) /\ PostPending(t, "posted")

\* Admin API, POST /transactions/:id/release.
ReleaseTransaction(t) ==
  /\ txnStatus[t] \in {"pending_review", "pending"}
  /\ PostPending(t, "posted")

\* Transaction worker, settlement of an ACH or wire row: whatever the status.
SettleTransaction(t) ==
  /\ Exists(t)
  /\ PostPending(t, "settled")

\* Admin API, approval or rejection of a withdrawal: the hold is cancelled.
CancelHold(t) ==
  /\ Exists(t)
  /\ entries' = Flip(t, "released")
  /\ txnStatus' = [txnStatus EXCEPT ![t] = "cancelled"]
  /\ UNCHANGED <<accountStatus, idempotencyKey, outbox>>

\* Admin API, last step of POST /transactions/:id/reverse.  The row was
\* 'posted' when the handler read it, and no row ever returns to 'pending'.
MarkReversed(t) ==
  /\ txnStatus[t] \notin {"none", "pending"}
  /\ txnStatus' = [txnStatus EXCEPT ![t] = "reversed"]
  /\ UNCHANGED <<accountStatus, idempotencyKey, entries, outbox>>

\* A variant: a status the CHECK constraint of transactions.status does not have.
FlagAsBlocked(t) ==
  /\ txnStatus[t] \in {"posted", "pending"}
  /\ txnStatus' = [txnStatus EXCEPT ![t] = "blocked"]
  /\ UNCHANGED <<accountStatus, idempotencyKey, entries, outbox>>

\* Fraud engine: a score at or over the threshold.
FlagTransaction(t) ==
  /\ txnStatus[t] \in {"posted", "pending"}
  /\ txnStatus' = [txnStatus EXCEPT ![t] = "pending_review"]
  /\ UNCHANGED <<accountStatus, idempotencyKey, entries, outbox>>

\* Admin API, POST /users/:id/freeze and /unfreeze: all the accounts of one
\* user that are in the other status.
SetAccountStatus(as, from, to) ==
  /\ as # {}
  /\ \A a \in as : accountStatus[a] = from
  /\ accountStatus' = [a \in Accounts |-> IF a \in as THEN to ELSE accountStatus[a]]
  /\ UNCHANGED <<txnStatus, idempotencyKey, entries, outbox>>

FreezeAccounts(as) == SetAccountStatus(as, "active", "frozen")

UnfreezeAccounts(as) == SetAccountStatus(as, "frozen", "active")

-----------------------------------------------------------------------------

Init ==
  /\ accountStatus = [a \in Accounts |-> "active"]
  /\ txnStatus = [t \in Txns |-> "none"]
  /\ idempotencyKey = [t \in Txns |-> NoKey]
  /\ entries = [t \in Txns |-> [side \in Sides |-> NoEntry]]
  /\ outbox = {}

Next ==
  \/ \E t \in Txns, k \in Keys, p \in Postings : PostTransaction(t, k, p)
  \/ \E t \in Txns : \/ ReleaseTransaction(t)
                     \/ SettleTransaction(t)
                     \/ CancelHold(t)
                     \/ MarkReversed(t)
                     \/ FlagTransaction(t)
  \/ \E as \in SUBSET Accounts : FreezeAccounts(as) \/ UnfreezeAccounts(as)

Spec == Init /\ [][Next]_vars

-----------------------------------------------------------------------------
(* Properties                                                              *)

TypeOK ==
  /\ accountStatus \in [Accounts -> AccountStatus]
  /\ txnStatus \in [Txns -> TxnStatus \cup {"none"}]
  /\ idempotencyKey \in [Txns -> Keys \cup {NoKey}]
  /\ entries \in [Txns -> [Sides -> Entry]]
  /\ outbox \subseteq [txn : Txns, topic : TxnStatus]

\* No account can spend more than it has, whatever the interleaving of
\* postings, settlements, releases and freezes: holds included, the balance
\* computeBalance reports never goes below zero.  postTransaction checks this
\* on the debit side only, once, when the entries are written; the property
\* says that nothing done to the rows later invalidates that check.
NoOverdraft == \A a \in Accounts : Available(a) >= 0

\* The trial balance: money posted to one account has left another one.  For
\* each transaction the posted debit equals the posted credit, also when the
\* entries were written pending and posted later by someone else.
BooksBalance ==
  \A t \in Txns : PostedOn(entries, t, "debit") = PostedOn(entries, t, "credit")

\* The status of a transaction tells the truth about its entries where the
\* handlers rely on it: 'pending' holds money, 'posted' has moved it (reverse
\* mirrors the posted entries of such a transaction), and a transaction under
\* review has not given its hold back.
StatusMatchesEntries ==
  \A t \in Txns, side \in Sides :
     /\ txnStatus[t] = "pending" => entries[t][side].status = "pending"
     /\ txnStatus[t] = "posted" => entries[t][side].status = "posted"
     /\ txnStatus[t] = "pending_review" => entries[t][side].status # "released"

\* What the proofs need besides: an unused id has no entries, and the two
\* entries of a transaction are always in the same status, so that a single
\* UPDATE ... WHERE status = 'pending' moves both or neither.
EntriesPaired ==
  \A t \in Txns :
     /\ entries[t]["debit"].status = entries[t]["credit"].status
     /\ txnStatus[t] = "none" <=> entries[t]["debit"].status = "none"

\* The inductive invariant of the ledger.
LedgerInv ==
  /\ TypeOK
  /\ EntriesPaired
  /\ StatusMatchesEntries
  /\ BooksBalance
  /\ NoOverdraft

\* Entries are append-only: once written, account and amount are fixed, and
\* the status goes from pending to posted or released and never further.  The
\* trigger ledger_no_destructive guards the first half only.
EntriesFinal ==
  [][\A t \in Txns, side \in Sides :
        LET old == entries[t][side]
            new == entries'[t][side]
        IN old.status # "none" =>
             /\ new.account = old.account
             /\ new.amount = old.amount
             /\ new.status # old.status =>
                  /\ old.status = "pending"
                  /\ new.status \in {"posted", "released"}]_vars

\* While an account is frozen no step lowers its available balance: a freeze
\* stops new debits and holds, and a hold that settles during the freeze takes
\* only what was already unavailable.
FrozenNotDebited ==
  [][\A a \in Accounts :
        accountStatus[a] = "frozen" => Available(a)' >= Available(a)]_vars

\* The two figures of computeBalance behave as the account book promises.
Book == INSTANCE AccountBook
          WITH ledger <- [a \in Accounts |-> LedgerBalance(a)],
               available <- [a \in Accounts |-> Available(a)]

ImplementsBook == Book!Spec
=============================================================================
