----------------------------- MODULE PostingEngine -----------------------------
(***************************************************************************)
(* The ledger one SQL statement at a time.  A connection runs one database *)
(* transaction: postTransaction, the release, settlement or cancellation   *)
(* of a transaction, or the freeze of a user.  Statements of different     *)
(* connections interleave; what orders them is the row locks, held until   *)
(* COMMIT or ROLLBACK, and the unique index on the idempotency key.        *)
(* Isolation is READ COMMITTED: every statement reads what is committed    *)
(* when it starts, and an UPDATE that waited for a lock reads the row      *)
(* again.                                                                  *)
(*                                                                         *)
(* The tables of module Ledger hold the committed rows.  Rows written but  *)
(* not committed are locked or invisible to everybody else, so a           *)
(* connection's writes appear with its commit.                             *)
(***************************************************************************)
EXTENDS Ledger

CONSTANTS Connections,  \* the database transactions that are run
          Nobody,       \* holder of a free lock
          NoTxn,        \* a null transaction id
          Inputs,       \* what callers hand to postTransaction: one amount for
                        \* both entries, on two different accounts
          Owned,        \* the accounts of one user, who may be frozen
          IdOrder,      \* rank of an account in ORDER BY id
          HeapOrder,    \* rank of an account in a scan of the table
          MaxRetries    \* maxRetries of withTransaction

ASSUME EngineAssumption ==
  /\ Nobody \notin Connections
  /\ NoTxn \notin Txns
  /\ Inputs \subseteq Postings
  /\ \A p \in Inputs : WellFormed(p) /\ p.debit # p.credit /\ p.paid = p.received
  /\ Owned \subseteq Accounts
  /\ IdOrder \in [Accounts -> Nat]
  /\ HeapOrder \in [Accounts -> Nat]
  /\ \A a, b \in Accounts : IdOrder[a] = IdOrder[b] => a = b
  /\ \A a, b \in Accounts : HeapOrder[a] = HeapOrder[b] => a = b
  /\ MaxRetries \in Nat

VARIABLES conn,          \* each connection: its statement and local variables
          accountLock,   \* who holds FOR UPDATE on a row of accounts
          txnLock,       \* who has locked or updated a row of transactions
          entriesLock    \* who has updated the entries of a transaction

ledgerVars == vars
engineVars == <<vars, conn, accountLock, txnLock, entriesLock>>

Operation == {"post", "release", "settle", "cancel", "freeze", "unfreeze"}

\* The statement a connection executes next, or how its call ended.
Step == {"idle", "lookup", "lockAccounts", "check", "insert", "inserted",
         "lockTxn", "lockEntries", "commit",
         "returned", "refused", "failed"}
Ended == {"returned", "refused", "failed"}

\* The first statement of each operation that can wait.
FirstStep ==
  [post |-> "lookup", release |-> "lockTxn", settle |-> "lockEntries",
   cancel |-> "lockEntries", freeze |-> "lockAccounts", unfreeze |-> "lockAccounts"]

AccountsOf(p) == {p.debit, p.credit}

NoInput == [key |-> NoKey, posting |-> "none"]

IdleConnection ==
  [step |-> "idle", op |-> "post", input |-> NoInput, txn |-> NoTxn,
   wants |-> {}, tries |-> 0, replay |-> FALSE]

\* c's call is at step s of operation o.
At(c, o, s) == conn[c].op = o /\ conn[c].step = s

Continue(c, s) == conn' = [conn EXCEPT ![c].step = s]

-----------------------------------------------------------------------------
(* Locks                                                                   *)

Unlock(c) ==
  /\ accountLock' = [a \in Accounts |->
                       IF accountLock[a] = c THEN Nobody ELSE accountLock[a]]
  /\ txnLock' = [t \in Txns |-> IF txnLock[t] = c THEN Nobody ELSE txnLock[t]]
  /\ entriesLock' = [t \in Txns |->
                       IF entriesLock[t] = c THEN Nobody ELSE entriesLock[t]]

locks == <<accountLock, txnLock, entriesLock>>

\* A variant: the accounts are locked in the order of the entries.
NextAccountByEntry(c) ==
  IF conn[c].op = "post" /\ conn[c].input.posting.debit \in conn[c].wants
  THEN conn[c].input.posting.debit
  ELSE CHOOSE a \in conn[c].wants :
         \A b \in conn[c].wants : HeapOrder[a] =< HeapOrder[b]

\* The row of accounts that c locks next: postings lock in the order of the
\* ids, the UPDATE of a freeze in the order of its scan.
NextAccount(c) ==
  LET rank == IF conn[c].op = "post" THEN IdOrder ELSE HeapOrder
  IN CHOOSE a \in conn[c].wants : \A b \in conn[c].wants : rank[a] =< rank[b]

\* Somebody has inserted a row with c's key and not committed yet.
KeyInFlight(c, d) ==
  /\ At(d, "post", "inserted")
  /\ conn[d].input.key = conn[c].input.key

PendingEntries(t) == \E side \in Sides : entries[t][side].status = "pending"

\* The connections that c's next statement waits for.
Blockers(c) ==
  {d \in Connections \ {c} :
     \/ /\ conn[c].step = "lockAccounts"
        /\ conn[c].wants # {}
        /\ accountLock[NextAccount(c)] = d
     \/ conn[c].step = "lockTxn" /\ txnLock[conn[c].txn] = d
     \/ /\ conn[c].step = "lockEntries"
        /\ PendingEntries(conn[c].txn)
        /\ entriesLock[conn[c].txn] = d
     \/ conn[c].step = "insert" /\ KeyInFlight(c, d)}

\* The connections in cs wait for one another in a circle.
WaitInCircle(cs) ==
  /\ cs # {}
  /\ cs = UNION {Blockers(c) : c \in cs}
  /\ \A c \in cs : Blockers(c) # {}

-----------------------------------------------------------------------------
(* postTransaction                                                         *)

Call(c, k, p) ==
  /\ conn[c].step = "idle"
  /\ conn' = [conn EXCEPT ![c] =
       [IdleConnection EXCEPT !.step = FirstStep["post"],
                              !.input = [key |-> k, posting |-> p],
                              !.replay = KeyUsed(k)]]
  /\ UNCHANGED <<ledgerVars, locks>>

\* SELECT ... WHERE idempotency_key = $1 finds the row.
FindExisting(c, t) ==
  /\ At(c, "post", "lookup")
  /\ idempotencyKey[t] = conn[c].input.key
  /\ conn' = [conn EXCEPT ![c] = [@ EXCEPT !.step = "returned", !.txn = t]]
  /\ UNCHANGED <<ledgerVars, locks>>

\* A variant: no lookup, the unique index is relied on.
SkipLookup(c) ==
  /\ At(c, "post", "lookup")
  /\ conn' = [conn EXCEPT ![c] =
       [@ EXCEPT !.step = "lockAccounts",
                 !.wants = AccountsOf(conn[c].input.posting)]]
  /\ UNCHANGED <<ledgerVars, locks>>

\* A variant: the accounts are not locked.
MissWithoutLocking(c) ==
  /\ At(c, "post", "lookup")
  /\ ~KeyUsed(conn[c].input.key)
  /\ Continue(c, "check")
  /\ UNCHANGED <<ledgerVars, locks>>

MissExisting(c) ==
  /\ At(c, "post", "lookup")
  /\ ~KeyUsed(conn[c].input.key)
  /\ conn' = [conn EXCEPT ![c] =
       [@ EXCEPT !.step = "lockAccounts",
                 !.wants = AccountsOf(conn[c].input.posting)]]
  /\ UNCHANGED <<ledgerVars, locks>>

\* One row of SELECT ... ORDER BY id FOR UPDATE, or of the UPDATE of a freeze,
\* which leaves a row alone that is no longer in the status it looks for.
LockAccount(c) ==
  /\ conn[c].step = "lockAccounts"
  /\ conn[c].wants # {}
  /\ accountLock[NextAccount(c)] = Nobody
  /\ conn' = [conn EXCEPT ![c].wants = @ \ {NextAccount(c)}]
  /\ accountLock' = [accountLock EXCEPT ![NextAccount(c)] = c]
  /\ UNCHANGED <<ledgerVars, txnLock, entriesLock>>

HaveAccounts(c) ==
  /\ conn[c].step = "lockAccounts"
  /\ conn[c].wants = {}
  /\ Continue(c, IF conn[c].op = "post" THEN "check" ELSE "commit")
  /\ UNCHANGED <<ledgerVars, locks>>

\* The debited account is active and has enough available.
CheckDebit(c) ==
  /\ At(c, "post", "check")
  /\ MayDebit(conn[c].input.posting.debit, conn[c].input.posting.paid)
  /\ Continue(c, "insert")
  /\ UNCHANGED <<ledgerVars, locks>>

\* A variant: the connection goes back to the pool without ROLLBACK.
RefuseKeepingLocks(c) ==
  /\ At(c, "post", "check")
  /\ ~MayDebit(conn[c].input.posting.debit, conn[c].input.posting.paid)
  /\ Continue(c, "refused")
  /\ UNCHANGED <<ledgerVars, locks>>

RefuseDebit(c) ==
  /\ At(c, "post", "check")
  /\ ~MayDebit(conn[c].input.posting.debit, conn[c].input.posting.paid)
  /\ Continue(c, "refused")
  /\ Unlock(c)
  /\ UNCHANGED ledgerVars

\* A variant: the column has no unique index.
InsertWithoutIndex(c, t) ==
  /\ At(c, "post", "insert")
  /\ ~Exists(t)
  /\ \A d \in Connections : ~(At(d, "post", "inserted") /\ conn[d].txn = t)
  /\ conn' = [conn EXCEPT ![c] = [@ EXCEPT !.step = "inserted", !.txn = t]]
  /\ UNCHANGED <<ledgerVars, locks>>

\* INSERT INTO transactions under a fresh id, then the entries, the event and
\* the outbox row, none of which can wait for anybody.
InsertRow(c, t) ==
  /\ At(c, "post", "insert")
  /\ ~KeyUsed(conn[c].input.key)
  /\ \A d \in Connections : ~KeyInFlight(c, d)
  /\ ~Exists(t)
  /\ \A d \in Connections : ~(At(d, "post", "inserted") /\ conn[d].txn = t)
  /\ conn' = [conn EXCEPT ![c] = [@ EXCEPT !.step = "inserted", !.txn = t]]
  /\ UNCHANGED <<ledgerVars, locks>>

\* The unique index refuses the key: error 23505, which is not retried.
InsertDuplicate(c) ==
  /\ At(c, "post", "insert")
  /\ KeyUsed(conn[c].input.key)
  /\ Continue(c, "refused")
  /\ Unlock(c)
  /\ UNCHANGED ledgerVars

\* COMMIT, and its answer, which may get lost.
CommitPosting(c) ==
  /\ At(c, "post", "inserted")
  /\ WriteTransaction(conn[c].txn, conn[c].input.key, conn[c].input.posting)
  /\ \E answer \in {"returned", "failed"} : Continue(c, answer)
  /\ Unlock(c)

-----------------------------------------------------------------------------
(* Status changes of transactions and accounts                             *)

\* POST /transactions/:id/release starts with the row of transactions.
StartRelease(c, t) ==
  /\ conn[c].step = "idle"
  /\ Exists(t)
  /\ conn' = [conn EXCEPT ![c] =
       [IdleConnection EXCEPT !.step = FirstStep["release"], !.op = "release", !.txn = t]]
  /\ UNCHANGED <<ledgerVars, locks>>

\* Settlement by the worker, and the cancellation of a withdrawal hold, start
\* with the entries.
StartFlip(c, o, t) ==
  /\ conn[c].step = "idle"
  /\ Exists(t)
  /\ conn' = [conn EXCEPT ![c] =
       [IdleConnection EXCEPT !.step = FirstStep[o], !.op = o, !.txn = t]]
  /\ UNCHANGED <<ledgerVars, locks>>

\* SELECT ... FOR UPDATE, or UPDATE transactions ... WHERE id = $1.
LockTxn(c) ==
  /\ conn[c].step = "lockTxn"
  /\ txnLock[conn[c].txn] = Nobody
  /\ conn[c].op = "release" => txnStatus[conn[c].txn] \in {"pending", "pending_review"}
  /\ txnLock' = [txnLock EXCEPT ![conn[c].txn] = c]
  /\ Continue(c, IF conn[c].op = "release" THEN "lockEntries" ELSE "commit")
  /\ UNCHANGED <<ledgerVars, accountLock, entriesLock>>

NotReleasable(c) ==
  /\ At(c, "release", "lockTxn")
  /\ txnLock[conn[c].txn] = Nobody
  /\ txnStatus[conn[c].txn] \notin {"pending", "pending_review"}
  /\ Continue(c, "refused")
  /\ Unlock(c)
  /\ UNCHANGED ledgerVars

\* UPDATE ledger_entries ... AND status = 'pending' locks the rows it updates
\* and none if there are none.
LockEntries(c) ==
  /\ conn[c].step = "lockEntries"
  /\ IF PendingEntries(conn[c].txn)
     THEN /\ entriesLock[conn[c].txn] = Nobody
          /\ entriesLock' = [entriesLock EXCEPT ![conn[c].txn] = c]
     ELSE UNCHANGED entriesLock
  /\ Continue(c, IF conn[c].op = "release" THEN "commit" ELSE "lockTxn")
  /\ UNCHANGED <<ledgerVars, accountLock, txnLock>>

CommitStatus(c) ==
  /\ conn[c].step = "commit"
  /\ \/ conn[c].op = "release" /\ PostPending(conn[c].txn, "posted")
     \/ conn[c].op = "settle"  /\ SettleTransaction(conn[c].txn)
     \/ conn[c].op = "cancel"  /\ CancelHold(conn[c].txn)
  /\ Continue(c, "returned")
  /\ Unlock(c)

\* UPDATE accounts ... WHERE user_id = $1 AND status = 'active' (or 'frozen').
StartFreeze(c, o) ==
  LET from == IF o = "freeze" THEN "active" ELSE "frozen"
  IN /\ conn[c].step = "idle"
     /\ conn' = [conn EXCEPT ![c] =
          [IdleConnection EXCEPT !.step = FirstStep[o], !.op = o,
                                 !.wants = {a \in Owned : accountStatus[a] = from}]]
     /\ UNCHANGED <<ledgerVars, locks>>

Mine(c, from) == {a \in Accounts : accountLock[a] = c /\ accountStatus[a] = from}

CommitFreeze(c) ==
  /\ conn[c].step = "commit"
  /\ \/ conn[c].op = "freeze" /\ FreezeAccounts(Mine(c, "active"))
     \/ conn[c].op = "unfreeze" /\ UnfreezeAccounts(Mine(c, "frozen"))
     \/ /\ \/ conn[c].op = "freeze" /\ Mine(c, "active") = {}
           \/ conn[c].op = "unfreeze" /\ Mine(c, "frozen") = {}
        /\ UNCHANGED ledgerVars
  /\ Continue(c, "returned")
  /\ Unlock(c)

\* A single UPDATE of transactions: it waits for the row, then tests its WHERE.
UpdateStatus(t) ==
  /\ txnLock[t] = Nobody
  /\ FlagTransaction(t) \/ MarkReversed(t)
  /\ UNCHANGED <<conn, locks>>

-----------------------------------------------------------------------------
(* Errors                                                                  *)

InTransaction(c) == conn[c].step \notin Ended \cup {"idle"}

\* Any other error, a dropped connection or a stopped server: ROLLBACK.
Disconnect(c) ==
  /\ InTransaction(c)
  /\ Continue(c, "failed")
  /\ Unlock(c)
  /\ UNCHANGED ledgerVars

\* After a deadlock (40P01) withTransaction runs the callback again.
Restart(c) ==
  /\ conn[c].op \in {"post", "release", "settle", "cancel"}
  /\ conn[c].tries < MaxRetries
  /\ conn' = [conn EXCEPT ![c] =
       [conn[c] EXCEPT !.step = FirstStep[conn[c].op], !.wants = {},
                        !.tries = conn[c].tries + 1]]

\* The freeze is a plain query, which is not retried.
GiveUp(c) ==
  /\ conn[c].op \in {"freeze", "unfreeze"} \/ conn[c].tries = MaxRetries
  /\ Continue(c, "failed")

\* The server finds the circle and aborts one of the transactions in it.
AbortVictim(c) ==
  /\ \E cs \in SUBSET Connections : c \in cs /\ WaitInCircle(cs)
  /\ Restart(c) \/ GiveUp(c)
  /\ Unlock(c)
  /\ UNCHANGED ledgerVars

-----------------------------------------------------------------------------

EngineInit ==
  /\ Init
  /\ conn = [c \in Connections |-> IdleConnection]
  /\ accountLock = [a \in Accounts |-> Nobody]
  /\ txnLock = [t \in Txns |-> Nobody]
  /\ entriesLock = [t \in Txns |-> Nobody]

Start(c) ==
  \/ \E k \in Keys, p \in Inputs : Call(c, k, p)
  \/ \E t \in Txns : StartRelease(c, t) \/ \E o \in {"settle", "cancel"} : StartFlip(c, o, t)
  \/ \E o \in {"freeze", "unfreeze"} : StartFreeze(c, o)

\* The statements of a call that has started.
Proceed(c) ==
  \/ \E t \in Txns : FindExisting(c, t) \/ InsertRow(c, t)
  \/ MissExisting(c)
  \/ LockAccount(c)
  \/ HaveAccounts(c)
  \/ CheckDebit(c)
  \/ RefuseDebit(c)
  \/ InsertDuplicate(c)
  \/ CommitPosting(c)
  \/ LockTxn(c)
  \/ NotReleasable(c)
  \/ LockEntries(c)
  \/ CommitStatus(c)
  \/ CommitFreeze(c)

EngineNext ==
  \/ \E c \in Connections : Start(c) \/ Proceed(c) \/ Disconnect(c) \/ AbortVictim(c)
  \/ \E t \in Txns : UpdateStatus(t)

\* A statement that can run is run, and the server looks for deadlocks after
\* deadlock_timeout.  Nobody has to make a call.
EngineFairness ==
  /\ \A c \in Connections : WF_engineVars(Proceed(c))
  /\ WF_engineVars(\E c \in Connections : AbortVictim(c))

EngineSpec == EngineInit /\ [][EngineNext]_engineVars /\ EngineFairness
-----------------------------------------------------------------------------
(* Properties                                                              *)

EngineTypeOK ==
  /\ TypeOK
  /\ conn \in [Connections ->
       [step : Step, op : Operation,
        input : [key : Keys, posting : Inputs] \cup {NoInput},
        txn : Txns \cup {NoTxn}, wants : SUBSET Accounts,
        tries : 0..MaxRetries, replay : BOOLEAN]]
  /\ accountLock \in [Accounts -> Connections \cup {Nobody}]
  /\ txnLock \in [Txns -> Connections \cup {Nobody}]
  /\ entriesLock \in [Txns -> Connections \cup {Nobody}]

\* Whatever the interleaving of statements, the committed rows go through
\* steps of module Ledger: the balance a posting checked is still there when it
\* commits, although settlements and releases take no lock on accounts, and a
\* freeze that commits first is seen.
ImplementsLedger == Spec

\* postTransaction is idempotent: calls under one key that return name one and
\* the same committed transaction, also when they ran at the same time, were
\* run again after a deadlock, or lost the answer to their COMMIT.
SameKeySameTransaction ==
  \A c, d \in Connections :
     /\ At(c, "post", "returned") /\ At(d, "post", "returned")
     /\ conn[c].input.key = conn[d].input.key
     => /\ conn[c].txn = conn[d].txn
        /\ idempotencyKey[conn[c].txn] = conn[c].input.key

\* A call under a key that is already committed is never refused, even if the
\* money is gone by now or the account frozen.  (A call that overlaps the first
\* one may be: it misses the key and then meets the unique index.)
ReplayIsAnswered ==
  \A c \in Connections : conn[c].replay => conn[c].step # "refused"

\* lib-ledger locks accounts "in deterministic order to avoid deadlocks": no
\* circle of waiting connections consists of postings alone.
PostingsNeverDeadlock ==
  \A cs \in SUBSET Connections :
     WaitInCircle(cs) => \E c \in cs : conn[c].op # "post"

\* Every call ends: locks are given back on each way out of a transaction, and
\* deadlocks between release and settlement, or posting and freeze, are broken.
EveryCallEnds ==
  \A c \in Connections : InTransaction(c) ~> conn[c].step \in Ended
=============================================================================
