--------------------------- MODULE LedgerRefinement ---------------------------
(***************************************************************************)
(* Two refinements.  The ledger implements the account book: the sums      *)
(* computeBalance takes over the rows of ledger_entries behave like two    *)
(* figures per account that are paid, held, settled and released.  And the *)
(* posting engine implements the ledger: database transactions that run    *)
(* statement by statement, ordered by nothing but row locks, behave like   *)
(* the ledger's atomic actions.                                            *)
(***************************************************************************)
EXTENDS LedgerProofs, PostingEngine, FiniteSetTheorems, WellFoundedInduction

\* A written entry names an account and an amount.
EntriesReal ==
  \A t \in Txns, side \in Sides :
     entries[t][side].status # "none" =>
        /\ entries[t][side].account \in Accounts
        /\ entries[t][side].amount \in Amounts

\* Every step keeps written entries real.
LEMMA RealStep == LedgerInv /\ EntriesReal /\ [Next]_vars => EntriesReal'
<1> SUFFICES ASSUME LedgerInv, EntriesReal, [Next]_vars,
                    NEW u \in Txns, NEW side \in Sides,
                    entries'[u][side].status # "none"
             PROVE  /\ entries'[u][side].account \in Accounts
                    /\ entries'[u][side].amount \in Amounts
  BY DEF EntriesReal
<1>1. CASE entries[u][side].status # "none"
  <2>1. EntryFinal(u, side)
    BY FinalStep
  <2>2. QED
    BY <1>1, <2>1 DEF EntryFinal, EntriesReal
<1>2. CASE entries[u][side].status = "none"
  <2>1. ASSUME NEW t \in Txns, NEW to \in {"posted", "released"}, entries' = Flip(t, to)
        PROVE  FALSE
    <3>1. CASE t = u
      BY <1>2, <2>1, <3>1 DEF Flip, Flipped, LedgerInv, TypeOK
    <3>2. CASE t # u
      BY <1>2, <2>1, <3>2 DEF Flip, LedgerInv, TypeOK
    <3>3. QED
      BY <3>1, <3>2
  <2>2. ASSUME UNCHANGED entries
        PROVE  FALSE
    BY <1>2, <2>2
  <2>3. ASSUME NEW t \in Txns, NEW k \in Keys, NEW p \in Postings,
               PostTransaction(t, k, p)
        PROVE  /\ entries'[u][side].account \in Accounts
               /\ entries'[u][side].amount \in Amounts
    <3>1. CASE t = u
      <4>1. entries'[u] = NewEntries(p)
        BY <2>3, <3>1 DEF PostTransaction, WriteTransaction, LedgerInv, TypeOK
      <4>2. QED
        BY <4>1 DEF NewEntries, Postings, Sides
    <3>2. CASE t # u
      BY <1>2, <2>3, <3>2 DEF PostTransaction, WriteTransaction, LedgerInv, TypeOK
    <3>3. QED
      BY <3>1, <3>2
  <2>4. QED
    BY <2>1, <2>2, <2>3
       DEF Next, ReleaseTransaction, SettleTransaction, PostPending, CancelHold,
           MarkReversed, FlagTransaction, FreezeAccounts, UnfreezeAccounts, SetAccountStatus, vars
<1>3. QED
  BY <1>1, <1>2

-----------------------------------------------------------------------------
(* The two figures of an account, as transactions change them               *)

\* What the entries of t, as es has them, add to the ledger balance of a.
Moved(es, t, a) ==
  Counted(es[t]["credit"], a, "posted") - Counted(es[t]["debit"], a, "posted")

\* computeBalance's ledger figure moves by the change in one transaction's
\* contribution.
LEMMA LedgerBalanceUpdate ==
  ASSUME TypeOK, TypeOK', NEW t \in Txns,
         \A u \in Txns : u # t => entries'[u] = entries[u],
         NEW a \in Accounts
  PROVE  LedgerBalance(a)' = LedgerBalance(a) - Moved(entries, t, a)
                                              + Moved(entries', t, a)
<1> DEFINE C(e, st) == Counted(e, a, st)
<1>1. \A side \in Sides, st \in EntryStatus :
         /\ SumOf(a, side, st) \in Nat
         /\ C(entries[t][side], st) \in Nat
         /\ C(entries'[t][side], st) \in Nat
  <2>1. ASSUME NEW side \in Sides, NEW st \in EntryStatus
        PROVE  /\ C(entries[t][side], st) \in Nat
               /\ C(entries'[t][side], st) \in Nat
    BY EntryAmount, EntryAmountNext
  <2>2. QED
    BY <2>1, ColumnType
<1>2. \A side \in Sides, st \in EntryStatus :
         SumOf(a, side, st)' = SumOf(a, side, st) - C(entries[t][side], st)
                                                  + C(entries'[t][side], st)
  BY SumUpdate
<1>3. Opening[a] \in Nat
  BY LedgerAssumption
<1>4. {"debit", "credit"} \subseteq Sides /\ {"posted", "pending"} \subseteq EntryStatus
  BY DEF Sides, EntryStatus
<1>5. /\ Moved(entries, t, a) = C(entries[t]["credit"], "posted")
                                - C(entries[t]["debit"], "posted")
      /\ Moved(entries', t, a) = C(entries'[t]["credit"], "posted")
                                 - C(entries'[t]["debit"], "posted")
  BY DEF Moved
<1> HIDE DEF C
<1>6. QED
  BY <1>1, <1>2, <1>3, <1>4, <1>5 DEF LedgerBalance

\* A hold is part of the money held on its account.
LEMMA HeldCovers ==
  ASSUME TypeOK, NEW t \in Txns, NEW a \in Accounts
  PROVE  LedgerBalance(a) - Available(a) >= Counted(entries[t]["debit"], a, "pending")
<1> DEFINE f == Column(a, "debit", "pending")
           x == Counted(entries[t]["debit"], a, "pending")
<1>1. f \in [Txns -> Amounts \cup {0}] /\ Total(f) \in Nat
  BY ColumnType DEF Sides, EntryStatus, SumOf
<1>2. f[t] = x
  BY DEF Column
<1>3. x \in Nat
  BY EntryAmount DEF Sides, EntryStatus
<1>4. Total([f EXCEPT ![t] = 0]) = Total(f) - f[t] + 0
  BY <1>1, LedgerAssumption DEF TotalAssumption
<1>5. [f EXCEPT ![t] = 0] \in [Txns -> Amounts \cup {0}]
  BY <1>1
<1>6. Total([f EXCEPT ![t] = 0]) \in Nat
  BY <1>5, LedgerAssumption DEF TotalAssumption
<1>7. Total(f) >= x
  BY <1>1, <1>2, <1>3, <1>4, <1>6
<1>8. Available(a) = LedgerBalance(a) - Total(f)
  BY DEF Available, SumOf
<1>9. LedgerBalance(a) \in Int
  BY AvailableType
<1>10. QED
  BY <1>1, <1>3, <1>7, <1>8, <1>9

-----------------------------------------------------------------------------
(* Every committed database transaction is a step of the account book       *)

\* postTransaction pays at once when the status is 'posted', and holds the
\* debited amount otherwise.
LEMMA PostIsPayOrHold ==
  ASSUME LedgerInv, TypeOK', NEW t \in Txns, NEW k \in Keys, NEW p \in Postings,
         PostTransaction(t, k, p)
  PROVE  Book!Next
<1>1. /\ p.debit \in Accounts
      /\ p.credit \in Accounts
      /\ p.paid \in Amounts
      /\ p.paid > 0
      /\ Available(p.debit) >= p.paid
      /\ p.status = "posted" => p.paid = p.received
  BY DEF Postings, PostTransaction, WriteTransaction, WellFormed, MayDebit, EntryStatusOf
<1>2. ASSUME NEW a \in Accounts
      PROVE  /\ Available(a)' = Available(a)
                 - (IF a = p.debit THEN p.paid ELSE 0)
                 + (IF a = p.credit /\ p.status = "posted" THEN p.paid ELSE 0)
             /\ LedgerBalance(a)' = LedgerBalance(a)
                 - (IF a = p.debit /\ p.status = "posted" THEN p.paid ELSE 0)
                 + (IF a = p.credit /\ p.status = "posted" THEN p.paid ELSE 0)
             /\ Available(a) \in Int
             /\ LedgerBalance(a) \in Int
             /\ p.paid \in Nat
  <2>1. /\ p.paid \in Nat
        /\ p.received \in Nat
        /\ Available(a) \in Int
        /\ Available(a)' = Available(a)
             + (IF p.credit = a /\ p.status = "posted" THEN p.received ELSE 0)
             - (IF p.debit = a THEN p.paid ELSE 0)
    BY PostEffect
  <2>2. LedgerBalance(a)' = LedgerBalance(a) - Moved(entries, t, a) + Moved(entries', t, a)
    BY LedgerBalanceUpdate DEF LedgerInv, PostTransaction, WriteTransaction, TypeOK
  <2>3. Moved(entries, t, a) = 0
    <3>1. \A side \in Sides : entries[t][side].status = "none"
      BY DEF LedgerInv, EntriesPaired, PostTransaction, WriteTransaction, Exists, Sides
    <3>2. QED
      BY <3>1 DEF Moved, Counted, Sides
  <2>4. entries'[t] = NewEntries(p)
    BY DEF PostTransaction, WriteTransaction, LedgerInv, TypeOK
  <2>5. Moved(entries', t, a)
          = (IF p.credit = a /\ p.status = "posted" THEN p.received ELSE 0)
            - (IF p.debit = a /\ p.status = "posted" THEN p.paid ELSE 0)
    BY <2>1, <2>4 DEF Moved, Counted, NewEntries, EntryStatusOf, Sides
  <2>6. LedgerBalance(a) \in Int
    BY AvailableType DEF LedgerInv
  <2>7. QED
    BY <1>1, <2>1, <2>2, <2>3, <2>5, <2>6
<1>3. CASE p.status = "posted"
  <2>1. Book!Pay(p.debit, p.credit, p.paid)
    BY <1>1, <1>2, <1>3 DEF Book!Pay, Book!Move
  <2>2. QED
    BY <1>1, <2>1 DEF Book!Next
<1>4. CASE p.status # "posted"
  <2>1. Book!Hold(p.debit, p.paid)
    BY <1>1, <1>2, <1>4 DEF Book!Hold
  <2>2. QED
    BY <1>1, <2>1 DEF Book!Next
<1>5. QED
  BY <1>3, <1>4

\* Posting the pending entries of a transaction settles its hold; releasing
\* them gives the hold back; entries already final change nothing.
LEMMA FlipIsSettleOrRelease ==
  ASSUME LedgerInv, EntriesReal, TypeOK', NEW t \in Txns,
         NEW to \in {"posted", "released"}, entries' = Flip(t, to), Exists(t),
         to = "posted" => \/ entries'[t] = entries[t]
                          \/ PostedOn(entries', t, "debit")
                               = PostedOn(entries', t, "credit")
  PROVE  [Book!Next]_Book!vars
<1> DEFINE d == entries[t]["debit"]
           c == entries[t]["credit"]
<1>1. /\ entries'[t]["debit"] = Flipped(d, to)
      /\ entries'[t]["credit"] = Flipped(c, to)
      /\ \A u \in Txns : u # t => entries'[u] = entries[u]
  BY FlipRows
<1>2. /\ d.account \in Accounts /\ d.amount \in Amounts
      /\ c.account \in Accounts /\ c.amount \in Amounts
      /\ d.status = c.status
      /\ d.status # "none"
  BY DEF LedgerInv, EntriesPaired, EntriesReal, Exists, Sides
<1>3. d.amount \in Nat /\ c.amount \in Nat
  BY EntryAmount DEF LedgerInv, Sides
<1>4. ASSUME NEW a \in Accounts
      PROVE  /\ Available(a) \in Int
             /\ LedgerBalance(a) \in Int
             /\ Available(a)' = Available(a) - Effect(entries, t, a) + Effect(entries', t, a)
             /\ LedgerBalance(a)' = LedgerBalance(a) - Moved(entries, t, a)
                                                     + Moved(entries', t, a)
  BY <1>1, AvailableType, AvailableUpdate, LedgerBalanceUpdate DEF LedgerInv
<1>5. CASE d.status # "pending"
  <2>1. ASSUME NEW a \in Accounts
        PROVE  Available(a)' = Available(a) /\ LedgerBalance(a)' = LedgerBalance(a)
    <3>1. /\ Counted(Flipped(d, to), a, "posted") = Counted(d, a, "posted")
          /\ Counted(Flipped(d, to), a, "pending") = Counted(d, a, "pending")
          /\ Counted(Flipped(c, to), a, "posted") = Counted(c, a, "posted")
      BY <1>2, <1>5 DEF Counted, Flipped
    <3>2. /\ Counted(d, a, "posted") \in Nat
          /\ Counted(d, a, "pending") \in Nat
          /\ Counted(c, a, "posted") \in Nat
      BY <1>3 DEF Counted
    <3> HIDE DEF d, c
    <3>3. /\ Effect(entries', t, a) = Effect(entries, t, a)
          /\ Moved(entries', t, a) = Moved(entries, t, a)
          /\ Effect(entries, t, a) \in Int
          /\ Moved(entries, t, a) \in Int
      BY <1>1, <3>1, <3>2 DEF Effect, Moved, d, c
    <3>4. QED
      BY <1>4, <3>3
  <2>2. UNCHANGED Book!vars
    BY <2>1 DEF Book!vars
  <2>3. QED
    BY <2>2
<1>6. CASE d.status = "pending"
  <2>1. LedgerBalance(d.account) - Available(d.account) >= d.amount
    <3>1. Counted(d, d.account, "pending") = d.amount
      BY <1>6 DEF Counted
    <3>2. QED
      BY <1>2, <3>1, HeldCovers DEF LedgerInv
  <2>2. ASSUME NEW a \in Accounts
        PROVE  /\ Effect(entries, t, a) = 0 - (IF a = d.account THEN d.amount ELSE 0)
               /\ Moved(entries, t, a) = 0
    BY <1>2, <1>3, <1>6 DEF Effect, Moved, Counted
  <2>3. CASE to = "posted"
    <3>1. c.amount = d.amount
      <4>1. PostedOn(entries', t, "debit") = d.amount
        BY <1>1, <1>6, <2>3 DEF PostedOn, Flipped
      <4>2. PostedOn(entries', t, "credit") = c.amount
        BY <1>1, <1>2, <1>6, <2>3 DEF PostedOn, Flipped
      <4>3. entries'[t] # entries[t]
        BY <1>1, <1>6, <2>3 DEF Flipped
      <4>4. QED
        BY <2>3, <4>1, <4>2, <4>3
    <3>2. ASSUME NEW a \in Accounts
          PROVE  Effect(entries', t, a) = (IF a = c.account THEN d.amount ELSE 0)
                                          - (IF a = d.account THEN d.amount ELSE 0)
      BY <1>1, <1>2, <1>3, <1>6, <2>3, <3>1 DEF Effect, Counted, Flipped
    <3>3. ASSUME NEW a \in Accounts
          PROVE  Moved(entries', t, a) = (IF a = c.account THEN d.amount ELSE 0)
                                         - (IF a = d.account THEN d.amount ELSE 0)
      BY <1>1, <1>2, <1>3, <1>6, <2>3, <3>1 DEF Moved, Counted, Flipped
    <3> HIDE DEF d, c
    <3>4. ASSUME NEW a \in Accounts
          PROVE  /\ Available(a)' = Available(a) - (IF a = d.account THEN 0 ELSE 0)
                                    + (IF a = c.account THEN d.amount ELSE 0)
                 /\ LedgerBalance(a)' = LedgerBalance(a)
                                        - (IF a = d.account THEN d.amount ELSE 0)
                                        + (IF a = c.account THEN d.amount ELSE 0)
      BY <1>3, <1>4, <2>2, <3>2, <3>3
    <3>5. Book!Settle(d.account, c.account, d.amount)
      BY <1>2, <2>1, <3>4 DEF Book!Settle, Book!Held, Book!Move
    <3>6. QED
      BY <1>2, <3>5 DEF Book!Next
  <2>4. CASE to = "released"
    <3>1. ASSUME NEW a \in Accounts
          PROVE  Effect(entries', t, a) = 0 /\ Moved(entries', t, a) = 0
      BY <1>1, <1>2, <1>6, <2>4 DEF Effect, Moved, Counted, Flipped
    <3> HIDE DEF d, c
    <3>2. ASSUME NEW a \in Accounts
          PROVE  /\ Available(a)' = Available(a) + (IF a = d.account THEN d.amount ELSE 0)
                 /\ LedgerBalance(a)' = LedgerBalance(a)
      BY <1>3, <1>4, <2>2, <3>1
    <3>3. Book!Release(d.account, d.amount)
      BY <1>2, <1>3, <1>4, <2>1, <3>2 DEF Book!Release, Book!Held
    <3>4. QED
      BY <1>2, <3>3 DEF Book!Next
  <2>5. QED
    BY <2>3, <2>4
<1>7. QED
  BY <1>5, <1>6

\* A step of the ledger is a step of the account book, or changes neither
\* figure of any account.
LEMMA BookStep ==
  LedgerInv /\ EntriesReal /\ [Next]_vars => [Book!Next]_Book!vars
<1> SUFFICES ASSUME LedgerInv, EntriesReal, [Next]_vars
             PROVE  [Book!Next]_Book!vars
  OBVIOUS
<1>1. TypeOK'
  BY TypeStep DEF LedgerInv
<1>2. ASSUME NEW t \in Txns, NEW k \in Keys, NEW p \in Postings,
             PostTransaction(t, k, p)
      PROVE  [Book!Next]_Book!vars
  BY <1>1, <1>2, PostIsPayOrHold
<1>3. ASSUME NEW t \in Txns, NEW st \in {"posted", "settled"}, Exists(t),
             PostPending(t, st)
      PROVE  [Book!Next]_Book!vars
  <2>1. /\ entries' = Flip(t, "posted")
        /\ \/ entries'[t] = entries[t]
           \/ PostedOn(entries', t, "debit") = PostedOn(entries', t, "credit")
    BY <1>3 DEF PostPending, DoubleEntryCheck
  <2>2. QED
    BY <1>1, <1>3, <2>1, FlipIsSettleOrRelease
<1>4. ASSUME NEW t \in Txns, CancelHold(t)
      PROVE  [Book!Next]_Book!vars
  BY <1>1, <1>4, FlipIsSettleOrRelease DEF CancelHold
<1>5. ASSUME UNCHANGED entries
      PROVE  [Book!Next]_Book!vars
  <2>1. \A a \in Accounts : /\ Available(a)' = Available(a)
                            /\ LedgerBalance(a)' = LedgerBalance(a)
    BY <1>5, SameEntries
  <2>2. UNCHANGED Book!vars
    BY <2>1 DEF Book!vars
  <2>3. QED
    BY <2>2
<1>6. QED
  BY <1>2, <1>3, <1>4, <1>5
     DEF Next, ReleaseTransaction, SettleTransaction, Exists,
         MarkReversed, FlagTransaction, FreezeAccounts, UnfreezeAccounts, SetAccountStatus, vars

\* The empty ledger shows the opening balances, with nothing held.
LEMMA BookInit == Init => Book!Init
<1> SUFFICES ASSUME Init PROVE Book!Init
  OBVIOUS
<1>1. ASSUME NEW a \in Accounts
      PROVE  LedgerBalance(a) = Opening[a] /\ Available(a) = Opening[a]
  BY OpeningBalance
<1>2. Opening = [a \in Accounts |-> Opening[a]]
  BY LedgerAssumption
<1>3. QED
  BY <1>1, <1>2 DEF Book!Init

\* The ledger implements the account book.
THEOREM LedgerImplementsBook == Spec => ImplementsBook
<1>1. Init => EntriesReal
  BY DEF Init, EntriesReal, NoEntry, Sides
<1>2. Spec => []EntriesReal
  BY <1>1, RealStep, LedgerInvariant, PTL DEF Spec
<1>3. QED
  BY <1>2, BookInit, BookStep, LedgerInvariant, PTL DEF Spec, ImplementsBook, Book!Spec

-----------------------------------------------------------------------------
(* The posting engine implements the ledger                                *)

PostingSteps == {"idle", "lookup", "lockAccounts", "check", "insert", "inserted"} \cup Ended
FlipSteps == {"lockTxn", "lockEntries", "commit"} \cup Ended
FreezeSteps == {"lockAccounts", "commit"} \cup Ended

\* A connection is at a statement of its operation and knows its arguments.
CallKnown(c) ==
  /\ conn[c].op = "post" =>
       /\ conn[c].step \in PostingSteps
       /\ conn[c].step # "idle" => conn[c].input \in [key : Keys, posting : Inputs]
  /\ conn[c].op \in {"release", "settle", "cancel"} =>
       /\ conn[c].step \in FlipSteps
       /\ conn[c].txn \in Txns /\ Exists(conn[c].txn)
  /\ conn[c].op \in {"freeze", "unfreeze"} => conn[c].step \in FreezeSteps

CallsKnown == \A c \in Connections : CallKnown(c)

Debited(c) == conn[c].input.posting.debit
Paid(c) == conn[c].input.posting.paid
EntryAccounts(c) == AccountsOf(conn[c].input.posting)

\* A posting holds the accounts it does not want any more, and no others; those
\* it holds while it wants one come before it.
HoldsAccounts(c) ==
  conn[c].op = "post" =>
     /\ conn[c].step = "lockAccounts" => conn[c].wants \subseteq EntryAccounts(c)
     /\ conn[c].step \in {"lockAccounts", "check", "insert", "inserted"} =>
          \A a \in EntryAccounts(c) :
             \/ accountLock[a] = c
             \/ conn[c].step = "lockAccounts" /\ a \in conn[c].wants
     /\ \A a \in Accounts : accountLock[a] = c =>
          /\ conn[c].step \in {"lockAccounts", "check", "insert", "inserted"}
          /\ conn[c].step = "lockAccounts" => \A b \in conn[c].wants : IdOrder[a] < IdOrder[b]

PostingLocks == \A c \in Connections : HoldsAccounts(c)

\* What a posting has checked is true until it commits.
CheckCurrent(c) ==
  conn[c].op = "post" /\ conn[c].step \in {"insert", "inserted"} =>
     \A a \in Accounts, n \in Amounts : a = Debited(c) /\ n = Paid(c) => MayDebit(a, n)

CheckIsCurrent == \A c \in Connections : CheckCurrent(c)

\* The row it has inserted is its own, and so is the key.
InsertOwn(c) ==
  At(c, "post", "inserted") =>
     /\ conn[c].txn \in Txns
     /\ ~Exists(conn[c].txn)
     /\ ~KeyUsed(conn[c].input.key)
     /\ \A d \in Connections \ {c} : At(d, "post", "inserted") =>
           conn[d].txn # conn[c].txn /\ conn[d].input.key # conn[c].input.key

InsertIsOwn == \A c \in Connections : InsertOwn(c)

\* Who commits a status holds the row; a release, since it read the status.
ReleaseCurrent(c) ==
  /\ conn[c].op \in {"release", "settle", "cancel"} /\ conn[c].step = "commit" =>
        txnLock[conn[c].txn] = c
  /\ conn[c].op = "release" /\ conn[c].step \in {"lockEntries", "commit"} =>
        /\ txnLock[conn[c].txn] = c
        /\ txnStatus[conn[c].txn] \in {"pending", "pending_review"}

ReleaseIsCurrent == \A c \in Connections : ReleaseCurrent(c)

EngineInv ==
  /\ LedgerInv
  /\ EngineTypeOK
  /\ CallsKnown
  /\ PostingLocks
  /\ CheckIsCurrent
  /\ InsertIsOwn
  /\ ReleaseIsCurrent

Mover(c) == Start(c) \/ Proceed(c) \/ Disconnect(c) \/ AbortVictim(c)

-----------------------------------------------------------------------------
(* Types                                                                   *)

ConnectionRecord ==
  [step : Step, op : Operation,
   input : [key : Keys, posting : Inputs] \cup {NoInput},
   txn : Txns \cup {NoTxn}, wants : SUBSET Accounts,
   tries : 0..MaxRetries, replay : BOOLEAN]

LEMMA IdleType == IdleConnection \in ConnectionRecord
  BY EngineAssumption DEF IdleConnection, ConnectionRecord, Step, Operation

LEMMA FirstSteps ==
  /\ \A o \in {"settle", "cancel"} : FirstStep[o] = "lockEntries"
  /\ \A o \in {"freeze", "unfreeze"} : FirstStep[o] = "lockAccounts"
  /\ FirstStep["post"] = "lookup" /\ FirstStep["release"] = "lockTxn"
  BY DEF FirstStep

\* Giving locks back keeps the types of the locks.
LEMMA UnlockFrees ==
  ASSUME EngineTypeOK, NEW c \in Connections, Unlock(c)
  PROVE  /\ accountLock' \in [Accounts -> Connections \cup {Nobody}]
         /\ txnLock' \in [Txns -> Connections \cup {Nobody}]
         /\ entriesLock' \in [Txns -> Connections \cup {Nobody}]
         /\ \A a \in Accounts : accountLock'[a] # c
         /\ \A d \in Connections, a \in Accounts :
               d # c => (accountLock'[a] = d <=> accountLock[a] = d)
         /\ \A d \in Connections, t \in Txns : d # c => (txnLock'[t] = d <=> txnLock[t] = d)
         /\ \A d \in Connections, t \in Txns :
               d # c => (entriesLock'[t] = d <=> entriesLock[t] = d)
         /\ \A t \in Txns : txnLock'[t] # c /\ entriesLock'[t] # c
  BY EngineAssumption DEF EngineTypeOK, Unlock

LEMMA ConnType ==
  ASSUME EngineTypeOK, NEW c \in Connections, NEW r \in ConnectionRecord,
         conn' = [conn EXCEPT ![c] = r]
  PROVE  /\ conn' \in [Connections -> ConnectionRecord]
         /\ conn'[c] = r
         /\ \A d \in Connections : d # c => conn'[d] = conn[d]
  BY DEF EngineTypeOK, ConnectionRecord

\* The next statement of a call, its other variables as they were.
LEMMA ContinueType ==
  ASSUME EngineTypeOK, NEW c \in Connections, NEW s \in Step, Continue(c, s)
  PROVE  /\ conn' \in [Connections -> ConnectionRecord]
         /\ conn'[c] = [conn[c] EXCEPT !.step = s]
         /\ \A d \in Connections : d # c => conn'[d] = conn[d]
  BY DEF EngineTypeOK, ConnectionRecord, Continue

\* A step of a call writes the variables of its connection only, and touches
\* no lock that another one holds.
LEMMA MoverType ==
  ASSUME EngineTypeOK, CallsKnown, NEW c \in Connections, Mover(c)
  PROVE  /\ conn' \in [Connections -> ConnectionRecord]
         /\ accountLock' \in [Accounts -> Connections \cup {Nobody}]
         /\ txnLock' \in [Txns -> Connections \cup {Nobody}]
         /\ entriesLock' \in [Txns -> Connections \cup {Nobody}]
         /\ \A d \in Connections : d # c => conn'[d] = conn[d]
         /\ \A d \in Connections, a \in Accounts :
               d # c => (accountLock'[a] = d <=> accountLock[a] = d)
         /\ \A d \in Connections, t \in Txns : d # c => (txnLock'[t] = d <=> txnLock[t] = d)
         /\ \A d \in Connections, t \in Txns :
               d # c => (entriesLock'[t] = d <=> entriesLock[t] = d)
<1> DEFINE Goal == /\ conn' \in [Connections -> ConnectionRecord]
                   /\ \A d \in Connections : d # c => conn'[d] = conn[d]
           Locks == /\ accountLock' \in [Accounts -> Connections \cup {Nobody}]
                    /\ txnLock' \in [Txns -> Connections \cup {Nobody}]
                    /\ entriesLock' \in [Txns -> Connections \cup {Nobody}]
                    /\ \A d \in Connections, a \in Accounts :
                          d # c => (accountLock'[a] = d <=> accountLock[a] = d)
                    /\ \A d \in Connections, t \in Txns :
                          d # c => (txnLock'[t] = d <=> txnLock[t] = d)
                    /\ \A d \in Connections, t \in Txns :
                          d # c => (entriesLock'[t] = d <=> entriesLock[t] = d)
<1>r. conn[c] \in ConnectionRecord
  BY DEF EngineTypeOK, ConnectionRecord
<1>u. UNCHANGED locks => Locks
  BY DEF locks, EngineTypeOK
<1>f. Unlock(c) => Locks
  BY UnlockFrees
<1>n. \A s \in Step : Continue(c, s) => Goal
  BY ContinueType
<1>x. \A r \in ConnectionRecord : conn' = [conn EXCEPT ![c] = r] => Goal
  BY ConnType
<1>1. Start(c) => Goal /\ Locks
  <2>1. ASSUME NEW k \in Keys, NEW p \in Inputs, Call(c, k, p) PROVE Goal /\ Locks
    <3>1. [IdleConnection EXCEPT !.step = FirstStep["post"],
                                 !.input = [key |-> k, posting |-> p],
                                 !.replay = KeyUsed(k)] \in ConnectionRecord
      BY IdleType DEF ConnectionRecord, FirstStep, Step, KeyUsed
    <3> QED
      BY <2>1, <3>1, <1>x, <1>u DEF Call
  <2>2. ASSUME NEW t \in Txns, StartRelease(c, t) PROVE Goal /\ Locks
    <3>1. [IdleConnection EXCEPT !.step = FirstStep["release"], !.op = "release", !.txn = t]
            \in ConnectionRecord
      BY IdleType DEF ConnectionRecord, FirstStep, Step, Operation
    <3> QED
      BY <2>2, <3>1, <1>x, <1>u DEF StartRelease
  <2>3. ASSUME NEW t \in Txns, NEW o \in {"settle", "cancel"}, StartFlip(c, o, t)
        PROVE Goal /\ Locks
    <3>1. [IdleConnection EXCEPT !.step = FirstStep[o], !.op = o, !.txn = t]
            \in ConnectionRecord
      BY IdleType, FirstSteps DEF ConnectionRecord, Step, Operation
    <3> QED
      BY <2>3, <3>1, <1>x, <1>u DEF StartFlip
  <2>4. ASSUME NEW o \in {"freeze", "unfreeze"}, StartFreeze(c, o) PROVE Goal /\ Locks
    <3> DEFINE W == {a \in Owned : accountStatus[a] = IF o = "freeze" THEN "active" ELSE "frozen"}
    <3>w. W \in SUBSET Accounts
      BY EngineAssumption
    <3>1. \A w \in SUBSET Accounts :
             [IdleConnection EXCEPT !.step = FirstStep[o], !.op = o, !.wants = w]
               \in ConnectionRecord
      BY IdleType, FirstSteps DEF ConnectionRecord, Step, Operation
    <3>2. conn' = [conn EXCEPT ![c] =
                     [IdleConnection EXCEPT !.step = FirstStep[o], !.op = o, !.wants = W]]
      BY <2>4 DEF StartFreeze
    <3>3. Goal
      BY <3>w, <3>1, <3>2, <1>x
    <3>4. Locks
      BY <2>4, <1>u DEF StartFreeze
    <3> QED
      BY <3>3, <3>4
  <2> QED
    BY <2>1, <2>2, <2>3, <2>4 DEF Start
<1>2. Proceed(c) => Goal /\ Locks
  <2>1. ASSUME NEW t \in Txns, FindExisting(c, t) PROVE Goal /\ Locks
    <3>1. [conn[c] EXCEPT !.step = "returned", !.txn = t] \in ConnectionRecord
      BY <1>r DEF ConnectionRecord, Step
    <3> QED
      BY <2>1, <3>1, <1>x, <1>u DEF FindExisting
  <2>2. ASSUME NEW t \in Txns, InsertRow(c, t) PROVE Goal /\ Locks
    <3>1. [conn[c] EXCEPT !.step = "inserted", !.txn = t] \in ConnectionRecord
      BY <1>r DEF ConnectionRecord, Step
    <3> QED
      BY <2>2, <3>1, <1>x, <1>u DEF InsertRow
  <2>3. ASSUME MissExisting(c) PROVE Goal /\ Locks
    <3>1. conn[c].input.posting \in Inputs
      BY <2>3 DEF MissExisting, At, CallsKnown, CallKnown
    <3>2. AccountsOf(conn[c].input.posting) \subseteq Accounts
      BY <3>1, EngineAssumption DEF AccountsOf, Postings
    <3>3. [conn[c] EXCEPT !.step = "lockAccounts",
                          !.wants = AccountsOf(conn[c].input.posting)] \in ConnectionRecord
      BY <1>r, <3>2 DEF ConnectionRecord, Step
    <3> QED
      BY <2>3, <3>3, <1>x, <1>u DEF MissExisting
  <2>4. ASSUME LockAccount(c) PROVE Goal /\ Locks
    <3>1. conn'[c] \in ConnectionRecord
      BY <2>4 DEF LockAccount, EngineTypeOK, ConnectionRecord
    <3>2. Goal
      BY <2>4, <3>1 DEF LockAccount, EngineTypeOK, ConnectionRecord
    <3>3. Locks
      BY <2>4, EngineAssumption DEF LockAccount, EngineTypeOK
    <3> QED
      BY <3>2, <3>3
  <2>5. HaveAccounts(c) => Goal /\ Locks
    BY <1>n, <1>u DEF HaveAccounts, Step
  <2>6. CheckDebit(c) => Goal /\ Locks
    BY <1>n, <1>u DEF CheckDebit, Step
  <2>7. RefuseDebit(c) \/ InsertDuplicate(c) \/ NotReleasable(c) => Goal /\ Locks
    BY <1>n, <1>f DEF RefuseDebit, InsertDuplicate, NotReleasable, Step
  <2>8. CommitPosting(c) => Goal /\ Locks
    BY <1>n, <1>f DEF CommitPosting, Step
  <2>9. ASSUME LockTxn(c) PROVE Goal /\ Locks
    <3>1. Goal
      BY <2>9, <1>n DEF LockTxn, Step
    <3>2. Locks
      BY <2>9, EngineAssumption DEF LockTxn, EngineTypeOK
    <3> QED
      BY <3>1, <3>2
  <2>10. ASSUME LockEntries(c) PROVE Goal /\ Locks
    <3>1. Goal
      BY <2>10, <1>n DEF LockEntries, Step
    <3>2. Locks
      BY <2>10, EngineAssumption DEF LockEntries, EngineTypeOK
    <3> QED
      BY <3>1, <3>2
  <2>11. CommitStatus(c) \/ CommitFreeze(c) => Goal /\ Locks
    BY <1>n, <1>f DEF CommitStatus, CommitFreeze, Step
  <2> QED
    BY <2>1, <2>2, <2>3, <2>4, <2>5, <2>6, <2>7, <2>8, <2>9, <2>10, <2>11 DEF Proceed
<1>3. Disconnect(c) => Goal /\ Locks
  BY <1>n, <1>f DEF Disconnect, Step
<1>4. ASSUME AbortVictim(c) PROVE Goal /\ Locks
  <2>1. ASSUME Restart(c) PROVE Goal
    <3>1. FirstStep[conn[c].op] \in Step
      BY <2>1, FirstSteps DEF Restart, Step
    <3>0. conn[c].tries + 1 \in 0..MaxRetries
      <4>1. conn[c].tries \in 0..MaxRetries /\ conn[c].tries < MaxRetries
        BY <2>1, <1>r DEF Restart, ConnectionRecord
      <4> QED
        BY <4>1, EngineAssumption
    <3>2. [conn[c] EXCEPT !.step = FirstStep[conn[c].op], !.wants = {},
                     !.tries = conn[c].tries + 1]
             \in ConnectionRecord
      BY <3>0, <3>1, <1>r DEF ConnectionRecord
    <3> QED
      BY <2>1, <3>2, <1>x DEF Restart
  <2>2. GiveUp(c) => Goal
    BY <1>n DEF GiveUp, Step
  <2> QED
    BY <1>4, <2>1, <2>2, <1>f DEF AbortVictim
<1> QED
  BY <1>1, <1>2, <1>3, <1>4 DEF Mover

-----------------------------------------------------------------------------
(* Every step is a step of the ledger                                      *)

\* Only commits and single UPDATEs change what others can see.
LEMMA WhoWrites ==
  ASSUME NEW c \in Connections, Mover(c)
  PROVE  CommitPosting(c) \/ CommitStatus(c) \/ CommitFreeze(c) \/ UNCHANGED vars
<1>1. Start(c) => UNCHANGED vars
  BY DEF Start, Call, StartRelease, StartFlip, StartFreeze, ledgerVars
<1>2. Proceed(c) => CommitPosting(c) \/ CommitStatus(c) \/ CommitFreeze(c) \/ UNCHANGED vars
  BY DEF Proceed, FindExisting, InsertRow, MissExisting, LockAccount, HaveAccounts, CheckDebit,
         RefuseDebit, InsertDuplicate, LockTxn, NotReleasable, LockEntries, ledgerVars
<1>3. Disconnect(c) \/ AbortVictim(c) => UNCHANGED vars
  BY DEF Disconnect, AbortVictim, ledgerVars
<1> QED
  BY <1>1, <1>2, <1>3 DEF Mover

\* A posting commits what module Ledger posts in one step.
LEMMA CommitIsPost ==
  ASSUME EngineInv, NEW c \in Connections, CommitPosting(c)
  PROVE  /\ conn[c].txn \in Txns /\ conn[c].input.key \in Keys
         /\ conn[c].input.posting \in Inputs
         /\ conn[c].input.posting \in Postings
         /\ PostTransaction(conn[c].txn, conn[c].input.key, conn[c].input.posting)
<1>1. At(c, "post", "inserted")
  BY DEF CommitPosting
<1>2. conn[c].txn \in Txns /\ ~KeyUsed(conn[c].input.key)
  BY <1>1 DEF EngineInv, InsertIsOwn, InsertOwn
<1>3. conn[c].input.key \in Keys /\ conn[c].input.posting \in Inputs
  BY <1>1 DEF EngineInv, CallsKnown, CallKnown, At
<1>4. WellFormed(conn[c].input.posting) /\ conn[c].input.posting \in Postings
  BY <1>3, EngineAssumption
<1>5. MayDebit(conn[c].input.posting.debit, conn[c].input.posting.paid)
  BY <1>1, <1>4 DEF EngineInv, CheckIsCurrent, CheckCurrent, At, Debited, Paid, Postings
<1> QED
  BY <1>2, <1>3, <1>4, <1>5 DEF CommitPosting, PostTransaction

LEMMA CommitIsFlip ==
  ASSUME EngineInv, NEW c \in Connections, CommitStatus(c)
  PROVE  /\ conn[c].txn \in Txns
         /\ \/ ReleaseTransaction(conn[c].txn)
            \/ SettleTransaction(conn[c].txn)
            \/ CancelHold(conn[c].txn)
<1>1. conn[c].step = "commit" /\ conn[c].op \in {"release", "settle", "cancel"}
  BY DEF CommitStatus
<1>2. conn[c].txn \in Txns
  BY <1>1 DEF EngineInv, CallsKnown, CallKnown
<1>3. conn[c].op = "release" => txnStatus[conn[c].txn] \in {"pending", "pending_review"}
  BY <1>1 DEF EngineInv, ReleaseIsCurrent, ReleaseCurrent
<1> QED
  BY <1>2, <1>3 DEF CommitStatus, ReleaseTransaction

LEMMA CommitIsFreeze ==
  ASSUME EngineInv, NEW c \in Connections, CommitFreeze(c)
  PROVE  \/ FreezeAccounts(Mine(c, "active"))
         \/ UnfreezeAccounts(Mine(c, "frozen"))
         \/ UNCHANGED vars
  BY DEF CommitFreeze, ledgerVars

\* Whatever statements interleave, the committed rows take steps of module
\* Ledger.
LEMMA EngineStepIsLedgerStep ==
  ASSUME EngineInv, [EngineNext]_engineVars
  PROVE  [Next]_vars
<1>1. ASSUME NEW c \in Connections, Mover(c) PROVE [Next]_vars
  <2>1. CASE CommitPosting(c)
    BY <2>1, CommitIsPost DEF Next
  <2>2. CASE CommitStatus(c)
    BY <2>2, CommitIsFlip DEF Next
  <2>3. CASE CommitFreeze(c)
    <3>1. Mine(c, "active") \in SUBSET Accounts /\ Mine(c, "frozen") \in SUBSET Accounts
      BY DEF Mine
    <3> QED
      BY <2>3, <3>1, CommitIsFreeze DEF Next
  <2> QED
    BY <1>1, <2>1, <2>2, <2>3, WhoWrites
<1>2. ASSUME NEW t \in Txns, UpdateStatus(t) PROVE Next
  BY <1>2 DEF UpdateStatus, Next
<1>3. UNCHANGED engineVars => UNCHANGED vars
  BY DEF engineVars
<1> QED
  BY <1>1, <1>2, <1>3 DEF EngineNext, Mover

-----------------------------------------------------------------------------
(* How a call moves                                                        *)

LEMMA VictimWaits ==
  ASSUME NEW c \in Connections, AbortVictim(c)
  PROVE  conn[c].step \in {"lockAccounts", "lockTxn", "lockEntries", "insert"}
<1>1. PICK cs \in SUBSET Connections : c \in cs /\ WaitInCircle(cs)
  BY DEF AbortVictim
<1>2. Blockers(c) # {}
  BY <1>1 DEF WaitInCircle
<1> QED
  BY <1>2 DEF Blockers

\* The steps of a posting, by the statement they lead to.
LEMMA PostingMoves ==
  ASSUME EngineInv, NEW c \in Connections, Mover(c), conn'[c].op = "post"
  PROVE  \/ /\ conn[c].step = "idle" /\ conn'[c].step = "lookup" /\ UNCHANGED locks
            /\ conn'[c].input \in [key : Keys, posting : Inputs]
            /\ conn[c].op = "post"
         \/ /\ conn[c].op = "post" /\ conn'[c].input = conn[c].input
            /\ conn[c].step # "idle"
            /\ \/ MissExisting(c) /\ conn'[c].step = "lockAccounts" /\ conn'[c].wants = EntryAccounts(c)
               \/ /\ LockAccount(c) /\ conn'[c].step = "lockAccounts"
                  /\ conn'[c].wants = conn[c].wants \ {NextAccount(c)}
               \/ HaveAccounts(c) /\ conn'[c].step = "check"
               \/ CheckDebit(c) /\ conn'[c].step = "insert"
               \/ \E t \in Txns : InsertRow(c, t) /\ conn'[c].step = "inserted" /\ conn'[c].txn = t
               \/ \E t \in Txns : FindExisting(c, t) /\ conn'[c].step = "returned" /\ conn'[c].txn = t
               \/ /\ conn'[c].step \in {"lookup"} \cup Ended /\ Unlock(c)
                  /\ conn'[c].step = "returned" => CommitPosting(c) /\ conn'[c].txn = conn[c].txn
<1> DEFINE Goal ==
         \/ /\ conn[c].step = "idle" /\ conn'[c].step = "lookup" /\ UNCHANGED locks
            /\ conn'[c].input \in [key : Keys, posting : Inputs]
            /\ conn[c].op = "post"
         \/ /\ conn[c].op = "post" /\ conn'[c].input = conn[c].input
            /\ conn[c].step # "idle"
            /\ \/ MissExisting(c) /\ conn'[c].step = "lockAccounts" /\ conn'[c].wants = EntryAccounts(c)
               \/ /\ LockAccount(c) /\ conn'[c].step = "lockAccounts"
                  /\ conn'[c].wants = conn[c].wants \ {NextAccount(c)}
               \/ HaveAccounts(c) /\ conn'[c].step = "check"
               \/ CheckDebit(c) /\ conn'[c].step = "insert"
               \/ \E t \in Txns : InsertRow(c, t) /\ conn'[c].step = "inserted" /\ conn'[c].txn = t
               \/ \E t \in Txns : FindExisting(c, t) /\ conn'[c].step = "returned" /\ conn'[c].txn = t
               \/ /\ conn'[c].step \in {"lookup"} \cup Ended /\ Unlock(c)
                  /\ conn'[c].step = "returned" => CommitPosting(c) /\ conn'[c].txn = conn[c].txn
<1>t. EngineTypeOK /\ CallsKnown /\ conn[c] \in ConnectionRecord
  BY DEF EngineInv, EngineTypeOK, ConnectionRecord
<1>i. conn[c].step = "idle" => conn[c].op = "post"
  BY <1>t DEF CallsKnown, CallKnown, FlipSteps, FreezeSteps, Ended, ConnectionRecord, Operation
<1>n. ASSUME NEW s \in Step, Continue(c, s)
      PROVE  /\ conn'[c].step = s /\ conn'[c].op = conn[c].op
             /\ conn'[c].input = conn[c].input /\ conn'[c].txn = conn[c].txn
  <2>1. conn'[c] = [conn[c] EXCEPT !.step = s]
    BY <1>n, <1>t, ContinueType
  <2> QED
    BY <2>1, <1>t DEF ConnectionRecord
<1>1. Start(c) => Goal
  <2>1. ASSUME NEW k \in Keys, NEW p \in Inputs, Call(c, k, p) PROVE Goal
    <3>1. conn'[c] = [IdleConnection EXCEPT !.step = FirstStep["post"],
                                 !.input = [key |-> k, posting |-> p],
                                 !.replay = KeyUsed(k)]
      BY <2>1, <1>t DEF Call, EngineTypeOK
    <3>2. conn'[c].step = "lookup" /\ conn'[c].input = [key |-> k, posting |-> p]
      BY <3>1, FirstSteps DEF IdleConnection
    <3>3. conn'[c].input \in [key : Keys, posting : Inputs]
      BY <3>2
    <3> QED
      BY <2>1, <3>2, <3>3, <1>i DEF Call
  <2>2. ASSUME NEW t \in Txns, NEW o \in {"settle", "cancel"},
               StartRelease(c, t) \/ StartFlip(c, o, t)
        PROVE  FALSE
    <3>1. conn'[c].op = "release" \/ conn'[c].op = o
      BY <2>2, <1>t DEF StartRelease, StartFlip, EngineTypeOK, IdleConnection
    <3> QED
      BY <3>1
  <2>3. ASSUME NEW o \in {"freeze", "unfreeze"}, StartFreeze(c, o) PROVE FALSE
    <3>1. conn'[c].op = o
      BY <2>3, <1>t DEF StartFreeze, EngineTypeOK, IdleConnection
    <3> QED
      BY <3>1
  <2> QED
    BY <2>1, <2>2, <2>3 DEF Start
<1>2. Proceed(c) => Goal
  <2>1. ASSUME NEW t \in Txns, FindExisting(c, t) PROVE Goal
    BY <2>1, <1>t DEF FindExisting, At, EngineTypeOK, ConnectionRecord
  <2>2. ASSUME NEW t \in Txns, InsertRow(c, t) PROVE Goal
    <3>1. conn'[c] = [conn[c] EXCEPT !.step = "inserted", !.txn = t] /\ conn[c].op = "post"
          /\ conn[c].step = "insert"
      BY <2>2, <1>t DEF InsertRow, At, EngineTypeOK
    <3> QED
      BY <2>2, <3>1, <1>t DEF ConnectionRecord
  <2>3. ASSUME MissExisting(c) PROVE Goal
    <3>1. conn'[c] = [conn[c] EXCEPT !.step = "lockAccounts", !.wants = EntryAccounts(c)]
          /\ conn[c].op = "post" /\ conn[c].step = "lookup"
      BY <2>3, <1>t DEF MissExisting, At, EngineTypeOK, EntryAccounts
    <3> QED
      BY <2>3, <3>1, <1>t DEF ConnectionRecord
  <2>4. ASSUME LockAccount(c) PROVE Goal
    <3>1. conn'[c] = [conn[c] EXCEPT !.wants = conn[c].wants \ {NextAccount(c)}]
          /\ conn[c].step = "lockAccounts"
      BY <2>4, <1>t DEF LockAccount, EngineTypeOK
    <3> QED
      BY <2>4, <3>1, <1>t DEF ConnectionRecord
  <2>5. HaveAccounts(c) => Goal
    BY <1>n DEF HaveAccounts, Step
  <2>6. CheckDebit(c) => Goal
    BY <1>n DEF CheckDebit, Step, At
  <2>7. RefuseDebit(c) \/ InsertDuplicate(c) \/ NotReleasable(c) => Goal
    BY <1>n DEF RefuseDebit, InsertDuplicate, NotReleasable, At, Step, Ended
  <2>8. CommitPosting(c) => Goal
    BY <1>n DEF CommitPosting, At, Step, Ended
  <2>9. LockTxn(c) \/ LockEntries(c) => Goal
    <3>1. LockTxn(c) \/ LockEntries(c) => conn'[c].op = conn[c].op
      BY <1>n DEF LockTxn, LockEntries, Step
    <3>2. LockTxn(c) \/ LockEntries(c) => conn[c].step \in {"lockTxn", "lockEntries"}
      BY DEF LockTxn, LockEntries
    <3> QED
      BY <3>1, <3>2, <1>t DEF CallsKnown, CallKnown, PostingSteps, Ended
  <2>10. CommitStatus(c) \/ CommitFreeze(c) => Goal
    BY <1>n DEF CommitStatus, CommitFreeze, Step, Ended
  <2> QED
    BY <2>1, <2>2, <2>3, <2>4, <2>5, <2>6, <2>7, <2>8, <2>9, <2>10 DEF Proceed
<1>3. Disconnect(c) => Goal
  BY <1>n DEF Disconnect, InTransaction, Step, Ended
<1>4. AbortVictim(c) => Goal
  <2>1. ASSUME Restart(c)
        PROVE  conn'[c].op = conn[c].op /\ conn'[c].input = conn[c].input
               /\ conn'[c].step = FirstStep[conn[c].op]
    <3>1. conn'[c] = [conn[c] EXCEPT !.step = FirstStep[conn[c].op], !.wants = {},
                                     !.tries = conn[c].tries + 1]
      BY <2>1, <1>t DEF Restart, EngineTypeOK
    <3> QED
      BY <3>1, <1>t DEF ConnectionRecord
  <2> QED
    BY <2>1, <1>n, FirstSteps, VictimWaits DEF AbortVictim, GiveUp, Step, Ended
<1> QED
  BY <1>1, <1>2, <1>3, <1>4 DEF Mover

\* The steps of the other operations.
LEMMA OtherMoves ==
  ASSUME EngineInv, NEW c \in Connections, Mover(c), conn'[c].op # "post"
  PROVE  \/ /\ conn[c].step = "idle"
            /\ \/ conn'[c].op = "release" /\ conn'[c].step = "lockTxn"
               \/ conn'[c].op \in {"settle", "cancel"} /\ conn'[c].step = "lockEntries"
            /\ conn'[c].txn \in Txns /\ Exists(conn'[c].txn)
         \/ conn'[c].op \in {"freeze", "unfreeze"} /\ conn'[c].step \in FreezeSteps
         \/ /\ conn[c].op \in {"release", "settle", "cancel"}
            /\ conn'[c].op = conn[c].op /\ conn'[c].txn = conn[c].txn
            /\ conn'[c].step \in FlipSteps
            /\ conn[c].op # "release" =>
                 \/ LockTxn(c) /\ conn'[c].step = "commit"
                 \/ conn'[c].step \in {"lockTxn", "lockEntries"} \cup Ended
            /\ conn[c].op = "release" =>
                 \/ LockTxn(c) /\ conn'[c].step = "lockEntries"
                 \/ LockEntries(c) /\ conn'[c].step = "commit"
                 \/ conn'[c].step \in {"lockTxn"} \cup Ended
<1> DEFINE Flips ==
         /\ conn'[c].op = conn[c].op /\ conn'[c].txn = conn[c].txn
         /\ conn'[c].step \in FlipSteps
         /\ conn[c].op # "release" =>
              \/ LockTxn(c) /\ conn'[c].step = "commit"
              \/ conn'[c].step \in {"lockTxn", "lockEntries"} \cup Ended
         /\ conn[c].op = "release" =>
              \/ LockTxn(c) /\ conn'[c].step = "lockEntries"
              \/ LockEntries(c) /\ conn'[c].step = "commit"
              \/ conn'[c].step \in {"lockTxn"} \cup Ended
           Begins ==
         /\ conn[c].step = "idle"
         /\ \/ conn'[c].op = "release" /\ conn'[c].step = "lockTxn"
            \/ conn'[c].op \in {"settle", "cancel"} /\ conn'[c].step = "lockEntries"
         /\ conn'[c].txn \in Txns /\ Exists(conn'[c].txn)
           Freezes == conn'[c].op \in {"freeze", "unfreeze"} /\ conn'[c].step \in FreezeSteps
           Goal ==
         \/ Begins
         \/ Freezes
         \/ /\ conn[c].op \in {"release", "settle", "cancel"}
            /\ Flips
<1>t. EngineTypeOK /\ CallsKnown /\ conn[c] \in ConnectionRecord
  BY DEF EngineInv, EngineTypeOK, ConnectionRecord
<1>n. ASSUME NEW s \in Step, Continue(c, s)
      PROVE  conn'[c].step = s /\ conn'[c].op = conn[c].op /\ conn'[c].txn = conn[c].txn
  <2>1. conn'[c] = [conn[c] EXCEPT !.step = s]
    BY <1>n, <1>t, ContinueType
  <2> QED
    BY <2>1, <1>t DEF ConnectionRecord
<1>o. conn[c].op \in {"post", "release", "settle", "cancel", "freeze", "unfreeze"}
  BY <1>t DEF ConnectionRecord, Operation
<1>e. ASSUME NEW s \in Ended, Continue(c, s) PROVE Goal
  <2>1. conn'[c].step = s /\ conn'[c].op = conn[c].op /\ conn'[c].txn = conn[c].txn
    BY <1>e, <1>n DEF Ended, Step
  <2> QED
    BY <2>1, <1>o DEF FlipSteps, FreezeSteps
<1>1. Start(c) => Goal
  <2>1. ASSUME NEW k \in Keys, NEW p \in Inputs, Call(c, k, p) PROVE FALSE
    <3>1. conn'[c].op = "post"
      BY <2>1, <1>t DEF Call, EngineTypeOK, IdleConnection
    <3> QED
      BY <3>1
  <2>2. ASSUME NEW t \in Txns, StartRelease(c, t) PROVE Goal
    <3>1. conn'[c] = [IdleConnection EXCEPT !.step = FirstStep["release"],
                                            !.op = "release", !.txn = t]
      BY <2>2, <1>t DEF StartRelease, EngineTypeOK
    <3>2. conn'[c].step = "lockTxn" /\ conn'[c].op = "release" /\ conn'[c].txn = t
      BY <3>1, FirstSteps DEF IdleConnection
    <3> QED
      BY <2>2, <3>2 DEF StartRelease
  <2>3. ASSUME NEW t \in Txns, NEW o \in {"settle", "cancel"}, StartFlip(c, o, t) PROVE Goal
    <3>1. conn'[c] = [IdleConnection EXCEPT !.step = FirstStep[o], !.op = o, !.txn = t]
      BY <2>3, <1>t DEF StartFlip, EngineTypeOK
    <3>2. conn'[c].step = "lockEntries" /\ conn'[c].op = o /\ conn'[c].txn = t
      BY <3>1, FirstSteps DEF IdleConnection
    <3> QED
      BY <2>3, <3>2 DEF StartFlip
  <2>4. ASSUME NEW o \in {"freeze", "unfreeze"}, StartFreeze(c, o) PROVE Goal
    <3>1. conn'[c].op = o /\ conn'[c].step = FirstStep[o]
      BY <2>4, <1>t DEF StartFreeze, EngineTypeOK, IdleConnection
    <3> QED
      BY <3>1, FirstSteps DEF FreezeSteps
  <2> QED
    BY <2>1, <2>2, <2>3, <2>4 DEF Start
<1>2. Proceed(c) => Goal
  <2>1. ASSUME conn'[c].op = conn[c].op, conn[c].op = "post" PROVE FALSE
    BY <2>1
  <2>2. ASSUME NEW t \in Txns, FindExisting(c, t) PROVE FALSE
    <3>1. conn'[c].op = "post"
      BY <2>2, <1>t DEF FindExisting, At, EngineTypeOK, ConnectionRecord
    <3> QED
      BY <3>1
  <2>3. ASSUME NEW t \in Txns, InsertRow(c, t) PROVE FALSE
    <3>1. conn'[c].op = "post"
      BY <2>3, <1>t DEF InsertRow, At, EngineTypeOK, ConnectionRecord
    <3> QED
      BY <3>1
  <2>4. ASSUME MissExisting(c) PROVE FALSE
    <3>1. conn'[c].op = "post"
      BY <2>4, <1>t DEF MissExisting, At, EngineTypeOK, ConnectionRecord
    <3> QED
      BY <3>1
  <2>5. ASSUME LockAccount(c) PROVE Goal
    <3>1. conn'[c].op = conn[c].op /\ conn'[c].step = "lockAccounts"
          /\ conn[c].step = "lockAccounts"
      BY <2>5, <1>t DEF LockAccount, EngineTypeOK, ConnectionRecord
    <3> QED
      BY <3>1, <1>o, <1>t DEF CallsKnown, CallKnown, FlipSteps, FreezeSteps, Ended
  <2>6. ASSUME HaveAccounts(c) PROVE Goal
    <3>1. conn'[c].op = conn[c].op /\ conn[c].step = "lockAccounts"
          /\ (conn[c].op # "post" => conn'[c].step = "commit")
      BY <2>6, <1>n DEF HaveAccounts, Step
    <3> QED
      BY <3>1, <1>o, <1>t DEF CallsKnown, CallKnown, FlipSteps, FreezeSteps, Ended
  <2>7. CheckDebit(c) => FALSE
    BY <1>n DEF CheckDebit, Step, At
  <2>8. RefuseDebit(c) \/ InsertDuplicate(c) \/ NotReleasable(c) => Goal
    BY <1>e DEF RefuseDebit, InsertDuplicate, NotReleasable, Ended
  <2>9. CommitPosting(c) \/ CommitStatus(c) \/ CommitFreeze(c) => Goal
    BY <1>e DEF CommitPosting, CommitStatus, CommitFreeze, Ended
  <2>10. ASSUME LockTxn(c) PROVE Goal
    <3>1. conn[c].step = "lockTxn" /\ conn'[c].op = conn[c].op /\ conn'[c].txn = conn[c].txn
      BY <2>10, <1>n DEF LockTxn, Step
    <3>2. conn'[c].step = IF conn[c].op = "release" THEN "lockEntries" ELSE "commit"
      BY <2>10, <1>n DEF LockTxn, Step
    <3> QED
      BY <2>10, <3>1, <3>2, <1>o, <1>t DEF CallsKnown, CallKnown, FlipSteps, FreezeSteps, Ended
  <2>11. ASSUME LockEntries(c) PROVE Goal
    <3>1. conn[c].step = "lockEntries" /\ conn'[c].op = conn[c].op /\ conn'[c].txn = conn[c].txn
      BY <2>11, <1>n DEF LockEntries, Step
    <3>2. conn'[c].step = IF conn[c].op = "release" THEN "commit" ELSE "lockTxn"
      BY <2>11, <1>n DEF LockEntries, Step
    <3> QED
      BY <2>11, <3>1, <3>2, <1>o, <1>t DEF CallsKnown, CallKnown, FlipSteps, FreezeSteps, Ended
  <2> QED
    BY <2>2, <2>3, <2>4, <2>5, <2>6, <2>7, <2>8, <2>9, <2>10, <2>11 DEF Proceed
<1>3. Disconnect(c) => Goal
  BY <1>e DEF Disconnect, Ended
<1>4. AbortVictim(c) => Goal
  <2>1. ASSUME Restart(c) PROVE Goal
    <3>1. conn'[c] = [conn[c] EXCEPT !.step = FirstStep[conn[c].op], !.wants = {},
                                     !.tries = conn[c].tries + 1]
      BY <2>1, <1>t DEF Restart, EngineTypeOK
    <3>2. conn'[c].op = conn[c].op /\ conn'[c].txn = conn[c].txn
          /\ conn'[c].step = FirstStep[conn[c].op]
      BY <3>1, <1>t DEF ConnectionRecord
    <3> QED
      BY <2>1, <3>2, FirstSteps DEF Restart, FlipSteps
  <2> QED
    BY <2>1, <1>e DEF AbortVictim, GiveUp, Ended
<1> QED
  BY <1>1, <1>2, <1>3, <1>4 DEF Mover

-----------------------------------------------------------------------------
(* The invariant is kept                                                   *)

LEMMA CallsKnownStep ==
  ASSUME EngineInv, [EngineNext]_engineVars
  PROVE  CallsKnown'
<1> SUFFICES ASSUME NEW d \in Connections PROVE CallKnown(d)'
  BY DEF CallsKnown
<1>k. CallKnown(d) /\ CallsKnown /\ EngineTypeOK
  BY DEF EngineInv, CallsKnown
<1>e. \A t \in Txns : txnStatus[t] # "none" => txnStatus'[t] # "none"
  BY EngineStepIsLedgerStep, ExistsKept DEF EngineInv, Exists
<1>1. CASE conn'[d] = conn[d]
  BY <1>1, <1>k, <1>e DEF CallKnown, Exists
<1>2. CASE Mover(d) /\ conn'[d].op = "post"
  <2>1. conn'[d].step \in PostingSteps
    BY <1>2, PostingMoves DEF PostingSteps, Ended
  <2>2. conn'[d].input \in [key : Keys, posting : Inputs]
    BY <1>2, <1>k, PostingMoves DEF CallKnown
  <2> QED
    BY <1>2, <2>1, <2>2 DEF CallKnown
<1>3. CASE Mover(d) /\ conn'[d].op # "post"
  <2>1. conn[d].op \in {"release", "settle", "cancel"} =>
           conn[d].txn \in Txns /\ txnStatus[conn[d].txn] # "none"
    BY <1>k DEF CallKnown, Exists
  <2>2. \/ conn'[d].op \in {"freeze", "unfreeze"} /\ conn'[d].step \in FreezeSteps
        \/ /\ conn'[d].op \in {"release", "settle", "cancel"} /\ conn'[d].step \in FlipSteps
           /\ conn'[d].txn \in Txns /\ txnStatus[conn'[d].txn] # "none"
    BY <1>3, <2>1, OtherMoves DEF FlipSteps, Exists
  <2> QED
    BY <1>3, <2>2, <1>e DEF CallKnown, Exists
<1>4. ASSUME NEW c \in Connections, Mover(c), c # d PROVE conn'[d] = conn[d]
  BY <1>4, <1>k, MoverType
<1>5. (\E t \in Txns : UpdateStatus(t)) \/ UNCHANGED engineVars => conn'[d] = conn[d]
  BY DEF UpdateStatus, engineVars
<1> QED
  BY <1>1, <1>2, <1>3, <1>4, <1>5 DEF EngineNext, Mover

\* The two accounts of a posting.
LEMMA TwoAccounts ==
  ASSUME EngineInv, NEW c \in Connections, conn[c].op = "post", conn[c].step # "idle"
  PROVE  /\ conn[c].input.key \in Keys
         /\ EntryAccounts(c) = {conn[c].input.posting.debit, conn[c].input.posting.credit}
         /\ EntryAccounts(c) \subseteq Accounts
<1>1. conn[c].input \in [key : Keys, posting : Inputs]
  BY DEF EngineInv, CallsKnown, CallKnown
<1>2. conn[c].input.posting \in Postings
  BY <1>1, EngineAssumption
<1> QED
  BY <1>1, <1>2 DEF EntryAccounts, AccountsOf, Postings

\* A posting locks the account that comes first of those it wants.
LEMMA FirstIsNext ==
  ASSUME EngineInv, NEW c \in Connections, At(c, "post", "lockAccounts"), conn[c].wants # {}
  PROVE  /\ NextAccount(c) \in conn[c].wants
         /\ \A b \in conn[c].wants : IdOrder[NextAccount(c)] =< IdOrder[b]
<1>1. conn[c].wants \subseteq EntryAccounts(c) /\ conn[c].op = "post"
      /\ conn[c].step = "lockAccounts"
  BY DEF At, EngineInv, PostingLocks, HoldsAccounts
<1>2. PICK x, y \in Accounts : conn[c].wants \subseteq {x, y}
  BY <1>1, TwoAccounts
<1>3. IdOrder[x] \in Nat /\ IdOrder[y] \in Nat
  BY EngineAssumption
<1>4. \E a \in conn[c].wants : \A b \in conn[c].wants : IdOrder[a] =< IdOrder[b]
  <2>1. CASE x \in conn[c].wants /\ y \in conn[c].wants
    BY <1>2, <1>3, <2>1
  <2>2. CASE x \in conn[c].wants /\ y \notin conn[c].wants
    BY <1>2, <1>3, <2>2
  <2>3. CASE x \notin conn[c].wants
    BY <1>2, <1>3, <2>3
  <2> QED
    BY <2>1, <2>2, <2>3
<1>5. NextAccount(c) = CHOOSE a \in conn[c].wants : \A b \in conn[c].wants : IdOrder[a] =< IdOrder[b]
  BY <1>1 DEF NextAccount
<1> QED
  BY <1>4, <1>5

LEMMA PostingLocksStep ==
  ASSUME EngineInv, [EngineNext]_engineVars
  PROVE  PostingLocks'
<1> SUFFICES ASSUME NEW d \in Connections, conn'[d].op = "post" PROVE HoldsAccounts(d)'
  BY DEF PostingLocks, HoldsAccounts
<1>k. HoldsAccounts(d) /\ CallsKnown /\ EngineTypeOK
  BY DEF EngineInv, PostingLocks
<1>1. ASSUME conn'[d] = conn[d], \A a \in Accounts : accountLock'[a] = d <=> accountLock[a] = d
      PROVE  HoldsAccounts(d)'
  <2>1. conn[d].step # "idle" => EntryAccounts(d) \subseteq Accounts
    BY <1>1, TwoAccounts
  <2>2. EntryAccounts(d)' = EntryAccounts(d)
    BY <1>1 DEF EntryAccounts
  <2> QED
    BY <1>1, <1>k, <2>1, <2>2 DEF HoldsAccounts
<1>2. CASE Mover(d)
  <2>n. ASSUME \A a \in Accounts : accountLock'[a] # d, conn'[d].step \in {"lookup"} \cup Ended
        PROVE  HoldsAccounts(d)'
    BY <2>n DEF HoldsAccounts, Ended
  <2>l. conn[d].op = "post" /\ conn[d].step \in {"idle", "lookup"} =>
            \A a \in Accounts : accountLock[a] # d
    BY <1>k DEF HoldsAccounts
  <2>u. Unlock(d) => \A a \in Accounts : accountLock'[a] # d
    BY <1>k, UnlockFrees
  <2>1. CASE conn[d].step = "idle"
    BY <1>2, <2>1, <2>l, <2>n, PostingMoves DEF locks
  <2>2. ASSUME conn[d].step # "idle", conn[d].op = "post", conn'[d].input = conn[d].input
        PROVE  /\ EntryAccounts(d)' = EntryAccounts(d)
               /\ EntryAccounts(d) \subseteq Accounts
    BY <2>2, TwoAccounts DEF EntryAccounts
  <2>3. ASSUME conn[d].op = "post", conn'[d].input = conn[d].input,
               MissExisting(d), conn'[d].step = "lockAccounts", conn'[d].wants = EntryAccounts(d)
        PROVE  HoldsAccounts(d)'
    <3>1. conn[d].step = "lookup" /\ UNCHANGED accountLock
      BY <2>3 DEF MissExisting, At, locks
    <3> QED
      BY <2>2, <2>3, <2>l, <3>1 DEF HoldsAccounts
  <2>4. ASSUME conn[d].op = "post", conn'[d].input = conn[d].input,
               LockAccount(d), conn'[d].step = "lockAccounts",
               conn'[d].wants = conn[d].wants \ {NextAccount(d)}
        PROVE  HoldsAccounts(d)'
    <3>1. /\ conn[d].step = "lockAccounts" /\ conn[d].wants # {}
          /\ accountLock' = [accountLock EXCEPT ![NextAccount(d)] = d]
      BY <2>4 DEF LockAccount
    <3>2. /\ NextAccount(d) \in conn[d].wants
          /\ \A b \in conn[d].wants : IdOrder[NextAccount(d)] =< IdOrder[b]
      BY <2>4, <3>1, FirstIsNext DEF At
    <3>3. /\ conn[d].wants \subseteq EntryAccounts(d)
          /\ \A a \in EntryAccounts(d) : accountLock[a] = d \/ a \in conn[d].wants
          /\ \A a \in Accounts : accountLock[a] = d => \A b \in conn[d].wants : IdOrder[a] < IdOrder[b]
      BY <2>4, <3>1, <1>k DEF HoldsAccounts
    <3>4. /\ EntryAccounts(d)' = EntryAccounts(d)
          /\ EntryAccounts(d) \subseteq Accounts
      BY <2>2, <2>4, <3>1
    <3>5. \A a \in Accounts : accountLock'[a] = IF a = NextAccount(d) THEN d ELSE accountLock[a]
      BY <3>1, <1>k DEF EngineTypeOK
    <3>6. \A b \in conn[d].wants \ {NextAccount(d)} : IdOrder[NextAccount(d)] < IdOrder[b]
      <4> SUFFICES ASSUME NEW b \in conn[d].wants, b # NextAccount(d)
                   PROVE  IdOrder[NextAccount(d)] < IdOrder[b]
        OBVIOUS
      <4>1. b \in Accounts /\ NextAccount(d) \in Accounts
        BY <3>2, <3>3, <3>4
      <4>2. IdOrder[b] \in Nat /\ IdOrder[NextAccount(d)] \in Nat
            /\ IdOrder[b] # IdOrder[NextAccount(d)]
        BY <4>1, EngineAssumption
      <4> QED
        BY <3>2, <4>2
    <3> QED
      BY <2>4, <3>3, <3>4, <3>5, <3>6 DEF HoldsAccounts
  <2>5. ASSUME conn[d].op = "post", conn'[d].input = conn[d].input,
               \/ HaveAccounts(d) /\ conn'[d].step = "check"
               \/ CheckDebit(d) /\ conn'[d].step = "insert"
               \/ \E t \in Txns : InsertRow(d, t) /\ conn'[d].step = "inserted"
        PROVE  HoldsAccounts(d)'
    <3>1. /\ conn[d].step \in {"lockAccounts", "check", "insert"} /\ UNCHANGED accountLock
          /\ conn[d].step = "lockAccounts" => conn[d].wants = {}
      BY <2>5 DEF HaveAccounts, CheckDebit, InsertRow, At, locks
    <3>2. \A a \in EntryAccounts(d) : accountLock[a] = d
      BY <2>5, <3>1, <1>k DEF HoldsAccounts
    <3> QED
      BY <2>2, <2>5, <3>1, <3>2 DEF HoldsAccounts
  <2>6. ASSUME NEW t \in Txns, FindExisting(d, t), conn'[d].step = "returned"
        PROVE  HoldsAccounts(d)'
    BY <2>6, <2>l, <2>n DEF FindExisting, At, Ended, locks
  <2>7. ASSUME conn'[d].step \in {"lookup"} \cup Ended /\ Unlock(d)
        PROVE  HoldsAccounts(d)'
    BY <2>7, <2>u, <2>n
  <2> QED
    BY <1>2, <2>1, <2>3, <2>4, <2>5, <2>6, <2>7, PostingMoves
<1>3. ASSUME NEW c \in Connections, Mover(c), c # d
      PROVE  conn'[d] = conn[d] /\ \A a \in Accounts : accountLock'[a] = d <=> accountLock[a] = d
  BY <1>3, <1>k, MoverType
<1>4. ASSUME (\E t \in Txns : UpdateStatus(t)) \/ UNCHANGED engineVars
      PROVE  conn'[d] = conn[d] /\ \A a \in Accounts : accountLock'[a] = d <=> accountLock[a] = d
  BY <1>4 DEF UpdateStatus, engineVars, locks
<1> QED
  BY <1>1, <1>2, <1>3, <1>4 DEF EngineNext, Mover

\* Available is a number, before and after a step.
LEMMA AvailableNumbers ==
  ASSUME EngineInv, [EngineNext]_engineVars, NEW a \in Accounts
  PROVE  TypeOK /\ TypeOK' /\ Available(a) \in Int
<1>1. TypeOK
  BY DEF EngineInv, LedgerInv
<1>2. TypeOK'
  BY <1>1, EngineStepIsLedgerStep, TypeStep
<1> QED
  BY <1>1, <1>2, AvailableType

\* Whoever does not hold the lock of an account takes nothing from it and does
\* not freeze it.
LEMMA MayDebitStays ==
  ASSUME EngineInv, NEW c \in Connections, Mover(c), NEW a \in Accounts, NEW n \in Amounts,
         MayDebit(a, n), accountLock[a] # c
  PROVE  MayDebit(a, n)'
<1>e. [EngineNext]_engineVars
  BY DEF EngineNext, Mover
<1>t. TypeOK /\ TypeOK' /\ Available(a) \in Int /\ n \in Nat
  BY <1>e, AvailableNumbers, LedgerAssumption
<1>1. ASSUME UNCHANGED entries, accountStatus'[a] = accountStatus[a]
      PROVE  MayDebit(a, n)'
  BY <1>1, SameEntries DEF MayDebit
<1>2. CASE CommitPosting(c)
  <2> DEFINE p == conn[c].input.posting
  <2>1. PostTransaction(conn[c].txn, conn[c].input.key, p) /\ p \in Postings
        /\ conn[c].txn \in Txns /\ conn[c].input.key \in Keys
    BY <1>2, CommitIsPost
  <2>2. conn[c].op = "post" /\ conn[c].step = "inserted"
    BY <1>2 DEF CommitPosting, At
  <2>3. \A b \in EntryAccounts(c) : accountLock[b] = c
    BY <2>2 DEF EngineInv, PostingLocks, HoldsAccounts
  <2>4. a # p.debit
    BY <2>2, <2>3, TwoAccounts
  <2>5. Available(a)' = Available(a)
              + (IF p.credit = a /\ p.status = "posted" THEN p.received ELSE 0)
              - (IF p.debit = a THEN p.paid ELSE 0)
        /\ p.received \in Nat
    BY <2>1, <1>t, PostEffect DEF EngineInv
  <2>6. Available(a)' >= Available(a)
    BY <2>4, <2>5, <1>t
  <2>7. accountStatus' = accountStatus
    BY <2>1 DEF PostTransaction, WriteTransaction
  <2>8. Available(a)' \in Int
    BY <2>4, <2>5, <1>t
  <2> QED
    BY <2>6, <2>7, <2>8, <1>t DEF MayDebit
<1>3. CASE CommitStatus(c)
  <2>1. PICK to \in {"posted", "released"} : entries' = Flip(conn[c].txn, to)
    BY <1>3 DEF CommitStatus, PostPending, SettleTransaction, CancelHold
  <2>2. accountStatus' = accountStatus
    BY <1>3 DEF CommitStatus, PostPending, SettleTransaction, CancelHold
  <2>3. conn[c].txn \in Txns
    BY <1>3, CommitIsFlip
  <2>4. Available(a)' \in Int /\ Available(a)' >= Available(a)
    BY <2>1, <2>3, <1>t, FlipRaisesAvailable
  <2> QED
    BY <2>2, <2>4, <1>t DEF MayDebit
<1>4. CASE CommitFreeze(c)
  <2>1. a \notin Mine(c, "active") /\ a \notin Mine(c, "frozen")
    BY DEF Mine
  <2>2. UNCHANGED entries /\ accountStatus'[a] = accountStatus[a]
    BY <1>4, <2>1, CommitIsFreeze DEF FreezeAccounts, UnfreezeAccounts, SetAccountStatus, vars
  <2> QED
    BY <1>1, <2>2
<1>5. CASE UNCHANGED vars
  BY <1>1, <1>5 DEF vars
<1> QED
  BY <1>2, <1>3, <1>4, <1>5, WhoWrites

LEMMA CheckIsCurrentStep ==
  ASSUME EngineInv, [EngineNext]_engineVars
  PROVE  CheckIsCurrent'
<1> SUFFICES ASSUME NEW d \in Connections, conn'[d].op = "post",
                    conn'[d].step \in {"insert", "inserted"},
                    NEW a \in Accounts, NEW n \in Amounts,
                    a = Debited(d)', n = Paid(d)'
             PROVE  MayDebit(a, n)'
  BY DEF CheckIsCurrent, CheckCurrent
<1>k. CheckCurrent(d) /\ HoldsAccounts(d) /\ EngineTypeOK /\ CallsKnown
  BY DEF EngineInv, CheckIsCurrent, PostingLocks
<1>1. ASSUME conn'[d] = conn[d]
      PROVE  MayDebit(a, n) /\ accountLock[a] = d
  <2>1. a = Debited(d) /\ n = Paid(d)
    BY <1>1 DEF Debited, Paid
  <2>2. a \in EntryAccounts(d)
    BY <1>1, <2>1, TwoAccounts DEF Debited
  <2> QED
    BY <1>1, <1>k, <2>1, <2>2 DEF CheckCurrent, HoldsAccounts
<1>2. CASE Mover(d)
  <2>1. conn[d].op = "post" /\ conn'[d].input = conn[d].input
        /\ (CheckDebit(d) \/ \E t \in Txns : InsertRow(d, t))
    BY <1>2, PostingMoves DEF Ended
  <2>2. a = Debited(d) /\ n = Paid(d)
    BY <2>1 DEF Debited, Paid
  <2>3. MayDebit(a, n)
    BY <2>1, <2>2, <1>k DEF CheckDebit, InsertRow, At, CheckCurrent, Debited, Paid
  <2>4. UNCHANGED vars
    BY <2>1 DEF CheckDebit, InsertRow, ledgerVars
  <2> QED
    BY <2>3, <2>4, SameEntries DEF MayDebit, vars
<1>3. ASSUME NEW c \in Connections, Mover(c), c # d PROVE MayDebit(a, n)'
  <2>1. conn'[d] = conn[d]
    BY <1>3, <1>k, MoverType
  <2> QED
    BY <1>1, <1>3, <2>1, MayDebitStays
<1>4. ASSUME (\E t \in Txns : UpdateStatus(t)) \/ UNCHANGED engineVars
      PROVE  MayDebit(a, n)'
  <2>1. conn'[d] = conn[d] /\ UNCHANGED <<entries, accountStatus>>
    BY <1>4 DEF UpdateStatus, engineVars, locks, vars, FlagTransaction, MarkReversed
  <2> QED
    BY <1>1, <2>1, SameEntries DEF MayDebit
<1> QED
  BY <1>2, <1>3, <1>4 DEF EngineNext, Mover

\* A connection that does not commit a posting adds no row.
LEMMA RowsComeWithCommits ==
  ASSUME EngineInv, [EngineNext]_engineVars, NEW t \in Txns
  PROVE  \/ \E c \in Connections :
              /\ Mover(c) /\ CommitPosting(c) /\ conn[c].txn = t
              /\ idempotencyKey'[t] = conn[c].input.key /\ ~Exists(t) /\ Exists(t)'
         \/ idempotencyKey'[t] = idempotencyKey[t] /\ (Exists(t)' <=> Exists(t))
<1>t. TypeOK
  BY DEF EngineInv, LedgerInv
<1>1. ASSUME NEW c \in Connections, Mover(c), CommitPosting(c)
      PROVE  \/ /\ conn[c].txn = t /\ idempotencyKey'[t] = conn[c].input.key
                /\ ~Exists(t) /\ Exists(t)'
             \/ idempotencyKey'[t] = idempotencyKey[t] /\ (Exists(t)' <=> Exists(t))
  <2>1. conn[c].txn \in Txns /\ conn[c].input.posting \in Postings
    BY <1>1, CommitIsPost
  <2>2. conn[c].input.posting.status # "none"
    BY <2>1 DEF Postings
  <2> QED
    BY <1>1, <1>t, <2>1, <2>2 DEF CommitPosting, WriteTransaction, Exists, TypeOK
<1>2. ASSUME NEW c \in Connections, CommitStatus(c)
      PROVE  idempotencyKey'[t] = idempotencyKey[t] /\ (Exists(t)' <=> Exists(t))
  <2>1. conn[c].txn \in Txns /\ Exists(conn[c].txn)
    BY <1>2, CommitIsFlip DEF ReleaseTransaction, SettleTransaction, CancelHold, Exists
  <2> QED
    BY <1>2, <1>t, <2>1 DEF CommitStatus, PostPending, SettleTransaction, CancelHold, Exists, TypeOK
<1>3. ASSUME NEW c \in Connections, CommitFreeze(c) \/ UNCHANGED vars
      PROVE  idempotencyKey'[t] = idempotencyKey[t] /\ (Exists(t)' <=> Exists(t))
  BY <1>3, CommitIsFreeze DEF FreezeAccounts, UnfreezeAccounts, SetAccountStatus, Exists, vars
<1>4. ASSUME (\E u \in Txns : UpdateStatus(u)) \/ UNCHANGED engineVars
      PROVE  idempotencyKey'[t] = idempotencyKey[t] /\ (Exists(t)' <=> Exists(t))
  BY <1>4, <1>t DEF UpdateStatus, engineVars, vars, FlagTransaction, MarkReversed, Exists, TypeOK
<1> QED
  BY <1>1, <1>2, <1>3, <1>4, WhoWrites DEF EngineNext, Mover

\* Who is at an inserted row has just inserted it, or was there before.
LEMMA InsertedMoves ==
  ASSUME EngineInv, [EngineNext]_engineVars, NEW d \in Connections, At(d, "post", "inserted")'
  PROVE  \/ conn'[d] = conn[d] /\ At(d, "post", "inserted") /\ ~(Mover(d) /\ CommitPosting(d))
         \/ /\ Mover(d) /\ \E t \in Txns : InsertRow(d, t) /\ conn'[d].txn = t
            /\ conn'[d].input = conn[d].input
<1>k. EngineTypeOK /\ CallsKnown
  BY DEF EngineInv
<1>1. CASE Mover(d)
  <2>1. conn'[d].op = "post" /\ conn'[d].step = "inserted"
    BY DEF At
  <2> QED
    BY <1>1, <2>1, PostingMoves DEF Ended
<1>2. ASSUME ~Mover(d) PROVE conn'[d] = conn[d]
  <2>1. ASSUME NEW c \in Connections, Mover(c) PROVE conn'[d] = conn[d]
    BY <1>2, <2>1, <1>k, MoverType
  <2>2. (\E t \in Txns : UpdateStatus(t)) \/ UNCHANGED engineVars => conn'[d] = conn[d]
    BY DEF UpdateStatus, engineVars
  <2> QED
    BY <2>1, <2>2 DEF EngineNext, Mover
<1> QED
  BY <1>1, <1>2 DEF At

LEMMA InsertIsOwnStep ==
  ASSUME EngineInv, [EngineNext]_engineVars
  PROVE  InsertIsOwn'
<1> SUFFICES ASSUME NEW d \in Connections, At(d, "post", "inserted")'
             PROVE  InsertOwn(d)'
  BY DEF InsertIsOwn, InsertOwn
<1>k. InsertOwn(d) /\ EngineTypeOK /\ CallsKnown
  BY DEF EngineInv, InsertIsOwn
<1>1. CASE conn'[d] = conn[d] /\ At(d, "post", "inserted") /\ ~(Mover(d) /\ CommitPosting(d))
  <2>1. /\ conn[d].txn \in Txns /\ ~Exists(conn[d].txn) /\ ~KeyUsed(conn[d].input.key)
        /\ \A e \in Connections \ {d} : At(e, "post", "inserted") =>
             conn[e].txn # conn[d].txn /\ conn[e].input.key # conn[d].input.key
    BY <1>1, <1>k DEF InsertOwn
  <2>2. ASSUME NEW t \in Txns, NEW c \in Connections, Mover(c), CommitPosting(c)
        PROVE  conn[c].txn # conn[d].txn /\ conn[c].input.key # conn[d].input.key
    BY <1>1, <2>1, <2>2 DEF CommitPosting
  <2>3. ~Exists(conn[d].txn)'
    <3>1. ASSUME NEW u \in Txns, u = conn[d].txn PROVE ~Exists(u)'
      BY <2>1, <2>2, <3>1, RowsComeWithCommits
    <3> QED
      BY <1>1, <2>1, <3>1 DEF Exists
  <2>4. ~KeyUsed(conn[d].input.key)'
    <3>1. \A t \in Txns : idempotencyKey'[t] # conn[d].input.key
      BY <2>1, <2>2, RowsComeWithCommits DEF KeyUsed
    <3> QED
      BY <1>1, <3>1 DEF KeyUsed
  <2>5. ASSUME NEW e \in Connections, e # d, At(e, "post", "inserted")'
        PROVE  conn'[e].txn # conn'[d].txn /\ conn'[e].input.key # conn'[d].input.key
    <3>1. CASE conn'[e] = conn[e] /\ At(e, "post", "inserted")
      BY <1>1, <2>1, <2>5, <3>1
    <3>2. ASSUME NEW t \in Txns, InsertRow(e, t), conn'[e].txn = t, conn'[e].input = conn[e].input
          PROVE  conn'[e].txn # conn'[d].txn /\ conn'[e].input.key # conn'[d].input.key
      BY <1>1, <3>2 DEF InsertRow, KeyInFlight
    <3> QED
      BY <2>5, <3>1, <3>2, InsertedMoves
  <2> QED
    BY <1>1, <2>1, <2>3, <2>4, <2>5 DEF InsertOwn, At, Exists, KeyUsed
<1>2. ASSUME NEW t \in Txns, Mover(d), InsertRow(d, t), conn'[d].txn = t,
             conn'[d].input = conn[d].input
      PROVE  InsertOwn(d)'
  <2>1. UNCHANGED vars /\ ~Exists(t) /\ ~KeyUsed(conn[d].input.key)
    BY <1>2 DEF InsertRow, ledgerVars
  <2>2. ASSUME NEW e \in Connections, e # d, At(e, "post", "inserted")'
        PROVE  conn'[e].txn # conn'[d].txn /\ conn'[e].input.key # conn'[d].input.key
    <3>1. conn'[e] = conn[e]
      BY <1>2, <2>2, <1>k, MoverType
    <3>2. At(e, "post", "inserted")
      BY <2>2, <3>1 DEF At
    <3> QED
      BY <1>2, <3>1, <3>2 DEF InsertRow, KeyInFlight
  <2> QED
    BY <1>2, <2>1, <2>2 DEF InsertOwn, At, Exists, KeyUsed, vars
<1> QED
  BY <1>1, <1>2, InsertedMoves

\* The row of a status change that commits is not another one's.
LEMMA StatusKept ==
  ASSUME EngineInv, NEW c \in Connections, Mover(c), NEW t \in Txns,
         Exists(t), txnLock[t] # c
  PROVE  txnStatus'[t] = txnStatus[t]
<1>t. TypeOK
  BY DEF EngineInv, LedgerInv
<1>1. CASE CommitPosting(c)
  BY <1>1, <1>t DEF CommitPosting, WriteTransaction, Exists, TypeOK
<1>2. CASE CommitStatus(c)
  <2>1. conn[c].op \in {"release", "settle", "cancel"} /\ conn[c].step = "commit"
    BY <1>2 DEF CommitStatus
  <2>2. txnLock[conn[c].txn] = c
    BY <2>1 DEF EngineInv, ReleaseIsCurrent, ReleaseCurrent
  <2> QED
    BY <1>2, <2>2, <1>t DEF CommitStatus, PostPending, SettleTransaction, CancelHold, TypeOK
<1>3. CASE CommitFreeze(c)
  BY <1>3, CommitIsFreeze DEF FreezeAccounts, UnfreezeAccounts, SetAccountStatus, vars
<1> QED
  BY <1>1, <1>2, <1>3, WhoWrites DEF vars

LEMMA ReleaseIsCurrentStep ==
  ASSUME EngineInv, [EngineNext]_engineVars
  PROVE  ReleaseIsCurrent'
<1> SUFFICES ASSUME NEW d \in Connections PROVE ReleaseCurrent(d)'
  BY DEF ReleaseIsCurrent
<1>k. ReleaseCurrent(d) /\ CallKnown(d) /\ EngineTypeOK /\ CallsKnown /\ TypeOK
  BY DEF EngineInv, ReleaseIsCurrent, LedgerInv, CallsKnown
<1>1. CASE Mover(d)
  <2>1. CASE conn'[d].op \in {"release", "settle", "cancel"} /\ conn'[d].step \in {"lockEntries", "commit"}
    <3>1. \/ conn'[d].op # "release" /\ conn'[d].step # "commit"
          \/ /\ conn[d].op = conn'[d].op /\ conn'[d].txn = conn[d].txn
             /\ LockTxn(d) \/ (LockEntries(d) /\ conn[d].op = "release")
      BY <1>1, <2>1, OtherMoves DEF Ended
    <3>2. ASSUME LockTxn(d), conn[d].op = conn'[d].op, conn'[d].txn = conn[d].txn
          PROVE  ReleaseCurrent(d)'
      BY <2>1, <3>2, <1>k DEF LockTxn, EngineTypeOK, vars, ledgerVars, CallKnown, ReleaseCurrent
    <3>3. ASSUME LockEntries(d), conn[d].op = "release", conn[d].op = conn'[d].op,
                 conn'[d].txn = conn[d].txn
          PROVE  ReleaseCurrent(d)'
      BY <2>1, <3>3, <1>k DEF LockEntries, ReleaseCurrent, vars, ledgerVars
    <3> QED
      BY <2>1, <3>1, <3>2, <3>3 DEF ReleaseCurrent
  <2> QED
    BY <2>1 DEF ReleaseCurrent
<1>2. ASSUME conn'[d] = conn[d],
             \A t \in Txns : txnLock[t] = d /\ Exists(t) =>
                txnLock'[t] = d /\ txnStatus'[t] = txnStatus[t]
      PROVE  ReleaseCurrent(d)'
  <2>1. conn[d].op \in {"release", "settle", "cancel"} =>
           conn[d].txn \in Txns /\ Exists(conn[d].txn)
    BY <1>k DEF CallKnown
  <2> QED
    BY <1>2, <2>1, <1>k DEF ReleaseCurrent
<1>3. ASSUME NEW c \in Connections, Mover(c), c # d
      PROVE  ReleaseCurrent(d)'
  <2>1. conn'[d] = conn[d] /\ \A t \in Txns : txnLock'[t] = d <=> txnLock[t] = d
    BY <1>3, <1>k, MoverType
  <2>2. \A t \in Txns : txnLock[t] = d /\ Exists(t) => txnStatus'[t] = txnStatus[t]
    BY <1>3, StatusKept
  <2> QED
    BY <2>1, <2>2, <1>2
<1>4. ASSUME NEW t \in Txns, UpdateStatus(t)
      PROVE  ReleaseCurrent(d)'
  <2>1. UNCHANGED <<conn, txnLock>> /\ txnLock[t] = Nobody
    BY <1>4 DEF UpdateStatus, locks
  <2>2. \A u \in Txns : u # t => txnStatus'[u] = txnStatus[u]
    BY <1>4, <1>k DEF UpdateStatus, FlagTransaction, MarkReversed, TypeOK
  <2> QED
    BY <2>1, <2>2, <1>2, EngineAssumption
<1>5. CASE UNCHANGED engineVars
  BY <1>2, <1>5 DEF engineVars, vars
<1> QED
  BY <1>1, <1>3, <1>4, <1>5 DEF EngineNext, Mover

\* What a call is, and whether it is a repetition, is settled when it starts.
LEMMA ArgumentsStay ==
  ASSUME EngineInv, NEW c \in Connections, Proceed(c) \/ Disconnect(c) \/ AbortVictim(c)
  PROVE  conn'[c].op = conn[c].op /\ conn'[c].replay = conn[c].replay
<1> DEFINE Goal == conn'[c].op = conn[c].op /\ conn'[c].replay = conn[c].replay
<1>t. EngineTypeOK /\ CallsKnown /\ conn[c] \in ConnectionRecord
  BY DEF EngineInv, EngineTypeOK, ConnectionRecord
<1>n. ASSUME NEW s, Continue(c, s) PROVE Goal
  <2>1. conn'[c] = [conn[c] EXCEPT !.step = s]
    BY <1>n, <1>t DEF Continue, EngineTypeOK
  <2> QED
    BY <2>1, <1>t DEF ConnectionRecord
<1>1. ASSUME NEW t \in Txns, FindExisting(c, t) \/ InsertRow(c, t) PROVE Goal
  <2>1. PICK s \in Step : conn'[c] = [conn[c] EXCEPT !.step = s, !.txn = t]
    BY <1>1, <1>t DEF FindExisting, InsertRow, EngineTypeOK, Step
  <2> QED
    BY <2>1, <1>t DEF ConnectionRecord
<1>2. ASSUME MissExisting(c) \/ LockAccount(c) PROVE Goal
  <2>1. CASE MissExisting(c)
    <3>1. conn'[c] = [conn[c] EXCEPT !.step = "lockAccounts", !.wants = EntryAccounts(c)]
      BY <2>1, <1>t DEF MissExisting, EntryAccounts, EngineTypeOK
    <3> QED
      BY <3>1, <1>t DEF ConnectionRecord
  <2>2. CASE LockAccount(c)
    <3>1. conn'[c] = [conn[c] EXCEPT !.wants = conn[c].wants \ {NextAccount(c)}]
      BY <2>2, <1>t DEF LockAccount, EngineTypeOK
    <3> QED
      BY <3>1, <1>t DEF ConnectionRecord
  <2> QED
    BY <1>2, <2>1, <2>2
<1>3. Proceed(c) => Goal
  BY <1>1, <1>2, <1>n
  DEF Proceed, HaveAccounts, CheckDebit, RefuseDebit, InsertDuplicate, CommitPosting, LockTxn,
      NotReleasable, LockEntries, CommitStatus, CommitFreeze
<1>4. Disconnect(c) => Goal
  BY <1>n DEF Disconnect
<1>5. AbortVictim(c) => Goal
  <2>1. ASSUME Restart(c) PROVE Goal
    <3>1. conn'[c] = [conn[c] EXCEPT !.step = FirstStep[conn[c].op], !.wants = {},
                                     !.tries = conn[c].tries + 1]
      BY <2>1, <1>t DEF Restart, EngineTypeOK
    <3> QED
      BY <3>1, <1>t DEF ConnectionRecord
  <2> QED
    BY <2>1, <1>n DEF AbortVictim, GiveUp
<1> QED
  BY <1>3, <1>4, <1>5

\* What calls that ended, and calls that repeat another one, can rely on.
AnswerKnown(c) ==
  /\ conn[c].op = "post" /\ conn[c].step = "returned" =>
        conn[c].txn \in Txns /\ idempotencyKey[conn[c].txn] = conn[c].input.key
  /\ conn[c].replay =>
        /\ conn[c].op = "post" /\ conn[c].step \in {"lookup", "returned", "failed"}
        /\ KeyUsed(conn[c].input.key)

UniqueKeys ==
  \A t, u \in Txns : idempotencyKey[t] = idempotencyKey[u] /\ idempotencyKey[t] # NoKey => t = u

AnswersInv ==
  /\ KeysReal
  /\ UniqueKeys
  /\ \A c \in Connections : AnswerKnown(c)

\* A key stays with its transaction.
LEMMA KeyStays ==
  ASSUME EngineInv, KeysReal, [EngineNext]_engineVars, NEW t \in Txns, idempotencyKey[t] # NoKey
  PROVE  idempotencyKey'[t] = idempotencyKey[t]
  BY RowsComeWithCommits DEF KeysReal

LEMMA AnswersStep ==
  ASSUME EngineInv, AnswersInv, [EngineNext]_engineVars
  PROVE  AnswersInv'
<1>k. EngineTypeOK /\ CallsKnown /\ KeysReal /\ UniqueKeys /\ LedgerInv
  BY DEF EngineInv, AnswersInv
<1>1. KeysReal'
  BY <1>k, EngineStepIsLedgerStep, ExistsKept
<1>2. UniqueKeys'
  <2> SUFFICES ASSUME NEW t \in Txns, NEW u \in Txns,
                      idempotencyKey'[t] = idempotencyKey'[u], idempotencyKey'[t] # NoKey, t # u
               PROVE  FALSE
    BY DEF UniqueKeys
  <2>c. ASSUME NEW c \in Connections, CommitPosting(c)
        PROVE  \A v \in Txns : idempotencyKey[v] # conn[c].input.key
    BY <2>c DEF CommitPosting, EngineInv, InsertIsOwn, InsertOwn, KeyUsed
  <2>o. ASSUME NEW c \in Connections, NEW d \in Connections, CommitPosting(c), CommitPosting(d),
               conn[c].input.key = conn[d].input.key
        PROVE  c = d
    BY <2>o DEF CommitPosting, EngineInv, InsertIsOwn, InsertOwn
  <2> QED
    BY <1>k, <2>c, <2>o, RowsComeWithCommits DEF UniqueKeys
<1>3. ASSUME NEW d \in Connections PROVE AnswerKnown(d)'
  <2>k. AnswerKnown(d)
    BY DEF AnswersInv
  <2>u. ASSUME NEW k \in Keys, KeyUsed(k) PROVE KeyUsed(k)'
    BY <2>u, <1>k, KeyStays, LedgerAssumption DEF KeyUsed
  <2>i. conn[d].op = "post" /\ conn[d].step # "idle" => conn[d].input.key \in Keys
    BY <1>k DEF CallsKnown, CallKnown
  <2>1. CASE conn'[d] = conn[d]
    <3>1. conn[d].op = "post" /\ conn[d].step = "returned" =>
             conn'[d].txn \in Txns /\ idempotencyKey'[conn'[d].txn] = conn'[d].input.key
      BY <2>1, <2>k, <2>i, <1>k, KeyStays, LedgerAssumption DEF AnswerKnown
    <3>2. conn[d].replay => KeyUsed(conn[d].input.key)'
      <4>1. ASSUME conn[d].replay, NEW k \in Keys, k = conn[d].input.key PROVE KeyUsed(k)'
        BY <4>1, <2>k, <2>u DEF AnswerKnown
      <4>2. conn[d].replay => conn[d].input.key \in Keys
        BY <2>k, <2>i DEF AnswerKnown
      <4> QED
        BY <4>1, <4>2, <2>1 DEF KeyUsed
    <3> QED
      BY <2>1, <3>1, <3>2, <2>k DEF AnswerKnown, KeyUsed
  <2>2. CASE Mover(d)
    <3>1. ASSUME conn'[d].op = "post", conn'[d].step = "returned"
          PROVE  conn'[d].txn \in Txns /\ idempotencyKey'[conn'[d].txn] = conn'[d].input.key
      <4>1. \/ \E t \in Txns : FindExisting(d, t) /\ conn'[d].txn = t
            \/ CommitPosting(d) /\ conn'[d].txn = conn[d].txn
        BY <2>2, <3>1, PostingMoves
      <4>2. conn'[d].input = conn[d].input
        BY <2>2, <3>1, PostingMoves
      <4>3. CASE \E t \in Txns : FindExisting(d, t) /\ conn'[d].txn = t
        BY <4>2, <4>3 DEF FindExisting, ledgerVars, vars
      <4>4. CASE CommitPosting(d) /\ conn'[d].txn = conn[d].txn
        BY <4>2, <4>4, <1>k, CommitIsPost DEF CommitPosting, WriteTransaction, LedgerInv, TypeOK
      <4> QED
        BY <4>1, <4>3, <4>4
    <3>2. ASSUME conn'[d].replay, Start(d)
          PROVE  conn'[d].op = "post" /\ conn'[d].step = "lookup" /\ (\E t \in Txns : idempotencyKey'[t] = conn'[d].input.key)
      <4>1. ASSUME NEW k \in Keys, NEW p \in Inputs, Call(d, k, p)
            PROVE  conn'[d].op = "post" /\ conn'[d].step = "lookup" /\ (\E t \in Txns : idempotencyKey'[t] = conn'[d].input.key)
        <5>1. conn'[d] = [IdleConnection EXCEPT !.step = FirstStep["post"],
                                 !.input = [key |-> k, posting |-> p],
                                 !.replay = KeyUsed(k)]
          BY <4>1, <1>k DEF Call, EngineTypeOK
        <5>2. /\ conn'[d].op = "post" /\ conn'[d].step = "lookup"
              /\ conn'[d].input.key = k /\ conn'[d].replay = KeyUsed(k)
          BY <5>1, FirstSteps DEF IdleConnection
        <5>3. KeyUsed(k)'
          BY <3>2, <5>2, <2>u
        <5> QED
          BY <5>2, <5>3 DEF KeyUsed
      <4>2. ASSUME NEW t \in Txns, NEW o \in {"settle", "cancel"},
                   StartRelease(d, t) \/ StartFlip(d, o, t)
            PROVE  FALSE
        <5>1. conn'[d].replay = FALSE
          BY <4>2, <1>k DEF StartRelease, StartFlip, EngineTypeOK, IdleConnection
        <5> QED
          BY <3>2, <5>1
      <4>3. ASSUME NEW o \in {"freeze", "unfreeze"}, StartFreeze(d, o) PROVE FALSE
        <5>1. conn'[d].replay = FALSE
          BY <4>3, <1>k DEF StartFreeze, EngineTypeOK, IdleConnection
        <5> QED
          BY <3>2, <5>1
      <4> QED
        BY <3>2, <4>1, <4>2, <4>3 DEF Start
    <3>3. ASSUME conn'[d].replay, Proceed(d) \/ Disconnect(d) \/ AbortVictim(d)
          PROVE  /\ conn'[d].op = "post" /\ conn'[d].step \in {"lookup", "returned", "failed"}
                 /\ (\E t \in Txns : idempotencyKey'[t] = conn'[d].input.key)
      <4>1. conn'[d].op = conn[d].op /\ conn[d].replay
        BY <3>3, ArgumentsStay
      <4>2. /\ conn[d].op = "post" /\ conn[d].step \in {"lookup", "returned", "failed"}
            /\ KeyUsed(conn[d].input.key)
        BY <4>1, <2>k DEF AnswerKnown
      <4>3. ASSUME NEW s \in Step, Continue(d, s)
            PROVE  conn'[d].step = s /\ conn'[d].input = conn[d].input
        <5>1. conn'[d] = [conn[d] EXCEPT !.step = s]
          BY <4>3, <1>k, ContinueType
        <5> QED
          BY <5>1, <1>k DEF EngineTypeOK
      <4>4. conn'[d].input = conn[d].input /\ conn'[d].step \in {"returned", "failed"}
        <5>1. ASSUME NEW t \in Txns, FindExisting(d, t)
              PROVE  conn'[d].input = conn[d].input /\ conn'[d].step = "returned"
          <6>1. conn'[d] = [conn[d] EXCEPT !.step = "returned", !.txn = t]
            BY <5>1, <1>k DEF FindExisting, EngineTypeOK
          <6> QED
            BY <6>1, <1>k DEF EngineTypeOK
        <5>2. ~MissExisting(d)
          BY <4>2 DEF MissExisting
        <5>3. ~AbortVictim(d)
          BY <4>2, VictimWaits
        <5>4. Disconnect(d) => conn'[d].input = conn[d].input /\ conn'[d].step = "failed"
          BY <4>3 DEF Disconnect, Step
        <5>5. Proceed(d) => \E t \in Txns : FindExisting(d, t)
          BY <4>2, <5>2
          DEF Proceed, InsertRow, LockAccount, HaveAccounts, CheckDebit, RefuseDebit, InsertDuplicate,
              CommitPosting, LockTxn, NotReleasable, LockEntries, CommitStatus, CommitFreeze, At
        <5> QED
          BY <3>3, <5>1, <5>3, <5>4, <5>5
      <4>5. PICK k \in Keys : k = conn[d].input.key
        BY <4>2, <2>i
      <4>6. KeyUsed(k)'
        BY <4>2, <4>5, <2>u
      <4> QED
        BY <4>1, <4>2, <4>4, <4>5, <4>6 DEF KeyUsed
    <3> QED
      BY <2>2, <3>1, <3>2, <3>3 DEF Mover, AnswerKnown, KeyUsed
  <2>3. ASSUME NEW c \in Connections, Mover(c), c # d PROVE conn'[d] = conn[d]
    BY <2>3, <1>k, MoverType
  <2>4. (\E t \in Txns : UpdateStatus(t)) \/ UNCHANGED engineVars => conn'[d] = conn[d]
    BY DEF UpdateStatus, engineVars
  <2> QED
    BY <2>1, <2>2, <2>3, <2>4 DEF EngineNext, Mover
<1> QED
  BY <1>1, <1>2, <1>3 DEF AnswersInv

-----------------------------------------------------------------------------
(* Theorems                                                                *)

LEMMA EngineTypeStep ==
  ASSUME EngineInv, [EngineNext]_engineVars
  PROVE  EngineTypeOK'
<1>k. EngineTypeOK /\ CallsKnown
  BY DEF EngineInv
<1>1. TypeOK'
  BY EngineStepIsLedgerStep, TypeStep DEF EngineInv, LedgerInv
<1>2. ASSUME NEW c \in Connections, Mover(c) PROVE EngineTypeOK'
  BY <1>1, <1>2, <1>k, MoverType DEF EngineTypeOK, ConnectionRecord
<1>3. ASSUME (\E t \in Txns : UpdateStatus(t)) \/ UNCHANGED engineVars PROVE EngineTypeOK'
  BY <1>1, <1>3, <1>k DEF UpdateStatus, engineVars, locks, EngineTypeOK
<1> QED
  BY <1>2, <1>3 DEF EngineNext, Mover

LEMMA EngineStart == EngineInit => EngineInv /\ AnswersInv
<1> SUFFICES ASSUME EngineInit PROVE EngineInv /\ AnswersInv
  OBVIOUS
<1>1. LedgerInv
  BY InvInit DEF EngineInit
<1>2. \A c \in Connections : conn[c] = IdleConnection
  BY DEF EngineInit
<1>3. EngineTypeOK
  BY <1>1, IdleType DEF EngineInit, EngineTypeOK, LedgerInv, ConnectionRecord
<1>4. \A c \in Connections :
         conn[c].step = "idle" /\ conn[c].op = "post" /\ conn[c].replay = FALSE
  BY <1>2 DEF IdleConnection
<1>5. CallsKnown
  BY <1>4 DEF CallsKnown, CallKnown, PostingSteps
<1>6. PostingLocks
  BY <1>4, EngineAssumption DEF EngineInit, PostingLocks, HoldsAccounts
<1>7. CheckIsCurrent /\ InsertIsOwn /\ ReleaseIsCurrent
  BY <1>4 DEF CheckIsCurrent, CheckCurrent, InsertIsOwn, InsertOwn, ReleaseIsCurrent, ReleaseCurrent, At
<1>8. AnswersInv
  BY <1>4 DEF AnswersInv, AnswerKnown, KeysReal, UniqueKeys, EngineInit, Init
<1> QED
  BY <1>1, <1>3, <1>5, <1>6, <1>7, <1>8 DEF EngineInv

LEMMA EngineInvStep == EngineInv /\ [EngineNext]_engineVars => EngineInv'
<1> SUFFICES ASSUME EngineInv, [EngineNext]_engineVars PROVE EngineInv'
  OBVIOUS
<1>1. LedgerInv'
  BY EngineStepIsLedgerStep, InvStep DEF EngineInv
<1> QED
  BY <1>1, EngineTypeStep, CallsKnownStep, PostingLocksStep, CheckIsCurrentStep, InsertIsOwnStep,
     ReleaseIsCurrentStep DEF EngineInv

\* At every statement: the accounts a posting has locked are its own, what it
\* checked under the locks is still true, the row it inserted is not another
\* one's, and who changes a status has read the latest.
THEOREM EngineInvariant == EngineSpec => [](EngineInv /\ AnswersInv)
<1>1. EngineInv /\ AnswersInv /\ [EngineNext]_engineVars => (EngineInv /\ AnswersInv)'
  BY EngineInvStep, AnswersStep
<1> QED
  BY <1>1, EngineStart, PTL DEF EngineSpec

\* postTransaction, release, settlement, cancellation and freeze, statement by
\* statement and for any number of connections, behave like the atomic actions
\* of module Ledger.
THEOREM EngineImplementsLedger == EngineSpec => ImplementsLedger
<1>1. EngineInit => Init
  BY DEF EngineInit
<1>2. EngineInv /\ [EngineNext]_engineVars => [Next]_vars
  BY EngineStepIsLedgerStep
<1> QED
  BY <1>1, <1>2, EngineInvariant, PTL DEF EngineSpec, ImplementsLedger, Spec

\* Calls under one key that return name one committed transaction.
THEOREM SameKeyIsSameTransaction == EngineSpec => []SameKeySameTransaction
<1>1. EngineInv /\ AnswersInv => SameKeySameTransaction
  <2> SUFFICES ASSUME EngineInv, AnswersInv, NEW c \in Connections, NEW d \in Connections,
                      At(c, "post", "returned"), At(d, "post", "returned"),
                      conn[c].input.key = conn[d].input.key
               PROVE  /\ conn[c].txn = conn[d].txn
                      /\ idempotencyKey[conn[c].txn] = conn[c].input.key
    BY DEF SameKeySameTransaction
  <2>1. conn[c].input.key \in Keys
    BY TwoAccounts DEF At
  <2> QED
    BY <2>1, LedgerAssumption DEF At, AnswersInv, AnswerKnown, UniqueKeys
<1> QED
  BY <1>1, EngineInvariant, PTL

\* A call under a key that is committed already is not refused.
THEOREM ReplaysAreAnswered == EngineSpec => []ReplayIsAnswered
<1>1. AnswersInv => ReplayIsAnswered
  BY DEF AnswersInv, AnswerKnown, ReplayIsAnswered
<1> QED
  BY <1>1, EngineInvariant, PTL

\* A set of numbers has a least one.
LEMMA LeastNat ==
  ASSUME NEW S, S \subseteq Nat, S # {}
  PROVE  \E x \in S : \A y \in S : x =< y
<1> DEFINE R == {ss \in Nat \X Nat : ss[1] < ss[2]}
<1>1. IsWellFoundedOn(R, Nat)
  BY NatLessThanWellFounded DEF OpToRel
<1>2. \E x \in S : \A y \in S : ~(<<y, x>> \in R)
  <2> HIDE DEF R
  <2> QED
    BY <1>1, WFMin
<1>3. ASSUME NEW x \in Nat, NEW y \in Nat, ~(x =< y) PROVE <<y, x>> \in R
  <2>1. y < x /\ <<y, x>> \in Nat \X Nat
    BY <1>3
  <2> QED
    BY <2>1
<1> HIDE DEF R
<1> QED
  BY <1>2, <1>3

\* In a circle of postings everybody waits for an account that comes after one
\* the next holds, so the circle would have no first account.
LEMMA NoPostingCircle ==
  ASSUME EngineInv, NEW cs \in SUBSET Connections, WaitInCircle(cs),
         \A c \in cs : conn[c].op = "post"
  PROVE  FALSE
<1> DEFINE Rank(c) == IdOrder[NextAccount(c)]
<1>1. ASSUME NEW c \in cs PROVE At(c, "post", "lockAccounts") /\ conn[c].wants # {}
  <2>1. PICK d \in Blockers(c) : d \in cs
    BY <1>1 DEF WaitInCircle
  <2>2. ASSUME KeyInFlight(c, d) PROVE FALSE
    <3>1. Blockers(d) # {} /\ conn[d].step = "inserted"
      BY <2>1, <2>2 DEF WaitInCircle, KeyInFlight, At
    <3> QED
      BY <3>1 DEF Blockers
  <2>3. conn[c].op = "post" /\ conn[c].step \in PostingSteps
    BY <1>1 DEF EngineInv, CallsKnown, CallKnown
  <2> QED
    BY <2>1, <2>2, <2>3 DEF Blockers, PostingSteps, Ended, At
<1>2. ASSUME NEW c \in cs PROVE Rank(c) \in Nat /\ NextAccount(c) \in Accounts
  <2>1. NextAccount(c) \in conn[c].wants
    BY <1>1, <1>2, FirstIsNext
  <2>2. conn[c].wants \subseteq Accounts
    BY <1>2 DEF EngineInv, EngineTypeOK
  <2> QED
    BY <2>1, <2>2, EngineAssumption
<1>3. ASSUME NEW d \in cs PROVE \E c \in cs : Rank(c) < Rank(d)
  <2>1. PICK c \in cs : d \in Blockers(c)
    BY <1>3 DEF WaitInCircle
  <2>2. accountLock[NextAccount(c)] = d
    BY <1>1, <2>1 DEF Blockers, At
  <2>3. \A b \in conn[d].wants : IdOrder[NextAccount(c)] < IdOrder[b]
    BY <1>1, <1>2, <1>3, <2>2 DEF EngineInv, PostingLocks, HoldsAccounts, At
  <2>4. NextAccount(d) \in conn[d].wants
    BY <1>1, <1>3, FirstIsNext
  <2> QED
    BY <2>3, <2>4
<1>4. PICK x \in {Rank(c) : c \in cs} : \A y \in {Rank(c) : c \in cs} : x =< y
  <2>1. {Rank(c) : c \in cs} # {}
    BY DEF WaitInCircle
  <2> QED
    BY <1>2, <2>1, LeastNat
<1> QED
  BY <1>2, <1>3, <1>4

\* No circle of waiting connections consists of postings alone, for any number
\* of connections and accounts.
THEOREM PostingsDoNotDeadlock == EngineSpec => []PostingsNeverDeadlock
<1>1. EngineInv => PostingsNeverDeadlock
  BY NoPostingCircle DEF PostingsNeverDeadlock
<1> QED
  BY <1>1, EngineInvariant, PTL

-----------------------------------------------------------------------------
(* Locks and waiting                                                       *)

\* A connection holds locks between the statement that takes them and its
\* COMMIT, and never waits for a row it has locked.
HoldsWhat(c) ==
  /\ \A a \in Accounts : accountLock[a] = c =>
        /\ conn[c].step \in {"lockAccounts", "check", "insert", "inserted", "commit"}
        /\ conn[c].step = "lockAccounts" => a \notin conn[c].wants
  /\ \A t \in Txns : txnLock[t] = c =>
        \/ conn[c].step = "commit"
        \/ conn[c].step = "lockEntries" /\ conn[c].op = "release"
  /\ \A t \in Txns : entriesLock[t] = c =>
        \/ conn[c].step = "commit"
        \/ conn[c].step = "lockTxn" /\ conn[c].op # "release"

HoldersKnown == \A c \in Connections : HoldsWhat(c)

HoldsNothing(c) ==
  /\ \A a \in Accounts : accountLock[a] # c
  /\ \A t \in Txns : txnLock[t] # c /\ entriesLock[t] # c

\* The statement of c finds the row it needs unlocked, and its key in nobody's
\* uncommitted row.
Free(c) ==
  /\ conn[c].step = "lockAccounts" /\ conn[c].wants # {} => accountLock[NextAccount(c)] = Nobody
  /\ conn[c].step = "lockTxn" => txnLock[conn[c].txn] = Nobody
  /\ conn[c].step = "lockEntries" /\ PendingEntries(conn[c].txn) =>
        entriesLock[conn[c].txn] = Nobody
  /\ conn[c].step = "insert" => \A d \in Connections : ~KeyInFlight(c, d)

\* A step of a call takes the locks its statement needs, and every way out of a
\* transaction gives all of them back.
LEMMA HoldsWhatStep ==
  ASSUME EngineInv, NEW c \in Connections, HoldsWhat(c), Mover(c)
  PROVE  HoldsWhat(c)'
<1>t. EngineTypeOK /\ CallsKnown /\ conn[c] \in ConnectionRecord
  BY DEF EngineInv, EngineTypeOK, ConnectionRecord
<1>z. HoldsNothing(c)' => HoldsWhat(c)'
  BY DEF HoldsNothing, HoldsWhat
<1>f. Unlock(c) => HoldsWhat(c)'
  <2>1. Unlock(c) => HoldsNothing(c)'
    BY <1>t, UnlockFrees DEF HoldsNothing
  <2> QED
    BY <2>1, <1>z
<1>u. ASSUME conn[c].step \in {"idle", "lookup"}, UNCHANGED locks PROVE HoldsWhat(c)'
  <2>1. HoldsNothing(c)
    BY <1>u DEF HoldsWhat, HoldsNothing
  <2>2. HoldsNothing(c)'
    BY <2>1, <1>u DEF HoldsNothing, locks
  <2> QED
    BY <2>2, <1>z
<1>n. ASSUME NEW s \in Step, Continue(c, s)
      PROVE  /\ conn'[c].step = s /\ conn'[c].op = conn[c].op
             /\ conn'[c].txn = conn[c].txn
  <2>1. conn'[c] = [conn[c] EXCEPT !.step = s]
    BY <1>n, <1>t, ContinueType
  <2> QED
    BY <2>1, <1>t DEF ConnectionRecord
<1>1. Start(c) => HoldsWhat(c)'
  BY <1>u DEF Start, Call, StartRelease, StartFlip, StartFreeze
<1>2. ASSUME MissExisting(c) \/ \E t \in Txns : FindExisting(c, t) PROVE HoldsWhat(c)'
  BY <1>2, <1>u DEF MissExisting, FindExisting, At
<1>3. ASSUME NEW t \in Txns, InsertRow(c, t) PROVE HoldsWhat(c)'
  <2>1. conn[c].step = "insert" /\ UNCHANGED locks
    BY <1>3 DEF InsertRow, At
  <2>2. conn'[c] = [conn[c] EXCEPT !.step = "inserted", !.txn = t]
    BY <1>3, <1>t DEF InsertRow, EngineTypeOK
  <2>3. conn'[c].step = "inserted"
    BY <2>2, <1>t DEF ConnectionRecord
  <2> QED
    BY <2>1, <2>3 DEF HoldsWhat, locks
<1>4. ASSUME LockAccount(c) PROVE HoldsWhat(c)'
  <2>1. /\ conn[c].step = "lockAccounts" /\ UNCHANGED <<txnLock, entriesLock>>
        /\ accountLock' = [accountLock EXCEPT ![NextAccount(c)] = c]
    BY <1>4 DEF LockAccount
  <2>2. conn'[c] = [conn[c] EXCEPT !.wants = conn[c].wants \ {NextAccount(c)}]
    BY <1>4, <1>t DEF LockAccount, EngineTypeOK
  <2>3. conn'[c].step = "lockAccounts" /\ conn'[c].wants = conn[c].wants \ {NextAccount(c)}
    BY <2>1, <2>2, <1>t DEF ConnectionRecord
  <2>4. \A a \in Accounts : accountLock'[a] = IF a = NextAccount(c) THEN c ELSE accountLock[a]
    BY <2>1, <1>t DEF EngineTypeOK
  <2>5. \A t \in Txns : txnLock[t] # c /\ entriesLock[t] # c
    BY <2>1 DEF HoldsWhat
  <2> QED
    BY <2>1, <2>3, <2>4, <2>5 DEF HoldsWhat
<1>5. ASSUME HaveAccounts(c) \/ CheckDebit(c) PROVE HoldsWhat(c)'
  <2>1. /\ conn[c].step \in {"lockAccounts", "check"} /\ UNCHANGED locks
        /\ conn'[c].step \in {"check", "insert", "commit"}
    BY <1>5, <1>n DEF HaveAccounts, CheckDebit, At, Step
  <2> QED
    BY <2>1 DEF HoldsWhat, locks
<1>6. ASSUME LockTxn(c) PROVE HoldsWhat(c)'
  <2>1. /\ conn[c].step = "lockTxn" /\ UNCHANGED <<accountLock, entriesLock>>
        /\ conn'[c].op = conn[c].op
        /\ conn'[c].step = IF conn[c].op = "release" THEN "lockEntries" ELSE "commit"
    BY <1>6, <1>n DEF LockTxn, Step
  <2> QED
    BY <2>1 DEF HoldsWhat
<1>7. ASSUME LockEntries(c) PROVE HoldsWhat(c)'
  <2>1. /\ conn[c].step = "lockEntries" /\ UNCHANGED <<accountLock, txnLock>>
        /\ conn'[c].op = conn[c].op
        /\ conn'[c].step = IF conn[c].op = "release" THEN "commit" ELSE "lockTxn"
    BY <1>7, <1>n DEF LockEntries, Step
  <2> QED
    BY <2>1 DEF HoldsWhat
<1>8. RefuseDebit(c) \/ InsertDuplicate(c) \/ CommitPosting(c) \/ NotReleasable(c)
        \/ CommitStatus(c) \/ CommitFreeze(c) \/ Disconnect(c) \/ AbortVictim(c) => HoldsWhat(c)'
  BY <1>f DEF RefuseDebit, InsertDuplicate, CommitPosting, NotReleasable, CommitStatus,
              CommitFreeze, Disconnect, AbortVictim
<1>9. Proceed(c) => HoldsWhat(c)'
  BY <1>2, <1>3, <1>4, <1>5, <1>6, <1>7, <1>8 DEF Proceed
<1> QED
  BY <1>1, <1>8, <1>9 DEF Mover

LEMMA HoldersKnownStep ==
  ASSUME EngineInv, HoldersKnown, [EngineNext]_engineVars
  PROVE  HoldersKnown'
<1> SUFFICES ASSUME NEW d \in Connections PROVE HoldsWhat(d)'
  BY DEF HoldersKnown
<1>k. HoldsWhat(d) /\ EngineTypeOK /\ CallsKnown
  BY DEF HoldersKnown, EngineInv
<1>1. ASSUME conn'[d] = conn[d],
             \A a \in Accounts : accountLock'[a] = d <=> accountLock[a] = d,
             \A t \in Txns : txnLock'[t] = d <=> txnLock[t] = d,
             \A t \in Txns : entriesLock'[t] = d <=> entriesLock[t] = d
      PROVE  HoldsWhat(d)'
  BY <1>1, <1>k DEF HoldsWhat
<1>2. ASSUME Mover(d) PROVE HoldsWhat(d)'
  BY <1>2, <1>k, HoldsWhatStep
<1>3. ASSUME NEW c \in Connections, Mover(c), c # d PROVE HoldsWhat(d)'
  BY <1>1, <1>3, <1>k, MoverType
<1>4. ASSUME (\E t \in Txns : UpdateStatus(t)) \/ UNCHANGED engineVars PROVE HoldsWhat(d)'
  BY <1>1, <1>4 DEF UpdateStatus, engineVars, locks
<1> QED
  BY <1>2, <1>3, <1>4 DEF EngineNext, Mover

\* Whoever holds a lock is on its way to the COMMIT, and never waits for a row
\* it has locked itself.
THEOREM HoldersAreKnown == EngineSpec => []HoldersKnown
<1>1. EngineInit => HoldersKnown
  BY EngineAssumption DEF EngineInit, HoldersKnown, HoldsWhat
<1>2. EngineInv /\ HoldersKnown /\ [EngineNext]_engineVars => HoldersKnown'
  BY HoldersKnownStep
<1> QED
  BY <1>1, <1>2, EngineInvariant, PTL DEF EngineSpec

\* A call that has ended, however it ended, holds no lock.
THEOREM LocksAreGivenBack ==
  EngineSpec => [](\A c \in Connections : ~InTransaction(c) => HoldsNothing(c))
<1>1. HoldersKnown => \A c \in Connections : ~InTransaction(c) => HoldsNothing(c)
  BY DEF HoldersKnown, HoldsWhat, HoldsNothing, InTransaction, Ended
<1> QED
  BY <1>1, HoldersAreKnown, PTL

\* The next account is one of those wanted, for a freeze as for a posting.
LEMMA NextIsWanted ==
  ASSUME EngineTypeOK, NEW c \in Connections, conn[c].wants # {}
  PROVE  NextAccount(c) \in conn[c].wants /\ NextAccount(c) \in Accounts
<1> DEFINE rank == IF conn[c].op = "post" THEN IdOrder ELSE HeapOrder
           W == conn[c].wants
<1>1. W \subseteq Accounts /\ rank \in [Accounts -> Nat]
  BY EngineAssumption DEF EngineTypeOK
<1>2. NextAccount(c) = CHOOSE a \in W : \A b \in W : rank[a] =< rank[b]
  BY DEF NextAccount
<1> HIDE DEF rank, W
<1>3. {rank[a] : a \in W} \subseteq Nat /\ {rank[a] : a \in W} # {}
  <2>1. W # {}
    BY DEF W
  <2> QED
    BY <1>1, <2>1
<1>4. \E x \in {rank[a] : a \in W} : \A y \in {rank[a] : a \in W} : x =< y
  BY <1>3, LeastNat
<1>5. \E a \in W : \A b \in W : rank[a] =< rank[b]
  BY <1>4
<1>6. NextAccount(c) \in W
  BY <1>2, <1>5
<1> QED
  BY <1>1, <1>6 DEF W

\* Who is waited for is in a transaction.
LEMMA BlockersHold ==
  ASSUME HoldersKnown, EngineInv, NEW c \in Connections, NEW d \in Blockers(c), InTransaction(c)
  PROVE  d \in Connections /\ InTransaction(d)
<1>1. HoldsWhat(d) /\ d \in Connections /\ EngineTypeOK
  BY DEF HoldersKnown, Blockers, EngineInv
<1>2. CASE conn[c].step = "lockAccounts" /\ conn[c].wants # {} /\ accountLock[NextAccount(c)] = d
  BY <1>1, <1>2, NextIsWanted DEF HoldsWhat, InTransaction, Ended
<1>3. conn[c].step \in {"lockTxn", "lockEntries"} => conn[c].txn \in Txns
  BY DEF EngineInv, CallsKnown, CallKnown, PostingSteps, FreezeSteps, Ended, EngineTypeOK, Operation
<1>4. CASE conn[c].step = "lockTxn" /\ txnLock[conn[c].txn] = d
  BY <1>1, <1>3, <1>4 DEF HoldsWhat, InTransaction, Ended
<1>5. CASE conn[c].step = "lockEntries" /\ entriesLock[conn[c].txn] = d
  BY <1>1, <1>3, <1>5 DEF HoldsWhat, InTransaction, Ended
<1>6. CASE KeyInFlight(c, d)
  BY <1>1, <1>6 DEF KeyInFlight, At, InTransaction, Ended
<1> QED
  BY <1>2, <1>4, <1>5, <1>6 DEF Blockers

\* A call that cannot go ahead waits for another one, never for itself or for
\* a lock nobody would give back.
LEMMA StuckIsBlocked ==
  ASSUME HoldersKnown, EngineInv, NEW c \in Connections, InTransaction(c), ~Free(c)
  PROVE  Blockers(c) # {}
<1>1. HoldsWhat(c) /\ EngineTypeOK
  BY DEF HoldersKnown, EngineInv
<1>2. CASE conn[c].step = "lockAccounts" /\ conn[c].wants # {} /\ accountLock[NextAccount(c)] # Nobody
  <2>1. NextAccount(c) \in conn[c].wants /\ NextAccount(c) \in Accounts
    BY <1>1, <1>2, NextIsWanted
  <2>2. accountLock[NextAccount(c)] \in Connections \ {c}
    BY <1>1, <1>2, <2>1 DEF HoldsWhat, EngineTypeOK
  <2> QED
    BY <1>2, <2>2 DEF Blockers
<1>3. conn[c].step \in {"lockTxn", "lockEntries"} => conn[c].txn \in Txns
  BY DEF EngineInv, CallsKnown, CallKnown, PostingSteps, FreezeSteps, Ended, EngineTypeOK, Operation
<1>4. CASE conn[c].step = "lockTxn" /\ txnLock[conn[c].txn] # Nobody
  <2>1. txnLock[conn[c].txn] \in Connections \ {c}
    BY <1>1, <1>3, <1>4 DEF HoldsWhat, EngineTypeOK
  <2> QED
    BY <1>4, <2>1 DEF Blockers
<1>5. CASE conn[c].step = "lockEntries" /\ PendingEntries(conn[c].txn) /\ entriesLock[conn[c].txn] # Nobody
  <2>1. entriesLock[conn[c].txn] \in Connections \ {c}
    BY <1>1, <1>3, <1>5 DEF HoldsWhat, EngineTypeOK
  <2> QED
    BY <1>5, <2>1 DEF Blockers
<1>6. ASSUME conn[c].step = "insert", NEW d \in Connections, KeyInFlight(c, d)
      PROVE  Blockers(c) # {}
  <2>1. d # c
    BY <1>6 DEF KeyInFlight, At
  <2> QED
    BY <1>6, <2>1 DEF Blockers
<1> QED
  BY <1>2, <1>4, <1>5, <1>6 DEF Free

\* The calls of cs wait for one another only, and each of them waits.
Stuck(cs) ==
  /\ cs # {}
  /\ \A c \in cs : Blockers(c) # {} /\ Blockers(c) \subseteq cs

\* Among finitely many calls that all wait for one another some wait in a
\* circle: the smallest set of them that waits for itself only.
LEMMA StuckHasCircle ==
  ASSUME IsFiniteSet(Connections), NEW cs \in SUBSET Connections, Stuck(cs)
  PROVE  \E ds \in SUBSET cs : WaitInCircle(ds)
<1> DEFINE Candidates == {ds \in SUBSET cs : Stuck(ds)}
           Sizes == {Cardinality(ds) : ds \in Candidates}
<1>1. \A ds \in SUBSET cs : IsFiniteSet(ds) /\ Cardinality(ds) \in Nat
  <2> SUFFICES ASSUME NEW ds \in SUBSET cs PROVE IsFiniteSet(ds) /\ Cardinality(ds) \in Nat
    OBVIOUS
  <2>1. ds \subseteq Connections
    OBVIOUS
  <2>2. IsFiniteSet(ds)
    BY <2>1, FS_Subset
  <2> QED
    BY <2>2, FS_CardinalityType
<1>2. PICK n \in Sizes : \A m \in Sizes : n =< m
  <2>1. cs \in Candidates
    OBVIOUS
  <2>2. Sizes \subseteq Nat /\ Sizes # {}
    BY <1>1, <2>1
  <2> HIDE DEF Sizes
  <2> QED
    BY <2>2, LeastNat
<1>3. PICK ds \in Candidates : n = Cardinality(ds)
  BY <1>2
<1> DEFINE es == UNION {Blockers(c) : c \in ds}
<1>4. es \in Candidates
  <2>1. Stuck(ds) /\ ds \subseteq cs
    BY <1>3
  <2>2. es \subseteq ds /\ es # {}
    BY <2>1 DEF Stuck
  <2>3. \A c \in es : Blockers(c) # {} /\ Blockers(c) \subseteq es
    BY <2>1, <2>2 DEF Stuck
  <2> QED
    BY <2>1, <2>2, <2>3 DEF Stuck
<1>5. es \subseteq ds
  BY <1>3 DEF Stuck
<1>6. Cardinality(ds) =< Cardinality(es)
  BY <1>2, <1>3, <1>4
<1> HIDE DEF es
<1>7. IsFiniteSet(ds) /\ Cardinality(ds) \in Nat /\ Cardinality(es) \in Nat
  BY <1>1, <1>3, <1>4
<1>8. Cardinality(es) =< Cardinality(ds) /\ (Cardinality(es) = Cardinality(ds) => es = ds)
  BY <1>5, <1>7, FS_Subset
<1>9. es = ds
  BY <1>6, <1>7, <1>8
<1> QED
  BY <1>3, <1>9 DEF es, WaitInCircle, Stuck

\* Nobody waits for ever without being in a deadlock the server can see: of the
\* calls in a transaction one can run its next statement, or some wait for one
\* another in a circle, and a victim is found.
OneCanGoOn ==
  (\E c \in Connections : InTransaction(c)) =>
     \/ \E c \in Connections : InTransaction(c) /\ Free(c)
     \/ \E cs \in SUBSET Connections : WaitInCircle(cs)

\* Of any calls that wait for no others one can go on, or there is a circle
\* among them.
WaitsEnd ==
  \A cs \in SUBSET Connections :
     cs # {} /\ (\A c \in cs : InTransaction(c) /\ Blockers(c) \subseteq cs) =>
       \/ \E c \in cs : Free(c)
       \/ \E ds \in SUBSET cs : WaitInCircle(ds)

\* With finitely many connections, some call in a transaction can always run its
\* next statement, or there is a deadlock for the server to break: what withTransaction
\* and the row locks have to give for every call to end.
THEOREM NobodyWaitsForEver ==
  ASSUME IsFiniteSet(Connections)
  PROVE  EngineSpec => [](OneCanGoOn /\ WaitsEnd)
<1>1. EngineInv /\ HoldersKnown => WaitsEnd
  <2> SUFFICES ASSUME EngineInv, HoldersKnown, NEW cs \in SUBSET Connections, cs # {},
                      \A c \in cs : InTransaction(c) /\ Blockers(c) \subseteq cs,
                      ~ \E c \in cs : Free(c)
               PROVE  \E ds \in SUBSET cs : WaitInCircle(ds)
    BY DEF WaitsEnd
  <2>1. \A c \in cs : Blockers(c) # {}
    BY StuckIsBlocked
  <2> QED
    BY <2>1, StuckHasCircle DEF Stuck
<1>2. EngineInv /\ HoldersKnown => OneCanGoOn
  <2> SUFFICES ASSUME EngineInv, HoldersKnown, NEW c \in Connections, InTransaction(c)
               PROVE  \/ \E d \in Connections : InTransaction(d) /\ Free(d)
                      \/ \E ds \in SUBSET Connections : WaitInCircle(ds)
    BY DEF OneCanGoOn
  <2> DEFINE cs == {d \in Connections : InTransaction(d)}
  <2>1. \A d \in cs : InTransaction(d) /\ Blockers(d) \subseteq cs
    BY BlockersHold
  <2>2. cs \in SUBSET Connections /\ cs # {}
    OBVIOUS
  <2>3. \/ \E d \in cs : Free(d)
        \/ \E ds \in SUBSET cs : WaitInCircle(ds)
    BY <1>1, <2>1, <2>2 DEF WaitsEnd
  <2> QED
    BY <2>3
<1> QED
  BY <1>1, <1>2, EngineInvariant, HoldersAreKnown, PTL
=============================================================================
