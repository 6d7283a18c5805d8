----------------------------- MODULE LedgerProofs -----------------------------
(***************************************************************************)
(* Proofs about the ledger, for any accounts, transactions, keys, amounts  *)
(* and opening balances.                                                   *)
(***************************************************************************)
EXTENDS Ledger, TLAPS

-----------------------------------------------------------------------------
(* Types                                                                   *)

\* The rows postTransaction writes are ledger_entries rows.
LEMMA NewEntriesType ==
  ASSUME NEW p \in Postings
  PROVE  NewEntries(p) \in [Sides -> Entry]
  BY DEF NewEntries, Postings, Sides, Entry, EntryStatusOf, EntryStatus

\* UPDATE ... SET status keeps the rows of a transaction rows, and changes no
\* other transaction's.
LEMMA FlipType ==
  ASSUME TypeOK, NEW t \in Txns, NEW to \in EntryStatus
  PROVE  Flip(t, to) \in [Txns -> [Sides -> Entry]]
<1>1. \A e \in Entry : Flipped(e, to) \in Entry
  BY DEF Flipped, Entry
<1>2. [side \in Sides |-> Flipped(entries[t][side], to)] \in [Sides -> Entry]
  BY <1>1 DEF TypeOK
<1>3. QED
  BY <1>2 DEF TypeOK, Flip

\* Every table has rows of its type after each committed database transaction.
LEMMA TypeStep == TypeOK /\ [Next]_vars => TypeOK'
<1> SUFFICES ASSUME TypeOK, [Next]_vars PROVE TypeOK'
  OBVIOUS
<1> USE DEF TypeOK
<1>1. ASSUME NEW t \in Txns, NEW k \in Keys, NEW p \in Postings,
             PostTransaction(t, k, p)
      PROVE  TypeOK'
  <2>1. p.status \in TxnStatus
    BY DEF Postings, TxnStatus
  <2>2. entries' \in [Txns -> [Sides -> Entry]]
    BY <1>1, NewEntriesType DEF PostTransaction, WriteTransaction
  <2>3. QED
    BY <1>1, <2>1, <2>2 DEF PostTransaction, WriteTransaction
<1>2. ASSUME NEW t \in Txns, NEW st \in {"posted", "settled"}, PostPending(t, st)
      PROVE  TypeOK'
  <2>1. Flip(t, "posted") \in [Txns -> [Sides -> Entry]]
    BY FlipType DEF EntryStatus
  <2>2. QED
    BY <1>2, <2>1 DEF PostPending, TxnStatus
<1>3. ASSUME NEW t \in Txns, CancelHold(t)
      PROVE  TypeOK'
  <2>1. Flip(t, "released") \in [Txns -> [Sides -> Entry]]
    BY FlipType DEF EntryStatus
  <2>2. QED
    BY <1>3, <2>1 DEF CancelHold, TxnStatus
<1>4. ASSUME NEW t \in Txns, MarkReversed(t) \/ FlagTransaction(t)
      PROVE  TypeOK'
  BY <1>4 DEF MarkReversed, FlagTransaction, TxnStatus
<1>5. ASSUME NEW as \in SUBSET Accounts, FreezeAccounts(as) \/ UnfreezeAccounts(as)
      PROVE  TypeOK'
  BY <1>5 DEF FreezeAccounts, UnfreezeAccounts, SetAccountStatus, AccountStatus
<1>6. CASE UNCHANGED vars
  BY <1>6 DEF vars
<1>7. QED
  BY <1>1, <1>2, <1>3, <1>4, <1>5, <1>6
     DEF Next, ReleaseTransaction, SettleTransaction

\* The type invariant of the ledger, for every instance.
THEOREM TypeCorrect == Spec => []TypeOK
<1>1. Init => TypeOK
  BY DEF Init, TypeOK, AccountStatus, Entry, NoEntry
<1>2. QED
  BY <1>1, TypeStep, PTL DEF Spec

-----------------------------------------------------------------------------
(* Sums of ledger entries                                                  *)

\* A column is a number per transaction, so it can be summed.
LEMMA ColumnType ==
  ASSUME TypeOK, NEW a \in Accounts, NEW side \in Sides, NEW st \in EntryStatus
  PROVE  /\ Column(a, side, st) \in [Txns -> Amounts \cup {0}]
         /\ SumOf(a, side, st) \in Nat
<1>1. \A t \in Txns : Counted(entries[t][side], a, st) \in Amounts \cup {0}
  BY DEF TypeOK, Counted, Entry
<1>2. Column(a, side, st) \in [Txns -> Amounts \cup {0}]
  BY <1>1 DEF Column
<1>3. QED
  BY <1>2, LedgerAssumption DEF SumOf, TotalAssumption

\* Rewriting one transaction's entries changes each sum by what that
\* transaction contributed before and contributes now.
LEMMA SumUpdate ==
  ASSUME TypeOK, TypeOK', NEW t \in Txns,
         \A u \in Txns : u # t => entries'[u] = entries[u],
         NEW a \in Accounts, NEW side \in Sides, NEW st \in EntryStatus
  PROVE  SumOf(a, side, st)' = SumOf(a, side, st)
                               - Counted(entries[t][side], a, st)
                               + Counted(entries'[t][side], a, st)
<1> DEFINE f == Column(a, side, st)
           n == Counted(entries'[t][side], a, st)
<1>1. f \in [Txns -> Amounts \cup {0}]
  BY ColumnType
<1>2. n \in Amounts \cup {0}
  BY DEF TypeOK, Counted, Entry
<1>3. Column(a, side, st)' = [f EXCEPT ![t] = n]
  BY DEF Column
<1>4. Total([f EXCEPT ![t] = n]) = Total(f) - f[t] + n
  BY <1>1, <1>2, LedgerAssumption DEF TotalAssumption
<1>5. f[t] = Counted(entries[t][side], a, st)
  BY DEF Column
<1>6. QED
  BY <1>3, <1>4, <1>5 DEF SumOf

-----------------------------------------------------------------------------
(* No overdraft                                                            *)

\* What the entries of t, as es has them, add to the available balance of a.
Effect(es, t, a) ==
  Counted(es[t]["credit"], a, "posted") - Counted(es[t]["debit"], a, "posted")
                                        - Counted(es[t]["debit"], a, "pending")

\* An entry's amount is a natural, and so is what it contributes to a sum.
LEMMA EntryAmount ==
  ASSUME TypeOK, NEW t \in Txns, NEW side \in Sides
  PROVE  /\ entries[t][side].amount \in Nat
         /\ \A a \in Accounts, st \in EntryStatus :
               Counted(entries[t][side], a, st) \in Nat
<1>1. entries[t][side] \in Entry
  BY DEF TypeOK
<1>2. entries[t][side].amount \in Amounts \cup {0}
  BY <1>1 DEF Entry
<1>3. Amounts \cup {0} \subseteq Nat
  BY LedgerAssumption
<1>4. entries[t][side].amount \in Nat
  BY <1>2, <1>3
<1>5. QED
  BY <1>4 DEF Counted

\* The same after a step.
LEMMA EntryAmountNext ==
  ASSUME TypeOK', NEW t \in Txns, NEW side \in Sides
  PROVE  /\ entries'[t][side].amount \in Nat
         /\ \A a \in Accounts, st \in EntryStatus :
               Counted(entries'[t][side], a, st) \in Nat
<1>1. entries'[t][side] \in Entry
  BY DEF TypeOK
<1>2. entries'[t][side].amount \in Amounts \cup {0}
  BY <1>1 DEF Entry
<1>3. Amounts \cup {0} \subseteq Nat
  BY LedgerAssumption
<1>4. entries'[t][side].amount \in Nat
  BY <1>2, <1>3
<1>5. QED
  BY <1>4 DEF Counted

\* Sums and available balances are integers, contributions naturals.
LEMMA AvailableType ==
  ASSUME TypeOK, NEW a \in Accounts
  PROVE  /\ LedgerBalance(a) \in Int
         /\ Available(a) \in Int
         /\ Available(a) <= LedgerBalance(a)
<1>1. /\ SumOf(a, "credit", "posted") \in Nat
      /\ SumOf(a, "debit", "posted") \in Nat
      /\ SumOf(a, "debit", "pending") \in Nat
  BY ColumnType DEF Sides, EntryStatus
<1>2. Opening[a] \in Nat
  BY LedgerAssumption
<1>3. QED
  BY <1>1, <1>2 DEF Available, LedgerBalance

\* computeBalance moves by the change in one transaction's contribution.
LEMMA AvailableUpdate ==
  ASSUME TypeOK, TypeOK', NEW t \in Txns,
         \A u \in Txns : u # t => entries'[u] = entries[u],
         NEW a \in Accounts
  PROVE  Available(a)' = Available(a) - Effect(entries, t, a)
                                      + Effect(entries', t, a)
<1> DEFINE C(e, st) == Counted(e, a, st)
<1>1. \A side \in Sides, st \in EntryStatus :
         /\ SumOf(a, side, st) \in Nat
         /\ C(entries[t][side], st) \in Nat
         /\ C(entries'[t][side], st) \in Nat
  <2>1. ASSUME NEW side \in Sides, NEW st \in EntryStatus
        PROVE  /\ C(entries[t][side], st) \in Nat
               /\ C(entries'[t][side], st) \in Nat
    BY EntryAmount, EntryAmountNext
  <2>2. QED
    BY <2>1, ColumnType
<1>2. \A side \in Sides, st \in EntryStatus :
         SumOf(a, side, st)' = SumOf(a, side, st) - C(entries[t][side], st)
                                                  + C(entries'[t][side], st)
  BY SumUpdate
<1>3. Opening[a] \in Nat
  BY LedgerAssumption
<1>4. {"debit", "credit"} \subseteq Sides /\ {"posted", "pending"} \subseteq EntryStatus
  BY DEF Sides, EntryStatus
<1> HIDE DEF C
<1>5. Effect(entries, t, a) = C(entries[t]["credit"], "posted")
           - C(entries[t]["debit"], "posted") - C(entries[t]["debit"], "pending")
  BY DEF Effect, C
<1>6. Effect(entries', t, a) = C(entries'[t]["credit"], "posted")
           - C(entries'[t]["debit"], "posted") - C(entries'[t]["debit"], "pending")
  BY DEF Effect, C
<1>7. QED
  BY <1>1, <1>2, <1>3, <1>4, <1>5, <1>6 DEF Available, LedgerBalance

\* What a posting does to an available balance: the debit leaves at once, as a
\* hold if it is pending; the credit arrives only if it is posted.
LEMMA PostEffect ==
  ASSUME LedgerInv, TypeOK', NEW t \in Txns, NEW k \in Keys, NEW p \in Postings,
         PostTransaction(t, k, p), NEW a \in Accounts
  PROVE  /\ p.paid \in Nat
         /\ p.received \in Nat
         /\ Available(a) \in Int
         /\ Available(a)' = Available(a)
              + (IF p.credit = a /\ p.status = "posted" THEN p.received ELSE 0)
              - (IF p.debit = a THEN p.paid ELSE 0)
<1>1. Available(a)' = Available(a) - Effect(entries, t, a) + Effect(entries', t, a)
  BY AvailableUpdate DEF LedgerInv, PostTransaction, WriteTransaction, TypeOK
<1>2. Effect(entries, t, a) = 0
  <2>1. \A side \in Sides : entries[t][side].status = "none"
    BY DEF LedgerInv, EntriesPaired, PostTransaction, WriteTransaction, Exists, Sides
  <2>2. QED
    BY <2>1 DEF Effect, Counted, Sides
<1>3. p.paid \in Nat /\ p.received \in Nat
  BY LedgerAssumption DEF Postings
<1>4. EntryStatusOf(p) \in {"posted", "pending"}
  BY DEF EntryStatusOf
<1>5. entries'[t] = NewEntries(p)
  BY DEF PostTransaction, WriteTransaction, LedgerInv, TypeOK
<1>6. Effect(entries', t, a)
        = (IF p.credit = a /\ EntryStatusOf(p) = "posted" THEN p.received ELSE 0)
          - (IF p.debit = a THEN p.paid ELSE 0)
  BY <1>3, <1>4, <1>5 DEF Effect, Counted, NewEntries, Sides
<1>7. EntryStatusOf(p) = "posted" <=> p.status = "posted"
  BY DEF EntryStatusOf
<1>8. Available(a) \in Int
  BY AvailableType DEF LedgerInv
<1>9. QED
  BY <1>1, <1>2, <1>3, <1>6, <1>7, <1>8

\* A posting that passed the check under the lock overdraws no account.
LEMMA PostKeepsNoOverdraft ==
  ASSUME LedgerInv, TypeOK', NEW t \in Txns, NEW k \in Keys, NEW p \in Postings,
         PostTransaction(t, k, p)
  PROVE  NoOverdraft'
<1> SUFFICES ASSUME NEW a \in Accounts
             PROVE  Available(a)' >= 0
  BY DEF NoOverdraft
<1>1. Available(p.debit) >= p.paid
  BY DEF PostTransaction, WriteTransaction, MayDebit
<1>2. Available(a) >= 0
  BY DEF LedgerInv, NoOverdraft
<1>3. QED
  BY <1>1, <1>2, PostEffect

\* Posting or releasing what was pending never lowers an available balance:
\* the debit was already counted, and the credit can only add.
LEMMA FlipRaisesAvailable ==
  ASSUME TypeOK, TypeOK', NEW t \in Txns, NEW to \in {"posted", "released"},
         entries' = Flip(t, to), NEW a \in Accounts
  PROVE  /\ Available(a)' \in Int
         /\ Available(a)' >= Available(a)
<1>1. Available(a)' = Available(a) - Effect(entries, t, a) + Effect(entries', t, a)
  BY AvailableUpdate DEF Flip, TypeOK
<1> DEFINE d == entries[t]["debit"]
           c == entries[t]["credit"]
<1>2. entries'[t]["debit"] = Flipped(d, to) /\ entries'[t]["credit"] = Flipped(c, to)
  BY DEF Flip, TypeOK, Sides
<1>3. d.amount \in Nat /\ c.amount \in Nat
  BY EntryAmount DEF Sides
<1>4. /\ Effect(entries, t, a) \in Int
      /\ Effect(entries', t, a) \in Int
      /\ Effect(entries', t, a) >= Effect(entries, t, a)
  <2>1. /\ Counted(c, a, "posted") \in Nat
        /\ Counted(Flipped(c, to), a, "posted") \in Nat
        /\ Counted(Flipped(c, to), a, "posted") >= Counted(c, a, "posted")
    BY <1>3 DEF Counted, Flipped
  <2>2. /\ Counted(d, a, "posted") \in Nat
        /\ Counted(d, a, "pending") \in Nat
        /\ Counted(Flipped(d, to), a, "posted") \in Nat
        /\ Counted(Flipped(d, to), a, "pending") = 0
        /\ Counted(Flipped(d, to), a, "posted")
             <= Counted(d, a, "posted") + Counted(d, a, "pending")
    BY <1>3 DEF Counted, Flipped
  <2> HIDE DEF d, c
  <2>3. /\ Effect(entries, t, a) = Counted(c, a, "posted") - Counted(d, a, "posted")
                                                           - Counted(d, a, "pending")
        /\ Effect(entries', t, a) = Counted(Flipped(c, to), a, "posted")
               - Counted(Flipped(d, to), a, "posted") - Counted(Flipped(d, to), a, "pending")
    BY <1>2 DEF Effect, d, c
  <2>4. QED
    BY <2>1, <2>2, <2>3
<1>5. Available(a) \in Int
  BY AvailableType
<1>6. QED
  BY <1>1, <1>4, <1>5

-----------------------------------------------------------------------------
(* The inductive invariant                                                 *)

\* A step that leaves the entries alone leaves the balances alone.
LEMMA SameEntries ==
  ASSUME UNCHANGED entries, NEW a \in Accounts
  PROVE  /\ Available(a)' = Available(a)
         /\ LedgerBalance(a)' = LedgerBalance(a)
  BY DEF Available, LedgerBalance, SumOf, Column

\* Posting or releasing the pending entries of a transaction: pairs stay
\* pairs, and the books balance because the trigger looked at the result.
LEMMA FlipRows ==
  ASSUME LedgerInv, NEW t \in Txns, NEW to \in {"posted", "released"},
         entries' = Flip(t, to)
  PROVE  /\ entries'[t]["debit"] = Flipped(entries[t]["debit"], to)
         /\ entries'[t]["credit"] = Flipped(entries[t]["credit"], to)
         /\ \A u \in Txns : u # t => entries'[u] = entries[u]
  BY DEF Flip, LedgerInv, TypeOK, Sides

\* A step that rewrites only transaction t, into a balanced pair whose status
\* fits the status of t, keeps the row invariants.
LEMMA RowStep ==
  ASSUME LedgerInv, NEW t \in Txns,
         \A u \in Txns : u # t => /\ entries'[u] = entries[u]
                                  /\ txnStatus'[u] = txnStatus[u],
         entries'[t]["debit"].status = entries'[t]["credit"].status,
         txnStatus'[t] = "none" <=> entries'[t]["debit"].status = "none",
         txnStatus'[t] = "pending" => entries'[t]["debit"].status = "pending",
         txnStatus'[t] = "posted" => entries'[t]["debit"].status = "posted",
         txnStatus'[t] = "pending_review" => entries'[t]["debit"].status # "released",
         PostedOn(entries', t, "debit") = PostedOn(entries', t, "credit")
  PROVE  EntriesPaired' /\ StatusMatchesEntries' /\ BooksBalance'
<1>1. EntriesPaired'
  BY DEF LedgerInv, EntriesPaired
<1>2. StatusMatchesEntries'
  BY DEF LedgerInv, StatusMatchesEntries, Sides
<1>3. BooksBalance'
  BY DEF LedgerInv, BooksBalance, PostedOn
<1>4. QED
  BY <1>1, <1>2, <1>3

\* postTransaction keeps the inductive invariant.
LEMMA PostStep ==
  ASSUME LedgerInv, TypeOK', NEW t \in Txns, NEW k \in Keys, NEW p \in Postings,
         PostTransaction(t, k, p)
  PROVE  LedgerInv'
<1>1. entries'[t] = NewEntries(p) /\ txnStatus'[t] = p.status
  BY DEF PostTransaction, WriteTransaction, LedgerInv, TypeOK
<1>2. \A u \in Txns : u # t => entries'[u] = entries[u] /\ txnStatus'[u] = txnStatus[u]
  BY DEF PostTransaction, WriteTransaction, LedgerInv, TypeOK
<1>3. /\ entries'[t]["debit"].status = EntryStatusOf(p)
      /\ entries'[t]["credit"].status = EntryStatusOf(p)
      /\ entries'[t]["debit"].amount = p.paid
      /\ entries'[t]["credit"].amount = p.received
  BY <1>1 DEF NewEntries, Sides
<1>4. PostedOn(entries', t, "debit") = PostedOn(entries', t, "credit")
  BY <1>3 DEF PostTransaction, WriteTransaction, WellFormed, PostedOn
<1>5. p.status \in {"posted", "pending", "pending_review"}
  BY DEF Postings
<1>6. EntriesPaired' /\ StatusMatchesEntries' /\ BooksBalance'
  BY <1>1, <1>2, <1>3, <1>4, <1>5, RowStep DEF EntryStatusOf
<1>7. QED
  BY <1>6, PostKeepsNoOverdraft DEF LedgerInv

\* So do release and settlement, which post what was pending: what they find
\* under the statuses they accept was never given back.
LEMMA PostPendingStep ==
  ASSUME LedgerInv, TypeOK', NEW t \in Txns, NEW st \in {"posted", "settled"},
         Exists(t), st = "posted" => txnStatus[t] \in {"pending_review", "pending"},
         PostPending(t, st)
  PROVE  LedgerInv'
<1>1. entries' = Flip(t, "posted") /\ txnStatus' = [txnStatus EXCEPT ![t] = st]
  BY DEF PostPending
<1>2. /\ entries'[t]["debit"] = Flipped(entries[t]["debit"], "posted")
      /\ entries'[t]["credit"] = Flipped(entries[t]["credit"], "posted")
      /\ \A u \in Txns : u # t => entries'[u] = entries[u]
  BY <1>1, FlipRows
<1>3. txnStatus'[t] = st /\ \A u \in Txns : u # t => txnStatus'[u] = txnStatus[u]
  BY <1>1 DEF LedgerInv, TypeOK
<1>4. /\ entries[t]["debit"].status = entries[t]["credit"].status
      /\ entries[t]["debit"].status # "none"
  BY DEF LedgerInv, EntriesPaired, Exists
<1>5. st = "posted" => entries[t]["debit"].status \in {"pending", "posted"}
  <2>1. entries[t]["debit"].status \in EntryStatus \cup {"none"}
    BY DEF LedgerInv, TypeOK, Entry, Sides
  <2>2. txnStatus[t] = "pending_review" => entries[t]["debit"].status # "released"
    BY DEF LedgerInv, StatusMatchesEntries, Sides
  <2>3. txnStatus[t] = "pending" => entries[t]["debit"].status = "pending"
    BY DEF LedgerInv, StatusMatchesEntries, Sides
  <2>4. QED
    BY <2>1, <2>2, <2>3, <1>4 DEF EntryStatus
<1>6. PostedOn(entries', t, "debit") = PostedOn(entries', t, "credit")
  <2>1. CASE entries'[t] = entries[t]
    BY <2>1 DEF LedgerInv, BooksBalance, PostedOn
  <2>2. CASE entries'[t] # entries[t]
    BY <1>1, <2>2 DEF PostPending, DoubleEntryCheck
  <2>3. QED
    BY <2>1, <2>2
<1>7. EntriesPaired' /\ StatusMatchesEntries' /\ BooksBalance'
  BY <1>2, <1>3, <1>4, <1>5, <1>6, RowStep DEF Flipped
<1>8. NoOverdraft'
  <2>1. ASSUME NEW a \in Accounts PROVE Available(a)' >= 0
    <3>1. Available(a)' \in Int /\ Available(a)' >= Available(a)
      BY <1>1, FlipRaisesAvailable DEF LedgerInv
    <3>2. Available(a) \in Int /\ Available(a) >= 0
      BY AvailableType DEF LedgerInv, NoOverdraft
    <3>3. QED
      BY <3>1, <3>2
  <2>2. QED
    BY <2>1 DEF NoOverdraft
<1>9. QED
  BY <1>7, <1>8 DEF LedgerInv

\* So does the cancellation of a hold.
LEMMA CancelStep ==
  ASSUME LedgerInv, TypeOK', NEW t \in Txns, CancelHold(t)
  PROVE  LedgerInv'
<1>1. entries' = Flip(t, "released") /\ txnStatus' = [txnStatus EXCEPT ![t] = "cancelled"]
  BY DEF CancelHold
<1>2. /\ entries'[t]["debit"] = Flipped(entries[t]["debit"], "released")
      /\ entries'[t]["credit"] = Flipped(entries[t]["credit"], "released")
      /\ \A u \in Txns : u # t => entries'[u] = entries[u]
  BY <1>1, FlipRows
<1>3. txnStatus'[t] = "cancelled" /\ \A u \in Txns : u # t => txnStatus'[u] = txnStatus[u]
  BY <1>1 DEF LedgerInv, TypeOK
<1>4. /\ entries[t]["debit"].status = entries[t]["credit"].status
      /\ entries[t]["debit"].status # "none"
  BY DEF LedgerInv, EntriesPaired, CancelHold, Exists
<1>5. PostedOn(entries', t, "debit") = PostedOn(entries', t, "credit")
  <2>1. PostedOn(entries, t, "debit") = PostedOn(entries, t, "credit")
    BY DEF LedgerInv, BooksBalance
  <2>2. QED
    BY <1>2, <1>4, <2>1 DEF PostedOn, Flipped
<1>6. EntriesPaired' /\ StatusMatchesEntries' /\ BooksBalance'
  BY <1>2, <1>3, <1>4, <1>5, RowStep DEF Flipped
<1>7. NoOverdraft'
  <2>1. ASSUME NEW a \in Accounts PROVE Available(a)' >= 0
    <3>1. Available(a)' \in Int /\ Available(a)' >= Available(a)
      BY <1>1, FlipRaisesAvailable DEF LedgerInv
    <3>2. Available(a) \in Int /\ Available(a) >= 0
      BY AvailableType DEF LedgerInv, NoOverdraft
    <3>3. QED
      BY <3>1, <3>2
  <2>2. QED
    BY <2>1 DEF NoOverdraft
<1>8. QED
  BY <1>6, <1>7 DEF LedgerInv

\* Steps that touch only the status of a transaction, or an account.
LEMMA StatusStep ==
  ASSUME LedgerInv, TypeOK', UNCHANGED entries,
         \/ \E t \in Txns : MarkReversed(t) \/ FlagTransaction(t)
         \/ UNCHANGED txnStatus
  PROVE  LedgerInv'
<1>1. NoOverdraft'
  BY SameEntries DEF LedgerInv, NoOverdraft
<1>2. BooksBalance'
  BY DEF LedgerInv, BooksBalance, PostedOn
<1>3. EntriesPaired' /\ StatusMatchesEntries'
  <2>1. CASE UNCHANGED txnStatus
    BY <2>1 DEF LedgerInv, EntriesPaired, StatusMatchesEntries
  <2>2. ASSUME NEW t \in Txns, MarkReversed(t)
        PROVE  EntriesPaired' /\ StatusMatchesEntries'
    BY <2>2 DEF LedgerInv, EntriesPaired, StatusMatchesEntries, MarkReversed, TypeOK
  <2>3. ASSUME NEW t \in Txns, FlagTransaction(t)
        PROVE  EntriesPaired' /\ StatusMatchesEntries'
    BY <2>3 DEF LedgerInv, EntriesPaired, StatusMatchesEntries, FlagTransaction, TypeOK
  <2>4. QED
    BY <2>1, <2>2, <2>3
<1>4. QED
  BY <1>1, <1>2, <1>3 DEF LedgerInv

\* Every committed database transaction keeps the inductive invariant.
LEMMA InvStep == LedgerInv /\ [Next]_vars => LedgerInv'
<1> SUFFICES ASSUME LedgerInv, [Next]_vars PROVE LedgerInv'
  OBVIOUS
<1>1. TypeOK'
  BY TypeStep DEF LedgerInv
<1>2. ASSUME NEW t \in Txns, NEW k \in Keys, NEW p \in Postings,
             PostTransaction(t, k, p)
      PROVE  LedgerInv'
  BY <1>1, <1>2, PostStep
<1>3. ASSUME NEW t \in Txns, ReleaseTransaction(t)
      PROVE  LedgerInv'
  BY <1>1, <1>3, PostPendingStep DEF ReleaseTransaction, Exists
<1>4. ASSUME NEW t \in Txns, SettleTransaction(t)
      PROVE  LedgerInv'
  BY <1>1, <1>4, PostPendingStep DEF SettleTransaction
<1>5. ASSUME NEW t \in Txns, CancelHold(t)
      PROVE  LedgerInv'
  BY <1>1, <1>5, CancelStep
<1>6. ASSUME NEW t \in Txns, MarkReversed(t) \/ FlagTransaction(t)
      PROVE  LedgerInv'
  BY <1>1, <1>6, StatusStep DEF MarkReversed, FlagTransaction
<1>7. ASSUME NEW as \in SUBSET Accounts, FreezeAccounts(as) \/ UnfreezeAccounts(as)
      PROVE  LedgerInv'
  BY <1>1, <1>7, StatusStep DEF FreezeAccounts, UnfreezeAccounts, SetAccountStatus
<1>8. CASE UNCHANGED vars
  BY <1>1, <1>8, StatusStep DEF vars
<1>9. QED
  BY <1>2, <1>3, <1>4, <1>5, <1>6, <1>7, <1>8 DEF Next

\* In the empty ledger every account has its opening balance.
LEMMA OpeningBalance ==
  ASSUME Init, NEW a \in Accounts
  PROVE  /\ Opening[a] \in Nat
         /\ LedgerBalance(a) = Opening[a]
         /\ Available(a) = Opening[a]
<1>1. \A t \in Txns, side \in Sides : entries[t][side] = NoEntry
  BY DEF Init
<1>2. ASSUME NEW side \in Sides, NEW st \in EntryStatus
      PROVE  SumOf(a, side, st) = 0
  <2>1. Column(a, side, st) = [t \in Txns |-> 0]
    BY <1>1 DEF Column, Counted, NoEntry
  <2>2. QED
    BY <2>1, LedgerAssumption DEF SumOf
<1>3. /\ SumOf(a, "credit", "posted") = 0
      /\ SumOf(a, "debit", "posted") = 0
      /\ SumOf(a, "debit", "pending") = 0
  BY <1>2 DEF Sides, EntryStatus
<1>4. Opening[a] \in Nat
  BY LedgerAssumption
<1>5. QED
  BY <1>3, <1>4 DEF Available, LedgerBalance

\* The empty ledger satisfies the inductive invariant.
LEMMA InvInit == Init => LedgerInv
<1> SUFFICES ASSUME Init PROVE LedgerInv
  OBVIOUS
<1>1. TypeOK
  BY DEF Init, TypeOK, AccountStatus, Entry, NoEntry
<1>2. \A t \in Txns, side \in Sides : entries[t][side] = NoEntry
  BY DEF Init
<1>3. EntriesPaired /\ StatusMatchesEntries /\ BooksBalance
  BY <1>2 DEF Init, NoEntry, EntriesPaired, StatusMatchesEntries, BooksBalance, PostedOn, Sides
<1>4. NoOverdraft
  <2>1. ASSUME NEW a \in Accounts PROVE Available(a) >= 0
    <3>1. Opening[a] \in Nat /\ Available(a) = Opening[a]
      BY OpeningBalance
    <3>2. QED
      BY <3>1
  <2>2. QED
    BY <2>1 DEF NoOverdraft
<1>5. QED
  BY <1>1, <1>3, <1>4 DEF LedgerInv

\* The inductive invariant holds throughout.
THEOREM LedgerInvariant == Spec => []LedgerInv
  BY InvInit, InvStep, PTL DEF Spec

\* No account is ever overdrawn, holds included.
THEOREM NeverOverdrawn == Spec => []NoOverdraft
<1>1. LedgerInv => NoOverdraft
  BY DEF LedgerInv
<1>2. QED
  BY <1>1, LedgerInvariant, PTL

\* Every transaction's posted entries balance.
THEOREM AlwaysBalanced == Spec => []BooksBalance
<1>1. LedgerInv => BooksBalance
  BY DEF LedgerInv
<1>2. QED
  BY <1>1, LedgerInvariant, PTL

\* A transaction's status agrees with the status of its entries.
THEOREM StatusTruthful == Spec => []StatusMatchesEntries
<1>1. LedgerInv => StatusMatchesEntries
  BY DEF LedgerInv
<1>2. QED
  BY <1>1, LedgerInvariant, PTL

-----------------------------------------------------------------------------
(* What a step may never do                                                *)

\* The step property behind EntriesFinal, for one entry.
EntryFinal(t, side) ==
  LET old == entries[t][side]
      new == entries'[t][side]
  IN old.status # "none" =>
       /\ new.account = old.account
       /\ new.amount = old.amount
       /\ new.status # old.status =>
            /\ old.status = "pending"
            /\ new.status \in {"posted", "released"}

\* UPDATE ... WHERE status = 'pending' moves an entry forward or leaves it.
LEMMA FlipFinal ==
  ASSUME TypeOK, NEW t \in Txns, NEW to \in {"posted", "released"},
         entries' = Flip(t, to), NEW u \in Txns, NEW side \in Sides
  PROVE  EntryFinal(u, side)
<1>1. CASE u = t
  <2>1. entries'[u][side] = Flipped(entries[u][side], to)
    BY <1>1 DEF TypeOK, Flip
  <2>2. QED
    BY <2>1 DEF EntryFinal, Flipped
<1>2. CASE u # t
  <2>1. entries'[u] = entries[u]
    BY <1>2 DEF TypeOK, Flip
  <2>2. QED
    BY <2>1 DEF EntryFinal
<1>3. QED
  BY <1>1, <1>2

\* Every step leaves every written entry final.
LEMMA FinalStep ==
  ASSUME LedgerInv, [Next]_vars, NEW u \in Txns, NEW side \in Sides
  PROVE  EntryFinal(u, side)
<1>1. ASSUME NEW t \in Txns, NEW k \in Keys, NEW p \in Postings,
             PostTransaction(t, k, p)
      PROVE  EntryFinal(u, side)
  <2>1. CASE u = t
    <3>1. entries[u][side].status = "none"
      BY <1>1, <2>1 DEF LedgerInv, EntriesPaired, PostTransaction, WriteTransaction, Exists, Sides
    <3>2. QED
      BY <3>1 DEF EntryFinal
  <2>2. CASE u # t
    <3>1. entries'[u] = entries[u]
      BY <1>1, <2>2 DEF PostTransaction, WriteTransaction, LedgerInv, TypeOK
    <3>2. QED
      BY <3>1 DEF EntryFinal
  <2>3. QED
    BY <2>1, <2>2
<1>2. ASSUME NEW t \in Txns, ReleaseTransaction(t) \/ SettleTransaction(t)
      PROVE  EntryFinal(u, side)
  <2>1. entries' = Flip(t, "posted")
    BY <1>2 DEF ReleaseTransaction, SettleTransaction, PostPending
  <2>2. QED
    BY <2>1, FlipFinal DEF LedgerInv
<1>3. ASSUME NEW t \in Txns, CancelHold(t)
      PROVE  EntryFinal(u, side)
  <2>1. entries' = Flip(t, "released")
    BY <1>3 DEF CancelHold
  <2>2. QED
    BY <2>1, FlipFinal DEF LedgerInv
<1>4. ASSUME UNCHANGED entries
      PROVE  EntryFinal(u, side)
  BY <1>4 DEF EntryFinal
<1>5. QED
  BY <1>1, <1>2, <1>3, <1>4
     DEF Next, MarkReversed, FlagTransaction, FreezeAccounts, UnfreezeAccounts, SetAccountStatus, vars

\* No step rewrites an entry: its account and amount stay, and its status
\* leaves 'pending' once.
THEOREM EntriesAreFinal == Spec => EntriesFinal
<1>1. LedgerInv /\ [Next]_vars
        => [\A t \in Txns, side \in Sides : EntryFinal(t, side)]_vars
  BY FinalStep
<1>2. QED
  BY <1>1, LedgerInvariant, PTL DEF Spec, EntriesFinal, EntryFinal

\* No step takes available money from an account that is frozen: only
\* postTransaction lowers a balance, and only of an account it saw active.
LEMMA FrozenStep ==
  ASSUME LedgerInv, [Next]_vars, NEW a \in Accounts, accountStatus[a] = "frozen"
  PROVE  Available(a)' >= Available(a)
<1>1. TypeOK /\ TypeOK'
  BY TypeStep DEF LedgerInv
<1>2. Available(a) \in Int
  BY <1>1, AvailableType
<1>3. ASSUME NEW t \in Txns, NEW k \in Keys, NEW p \in Postings,
             PostTransaction(t, k, p)
      PROVE  Available(a)' >= Available(a)
  <2>1. p.debit # a
    BY <1>3 DEF PostTransaction, WriteTransaction, MayDebit
  <2>2. QED
    BY <1>1, <1>2, <1>3, <2>1, PostEffect
<1>4. ASSUME NEW t \in Txns, NEW to \in {"posted", "released"}, entries' = Flip(t, to)
      PROVE  Available(a)' >= Available(a)
  BY <1>1, <1>4, FlipRaisesAvailable
<1>5. ASSUME UNCHANGED entries
      PROVE  Available(a)' >= Available(a)
  BY <1>2, <1>5, SameEntries
<1>6. QED
  BY <1>3, <1>4, <1>5
     DEF Next, ReleaseTransaction, SettleTransaction, PostPending, CancelHold,
         MarkReversed, FlagTransaction, FreezeAccounts, UnfreezeAccounts, SetAccountStatus, vars

\* A frozen account loses nothing while it is frozen.
THEOREM FrozenIsKept == Spec => FrozenNotDebited
<1>1. LedgerInv /\ [Next]_vars
        => [\A a \in Accounts :
               accountStatus[a] = "frozen" => Available(a)' >= Available(a)]_vars
  BY FrozenStep
<1>2. QED
  BY <1>1, LedgerInvariant, PTL DEF Spec, FrozenNotDebited

-----------------------------------------------------------------------------
(* Facts for the modules that use the ledger                               *)

\* The idempotency key of a transaction came with the transaction.
KeysReal == \A t \in Txns : idempotencyKey[t] # NoKey => Exists(t)

\* A transaction that exists goes on existing, and so does its key.
LEMMA ExistsKept ==
  ASSUME LedgerInv, [Next]_vars
  PROVE  /\ \A t \in Txns : Exists(t) => Exists(t)'
         /\ KeysReal => KeysReal'
<1>1. ASSUME NEW t \in Txns, NEW k \in Keys, NEW p \in Postings,
             PostTransaction(t, k, p)
      PROVE  /\ \A u \in Txns : Exists(u) => Exists(u)'
             /\ KeysReal => KeysReal'
  <2>1. p.status # "none"
    BY DEF Postings
  <2>2. QED
    BY <1>1, <2>1 DEF PostTransaction, WriteTransaction, Exists, KeysReal, LedgerInv, TypeOK
<1>2. ASSUME NEW t \in Txns, NEW st \in TxnStatus,
             txnStatus' = [txnStatus EXCEPT ![t] = st], UNCHANGED idempotencyKey
      PROVE  /\ \A u \in Txns : Exists(u) => Exists(u)'
             /\ KeysReal => KeysReal'
  BY <1>2 DEF Exists, KeysReal, LedgerInv, TypeOK, TxnStatus
<1>3. ASSUME UNCHANGED <<txnStatus, idempotencyKey>>
      PROVE  /\ \A u \in Txns : Exists(u) => Exists(u)'
             /\ KeysReal => KeysReal'
  BY <1>3 DEF Exists, KeysReal
<1>4. QED
  BY <1>1, <1>2, <1>3
     DEF Next, ReleaseTransaction, SettleTransaction, PostPending, CancelHold,
         MarkReversed, FlagTransaction, FreezeAccounts, UnfreezeAccounts, SetAccountStatus, TxnStatus, vars

\* An entry that is not pending never becomes pending.
LEMMA NeverPendingAgain ==
  ASSUME LedgerInv, [Next]_vars, NEW t \in Txns, Exists(t), NEW side \in Sides,
         entries[t][side].status # "pending"
  PROVE  entries'[t][side].status # "pending"
<1>1. entries[t][side].status # "none"
  BY DEF LedgerInv, EntriesPaired, Exists, Sides
<1>2. EntryFinal(t, side)
  BY FinalStep
<1>3. QED
  BY <1>1, <1>2 DEF EntryFinal
=============================================================================
