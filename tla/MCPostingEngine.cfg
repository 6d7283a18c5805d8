CONSTANTS
  checking = checking
  savings = savings
  Accounts = {checking, savings}
  Owned = {checking, savings}
  Txns = {t1, t2}
  Keys = {k1, k2}
  NoKey = NoKey
  NoAccount = NoAccount
  NoTxn = NoTxn
  Nobody = Nobody
  Amounts = {1}
  Connections = {c1, c2, c3}
  MaxRetries = 1
  Opening <- MCOpening
  Total <- MCTotal
  Inputs <- MCInputs
  IdOrder <- MCIdOrder
  HeapOrder <- MCHeapOrder
SYMMETRY Symmetry
SPECIFICATION EngineSpec
CHECK_DEADLOCK FALSE
INVARIANTS SameKeySameTransaction ReplayIsAnswered PostingsNeverDeadlock
PROPERTIES ImplementsLedger
