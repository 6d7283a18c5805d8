CONSTANTS
  alice = alice
  clearing = clearing
  t1 = t1
  t2 = t2
  t3 = t3
  t4 = t4
  Accounts = {alice, clearing}
  Txns = {t1, t2, t3, t4}
  Calls = {c1, c2}
  AdminCalls = {d1, d2, d3}
  SendsKey = {d1}
  ClientKeys = {k1, k2}
  Keys <- MCKeys
  Clearing = clearing
  NoKey = NoKey
  NoAccount = NoAccount
  NoTxn = NoTxn
  NoCall = NoCall
  Amounts = {1, 2}
  Opening <- MCOpening
  Total <- MCTotal
SYMMETRY Symmetry
SPECIFICATION WithdrawalSpec
INVARIANTS ReplayPaysOnce
