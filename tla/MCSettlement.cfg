CONSTANTS
  alice = alice
  clearing = clearing
  Accounts = {alice, clearing}
  Clearing = clearing
  Txns = {t1, t2}
  Keys = {k1, k2}
  NoKey = NoKey
  NoAccount = NoAccount
  NoTxn = NoTxn
  NoCall = NoCall
  Amounts = {1, 2}
  ReviewThreshold = 2
  Calls = {c1, c2}
  Workers = {w1, w2}
  MaxStops = 1
  MaxSwitches = 3
  Opening <- MCOpening
  Total <- MCTotal
SYMMETRY Symmetry
SPECIFICATION SettlementSpec
INVARIANTS SettledRowsMovedMoney 
