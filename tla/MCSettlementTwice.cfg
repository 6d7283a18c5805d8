CONSTANTS
  alice = alice
  clearing = clearing
  Accounts = {alice, clearing}
  Clearing = clearing
  Txns = {t1}
  Keys = {k1}
  NoKey = NoKey
  NoAccount = NoAccount
  NoTxn = NoTxn
  NoCall = NoCall
  Amounts = {1, 2}
  ReviewThreshold = 2
  Calls = {c1}
  Workers = {w1, w2}
  MaxStops = 1
  MaxSwitches = 3
  Opening <- MCOpening
  Total <- MCTotal
SPECIFICATION SettlementSpec
INVARIANTS AnnouncedOnce
