CONSTANTS
  t1 = t1
  t2 = t2
  Txns = {t1, t2}
  Tended = {t1}
  NoTxn = NoTxn
  Relays = {r1, r2}
  Scorers = {s1}
  MaxReleases = 1
  MaxHeard = 1
  MaxFaults = 1
SPECIFICATION EventSpec
CHECK_DEADLOCK FALSE
INVARIANTS ReviewsAreSound
PROPERTIES EveryPostingIsScored
