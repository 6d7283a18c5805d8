CONSTANTS
  a1 = a1
  a2 = a2
  b1 = b1
  b2 = b2
  e1 = e1
  e2 = e2
  n1 = n1
  n2 = n2
  Replicas = {a1, a2}
  Signups = {b1, b2}
  Emails = {e1, e2}
  Names = {n1, n2}
  NoName = NoName
  Admins <- MCAdmins
  Files = 2
  MaxStops = 1
  Pages = {a1, a2}
  Verifiers = {b1, b2}
  LockThreshold = 2
  MaxBad = 4
  MaxSecrets = 3
  Types = {x, y}
  Every = Every
  Filters = {Every, x}
  MaxRows = 3
  Instant <- MCInstant
  PageSize = 1
  Loads = {a1, a2}
SYMMETRY Symmetry
CONSTRAINT Bounds
SPECIFICATION MCSpec
INVARIANTS SignupsAreWhole StartsOnReadySchema BootstrapsOneAdmin LockNeedsFailures EnabledFactorIsProven
INVARIANTS ListInOrder BadgeCountsNews
