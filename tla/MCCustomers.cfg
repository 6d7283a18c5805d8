CONSTANTS
  d1 = d1
  d2 = d2
  a1 = a1
  a2 = a2
  Devices = {d1, d2}
  Calls = {a1, a2}
  Owner <- MCOwner
  Tokens = {t1, t2, t3}
  NoToken = NoToken
  Requests = {a1, a2}
  Payees = {y1}
  NoPayee = NoPayee
  MaxPins = 2
  x1 = x1
  Submissions = {a1, a2}
  Gets = {a1, a2}
  Accounts = {x1, x2}
  First = x1
  NoAccount = NoAccount
SYMMETRY Symmetry
CONSTRAINT Bounds
SPECIFICATION MCSpec
INVARIANTS CustomersTypeOK
INVARIANTS OneLivePerFamily LoggedOutFamilyIsDead 
INVARIANTS OneTransferPerPin  PendingIsQueued
INVARIANTS HeldAgainOnlyAfterError PanelsAreCurrent
 
