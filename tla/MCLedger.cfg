CONSTANTS
  alice = alice
  clearing = clearing
  t1 = t1
  t2 = t2
  Accounts = {alice, clearing}
  Txns = {t1, t2}
  Keys = {k1, k2}
  NoKey = NoKey
  NoAccount = NoAccount
  Amounts = {0, 1, 2}
  Opening <- MCOpening
  Total <- MCTotal
SYMMETRY Symmetry
SPECIFICATION Spec
INVARIANTS TypeOK NoOverdraft BooksBalance StatusMatchesEntries
PROPERTIES EntriesFinal FrozenNotDebited ImplementsBook
