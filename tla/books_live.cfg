SPECIFICATION FairSpec
CONSTANTS
  Request = {r1, r2}
  u1 = u1
  u2 = u2
  b1 = b1
  b2 = b2
  Book = {b1, b2}
  User = {u1, u2}
  Number = {1, 2}
  Year = {2026}
  MaxPages = 1
  MaxEntriesPerPage = 2
  MaxDocNo = 3
  Nil = Nil
  Asked <- LiveCalls
  KeepsBook = FALSE
  DocumentsKeepBook = TRUE
  DocumentsFeature = TRUE
  Superseding = FALSE
  Faults = TRUE
INVARIANT HoldersNeverWait
PROPERTY EveryCallAnswered
