SPECIFICATION Spec
CONSTANTS
  Request = {r1, r2}
  u1 = u1
  u2 = u2
  b1 = b1
  b2 = b2
  Book = {b1}
  User = {u1, u2}
  Number = {1, 2}
  Year = {2026}
  MaxPages = 1
  MaxEntriesPerPage = 1
  MaxDocNo = 1
  Nil = Nil
  Asked <- FilingCalls
  KeepsBook = FALSE
  DocumentsKeepBook = TRUE
  DocumentsFeature = TRUE
  Superseding = FALSE
  Faults = FALSE
INVARIANT CloseAnsweredOnce
