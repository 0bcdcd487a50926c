SPECIFICATION Spec
CONSTANTS
  Request = {r1, r2}
  u1 = u1
  u2 = u2
  b1 = b1
  b2 = b2
  Book = {b1}
  User = {u1, u2}
  Number = {1, 2}
  Year = {2026}
  MaxPages = 2
  MaxEntriesPerPage = 2
  MaxDocNo = 4
  Nil = Nil
  Asked <- FilingCalls
  KeepsBook = TRUE
  DocumentsKeepBook = TRUE
  DocumentsFeature = TRUE
  Superseding = FALSE
  Faults = FALSE
PROPERTY AutoNumbersNeedOpenBook
