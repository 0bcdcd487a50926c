SPECIFICATION Spec
CONSTANTS
  Request = {r1, r2}
  AuthId = {a1}
  Email = {e1}
  MaxSessions = 3
  Nil = Nil
  Gone = Gone
  Asked <- SessionCalls
  StatementsFail = TRUE
  CommitsFail = TRUE
  SupabaseFails = TRUE
  Crashes = TRUE
  EmailsChange = FALSE
SYMMETRY Sym
INVARIANT DevicesGoOutTogether
