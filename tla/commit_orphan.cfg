SPECIFICATION Spec
CONSTANTS
  Request = {r1}
  AuthId = {a1, a2}
  Email = {e1, e2}
  MaxSessions = 1
  Nil = Nil
  Gone = Gone
  Asked <- SignCalls
  StatementsFail = FALSE
  CommitsFail = TRUE
  SupabaseFails = FALSE
  Crashes = FALSE
  EmailsChange = FALSE
SYMMETRY Sym
INVARIANT NoOrphans
