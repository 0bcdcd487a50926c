SPECIFICATION Spec
CONSTANTS
  Request = {r1, r2}
  AuthId = {a1, a2}
  Email = {e1, e2}
  MaxSessions = 1
  Nil = Nil
  Gone = Gone
  Asked <- SignCalls
  StatementsFail = TRUE
  CommitsFail = TRUE
  SupabaseFails = TRUE
  Crashes = TRUE
  EmailsChange = TRUE
SYMMETRY Sym
INVARIANTS TypeOK OrphansHaveACause OneRowPerIdentity GivenTokensAreProvisioned
PROPERTIES DeactivationStands TokensGoToTheActive ImplementsDirectory
