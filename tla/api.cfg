SPECIFICATION Spec
CONSTANTS
  Request = {r1, r2, r3}
  Kid = {k1}
  Key = {"logout"}
  LimitOf <- LogoutLimit
  PeriodOf <- LogoutPeriod
  Connections = 1
  Workers = 2
SYMMETRY Sym
INVARIANTS TypeOK BurstCap SomeoneGoesOn ClientsAreFew WarmKeysNeedNoNetwork BarredStayOut
PROPERTY PoolIsSemaphore
