SPECIFICATION FairSpec
CONSTANTS
  Threads = {t1, t2}
  NoConnection = NoConnection
  Nobody = Nobody
  MaxConnections = 3
  MaxRestarts = 1
  d1 = d1
  d2 = d2
  Drivers = {d1, d2}
  Cars <- TwoAndOne
  SinLimit = 1
  PerLimit = 2
  TotLimit = 2
  AtFirst <- OneEach
INVARIANTS NothingLeaks
PROPERTIES   Recovers
