SPECIFICATION Spec
CONSTANTS
  Hosts = {h1, h2}
  Calls = {c1, c2}
  Tickets = {t1}
  MaxRedundancy = 1
  MaxEvents = 2
  Users = {u1, u2}
  Requests = {r1, r2}
  Nonces = {n1, n2}
  MaxKeys = 2
  MaxRestarts = 1
  p1 = p1
  k1 = k1
  k2 = k2
  Pods = {p1}
  SigningKeys = {k1, k2}
  Endpoints <- TwoDirectories
  Listed <- AllListed
  MaxReports <- TwoReports
  MaxCrashes = 1
  Operators = {o1, o2}
  MaxImages = 3
  MaxRollbacks = 2
  ScriptTag = "latest"
  MinDoc = 2
  MaxDoc = 6
  Experts = 5
  MaxFleet = 3
  Capacities = {0, 1, 2, 5}
  Accuracies = {50, 82, 100}
  Versions = {0, 1}
  Confidences = {40, 90, 120}
  Members = {m1, m2, m3}
  Points = {1, 2, 3, 4, 5}
  DayLen = 3
  DaySets <- FewDays
INVARIANTS
  TypeOK
  PlacementIsSound
  CredentialsAreSound
  DirectoryIsSound
  VerdictsAreOwn
  PlansAreSound
CHECK_DEADLOCK FALSE
