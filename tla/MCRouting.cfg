SPECIFICATION Spec
CONSTANTS
  Streams = {s1, s2}
  Nodes = {n1, n2, n3}
  PullNodes = {n3}
  MaxAttempts = 2
  MaxUsage = 2
  MaxLines = 2
  PodNodes = {n1, n2, n3}
  NoEndpoint = {n3}
  MaxKinds = 3
  Answers = {a, b}
  MaxParallel = 2
  MaxChanges = 1
  Workers = {w1, w2}
  PullLoop = w1
  MaxMoves = 2
  MaxDown = 1
INVARIANTS
  TypeOK
  StreamsAreHonest
  MergeIsSound
  SensitiveShards
  StragglersBounded
PROPERTIES
  RoutesEnd
  AgentsResume
CHECK_DEADLOCK FALSE
