SPECIFICATION Spec
CONSTANTS
  Clients = {web, cli}
  Verifiers = {v1}
  NoChallenge = nochallenge
  Providers = {google}
  Local = local
  Requests = {r1, r2}
  TTL = 1
  MaxItems = 1
  MaxStarts = 3
  MaxWritten = 2
  MaxTime = 2
SYMMETRY Symmetry
INVARIANTS
  MethodIsTheProof
  CodeSpentOnce
  CachesBounded
PROPERTIES
  TokensAreEarned
