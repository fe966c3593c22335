SPECIFICATION FairSpec
CONSTANTS
  Clients = {ann, proxy}
  SharedClients = {proxy}
  Requests = {r1, r2, r3, r4}
  Threads = 1
  QueuePerThread = 2
  PerClient = 2
  MaxDerivations = 2
  NoSlot = noslot
  NoKey = nokey
INVARIANTS
  CountsAreExact
  AdmittedWithinCapacity
  ShedIsNeverOneClient
PROPERTIES
  AdmittedEnds
