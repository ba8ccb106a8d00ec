SPECIFICATION FairSpec
CONSTANTS
  Clients = {c1, c2}
  NoClient = NoClient
  Hubs = {h1, h2}
  Devices = {d1, d2}
  MaxHandles = 1
  c1 = c1
  c2 = c2
  Calls <- CallsOf
INVARIANTS
  TypeOK
  ListResultIsTrue
  OpenOnlyInCalls
PROPERTY CallsReturn
