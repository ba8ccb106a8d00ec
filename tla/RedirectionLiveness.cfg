SPECIFICATION FairSpec
CONSTANTS
  Devices = {d1}
  Pids = {c1}
  Pdos = {p1, p2, p3}
  Redirs = {r1, r2}
  NoPdo = NoPdo
  NoRedir = NoRedir
  NoPid = NoPid
  NoDevice = NoDevice
  MaxRetries = 1
  Hubs = {}
  MayHide = {}
  Unpluggable = {d1}
  KeepsPower = {d1}
  Faults <- LivenessFaults
INVARIANTS
  GivenBack
PROPERTIES
  AddRedirectReturns
  CloseReturns
  ReturnedUnlessHindered
