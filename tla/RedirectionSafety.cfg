SPECIFICATION Spec
CONSTANTS
  Devices = {d1}
  Pids = {c1, c2}
  Pdos = {p1, p2, p3, p4}
  Redirs = {r1, r2}
  NoPdo = NoPdo
  NoRedir = NoRedir
  NoPid = NoPid
  NoDevice = NoDevice
  MaxRetries = 1
  Hubs = {}
  MayHide = {d1}
  Unpluggable = {d1}
  KeepsPower = {d1}
  Faults <- AllFaults
SYMMETRY Symmetry
INVARIANTS
  TypeOK
  NoNullRedirector
  RefCountsExact
  NoLostDetachment
PROPERTIES
  OwnershipSpec
