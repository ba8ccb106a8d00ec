SPECIFICATION Spec
CONSTANTS
  Controllers = {h1, h2}
  OtherFilters = {f1, f2}
  UsbDk = UsbDk
SYMMETRY Symmetry
INVARIANTS
  TypeOK
  ListedDriverIsInstalled
  ResultIsTrue
  CleanInstallSucceeds
PROPERTY OtherFiltersKept
