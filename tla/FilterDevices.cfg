SPECIFICATION Spec
CONSTANTS
    Filters = {f1, f2, f3}
    Objects = {o1, o2}
    NullPtr = NullPtr
    NoSerial = NoSerial
INVARIANTS
    TypeOK
    CountIsExact
    HoldersAreServed
    NoDanglingFilters
    UniqueInstanceIds
    SerialsAreReused
SYMMETRY Interchangeable
CHECK_DEADLOCK FALSE
