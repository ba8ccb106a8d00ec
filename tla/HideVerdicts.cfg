SPECIFICATION HistorySpec
CONSTANTS
    Devices = {d1}
    Descriptor <- MCDescriptor
    Rules <- VerdictRules
    MatchAll = "any"
    KeyNames = {"k1"}
    InitialKeys <- OneKey
    Partial = Partial
    NoKey = NoKey
    Faults = {"memory", "registry"}
INVARIANTS
    TypeOK
    VisitIsForEach
    HiddenForAReason
    HiddenWhenSteady
