SPECIFICATION ToolsSpec
CONSTANTS
    Devices = {d1}
    Descriptor <- MCDescriptor
    Rules <- ToolRules
    MatchAll = "any"
    KeyNames = {k1, k2, k3}
    InitialKeys <- UpToTwoKeys
    Partial = Partial
    NoKey = NoKey
    Faults = {}
    Tools = {t1, t2}
    Calls <- MCCalls
    Values = 2
INVARIANTS
    RulesStayUntilDeleted
SYMMETRY Interchangeable
CHECK_DEADLOCK FALSE
