SPECIFICATION ToolsSpec
CONSTANTS
    Devices = {d1}
    Descriptor <- MCDescriptor
    Rules <- ToolRules
    MatchAll = "any"
    KeyNames = {k1, k2}
    InitialKeys <- UpToTwoKeys
    Partial = Partial
    NoKey = NoKey
    Faults = {"early", "memory", "registry"}
    Tools = {t1, t2}
    Calls <- MCCalls
    Values = 2
INVARIANTS
    ToolsTypeOK
    DeletedRulesLeave
    KeptRulesAreLoaded
    NoDuplicates
    AddedRuleIsInForce
    DeletedIsGone
SYMMETRY Interchangeable
CHECK_DEADLOCK FALSE
