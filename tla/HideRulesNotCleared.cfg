SPECIFICATION Spec
CONSTANTS
    Devices = {d1}
    Descriptor <- MCDescriptor
    Rules <- MatchingRules
    MatchAll = "any"
    KeyNames = {"k1"}
    InitialKeys <- NoKeys
    Partial = Partial
    NoKey = NoKey
    Faults = {}
INVARIANTS
    ExtendedRulesEndWithClient
