CONSTANTS
    t1 = t1
    t2 = t2
    Threads = {t1, t2}
    Spellings = {"UPPER", "lower"}
    Canonical = "UPPER"
    Values = {"text", "object"}
    JsonValues = {"object"}
    Managers = {"vault"}
    Ttls = {0, 1}
    MaxLookup = 1
    MaxTime = 3
    MaxChanges = 1
    MaxCalls = 3
SYMMETRY Symmetry
SPECIFICATION Spec
PROPERTIES
    ValueAge
    RefreshedValueAge
CHECK_DEADLOCK FALSE
