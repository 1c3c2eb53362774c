SPECIFICATION Spec
CONSTANTS
    Sessions = {s1, s2}
    Files = {"f", "g"}
    UserFile = "u"
    None = "none"
    Lines = {"a", " b"}
    Blank = {" b"}
    Ignored = {}
    Settings <- Started
    OldLines <- Old
    HIST_MAX = 3
    BootsMax = 2
    CyclesMax = 2
    ForeignMax = 1
    BuiltinsMax = 1
CHECK_DEADLOCK FALSE
INVARIANTS EntriesKept
PROPERTIES OwnFileOnly
