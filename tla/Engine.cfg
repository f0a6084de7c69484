SPECIFICATION Spec
CONSTANTS
    x = x
    y = y
    a = a
    b = b
    s1 = s1
    Callers = {x, y}
    Windows = {"w"}
    Agents = {x, y}
    Scenes = {1, 2}
    MaxCalls = 2
    MaxEdits = 1
    MaxFaults = 1
    KeyNames = {x, y, "web"}
    WebKey = "web"
    NewKeys = {"new"}
    OldKeys = {"old"}
    MaxPatches = 2
    MaxKeyFaults = 2
    Engines = {a, b}
    Ports = {"a", "b"}
    FactTexts = {"x"}
    MaxRows = 3
    MaxLedgerCalls = 4
    MaxDeletions = 1
    Sentences = {a, b}
    MaxChecks = 2
    MaxFound = 1
    SampledScenes = {1, 2, 3, 4}
    Opens <- MCOpens
    RecentPairs = 1
    Works = {x, y}
    CanonRows = {1, 2}
    Values = {1, 2}
    First = 1
    MaxForecasts = 2
    MaxCanonEdits = 2
    SkillNames = {x, y}
    SkillTexts = {a, b}
    Absent = Absent
    Bare = Bare
    Broken = Broken
    Unreadable = Unreadable
    MaxSkills = 1
    MaxByHand = 1
    SettledScenes = {s1}
    Passes = {x, y}
    CatchUpScenes = 1
    MaxWrites = 3
    MaxPasses = 2
SYMMETRY Symmetry
CONSTRAINT Bounds
INVARIANTS Advertised ForecastsTold
PROPERTIES SettingsAccounted FactsHold ChecksHold SkillsKept SettledWasRead
CHECK_DEADLOCK FALSE
