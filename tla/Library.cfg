SPECIFICATION Together
CONSTRAINT Bounds
CONSTANTS
    d1 = d1
    d2 = d2
    profile = profile
    skill = skill
    Devices = {d1, d2}
    Parts = {profile, skill}
    Linkers = {d2}
    Profile = profile
    Logged = {skill}
    Unparsed = {2}
    Symlinks = {}
    Texts = {1, 2}
    Stamp <- MCStamp
    AtFirst <- MCStart
    TooLong = {}
    Choices <- MCChoices
    x = x
    y = y
    z = z
    MaxTyped = 2
    MaxChoices = 1
    MaxStops = 1
INVARIANTS BriefSound ComesBack
PROPERTIES LibraryKept Settles Travels
CHECK_DEADLOCK FALSE
