SPECIFICATION Spec
CONSTANTS
    c1 = c1
    c2 = c2
    x = x
    y = y
    z = z
    Episodes = {x, y, z}
    Accounts = {ada, bo}
    Nobody = nobody
    Calls = {c1, c2}
    Outlines <- SomeOutlines
    Orders <- SomeOrders
    MaxStarts = 2
    MaxCalls = 2
    MaxTurns = 2
    MaxSteps = 5
SYMMETRY Symmetry
INVARIANTS StaysDisconnected Numbering
CHECK_DEADLOCK FALSE
