SPECIFICATION Spec
CONSTANTS
    Imports = {i1}
    Handlers = {h1, h2}
    Publishers = {p1}
    None = None
    MaxRetries = 1
    Cost = 2
    InitialCredits = 5
    MaxFaults = 2
    MaxSwitches = 1
PROPERTIES
    PoisonMovesOn
CHECK_DEADLOCK FALSE
