SPECIFICATION Spec
CONSTANTS
    Keys = {k1}
    Edits = {e1}
    Handlers = {p1}
    Horizon = 2
    Credits = 2
    None = None
    MaxSwitches = 0
    MaxFaults = 0
PROPERTY
    EditsAreKept
CHECK_DEADLOCK FALSE
