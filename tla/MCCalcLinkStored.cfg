SPECIFICATION Spec
CONSTANTS
    Slots = {Str0}
    short = short
    long = long
    Contents = {short, long}
    Absent = Absent
    Found <- MCFound
    MaxOps = 1
    MaxFaults = 0
    Refusals = {"skip", "memory"}
    Grants = {10}
    CommandSize = 2
    Length <- MCLength
PROPERTIES
    StoredMeansHeld
CHECK_DEADLOCK FALSE
