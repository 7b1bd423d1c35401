SPECIFICATION FairSpec
CONSTANTS
    Slots = {Str0, Str1}
    short = short
    long = long
    Contents = {short, long}
    Absent = Absent
    Found <- MCFound
    MaxOps = 3
    MaxFaults = 1
    Refusals = {"skip", "memory"}
    Grants = {8, 10}
    CommandSize = 2
    Length <- MCLength
INVARIANTS
    TypeOK
    FragmentsAddUp
PROPERTIES
    KeepsVariables
    OperationEnds
CHECK_DEADLOCK FALSE
