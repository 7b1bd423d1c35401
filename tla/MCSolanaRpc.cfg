SPECIFICATION FairSpec
CONSTANTS
    task1 = task1
    task2 = task2
    Nobody = Nobody
    Tasks <- MCTasks
    Plans <- MCPlans
    MaxPieces = 2
    MaxRounds = 3
INVARIANTS
    TypeOK
    NothingHeld
    WholeAnswer
    Unfreed
PROPERTIES
    ClientIsLetGo
CHECK_DEADLOCK FALSE
