SPECIFICATION FairSpec
CONSTANTS
    Slots = {Str0}
    Keypairs = {k1, k2, k3}
    Tasks = {t1, t2}
INVARIANTS
    TypeOK
    NeverDroppedInUse
    ConnectedHasCalculator
PROPERTIES
    HandleIsSteady
    UiResponds
