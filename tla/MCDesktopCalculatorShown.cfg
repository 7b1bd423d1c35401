SPECIFICATION Spec
CONSTANTS
    Slots = {Str0}
    Keypairs = {k1, k2}
    Tasks = {t1, t2}
INVARIANT KeypairShownIsOnCalculator
