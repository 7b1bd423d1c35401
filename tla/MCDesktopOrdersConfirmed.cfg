SPECIFICATION Spec
CONSTANTS
    Keypairs = {k1}
    Orders = {o1}
    Tasks = {t1}
    MaxPolls <- MCPolls
INVARIANT ConfirmedMeansCarriedOut
