SPECIFICATION Spec
CONSTANTS
    Slots = {Str0}
    Passwords = {hunter2}
    Orders = {o1}
    MaxAttempts <- MCAttempts
INVARIANT SubmittedMeansAccepted
