SPECIFICATION Spec
CONSTANTS
    secret = secret
    other = other
    none = none
    Noise = Noise
    NoEntry = NoEntry
    NoKey = NoKey
    PayloadLen = 157
    Version = 1
    EmptyPassword <- MCEmpty
    Precision = 11
    MinExponent <- MCMinExponent
    MaxExponent = 30
    AmountLimit = 65536
    LamportsPerSol = 100
    SmallAmount = 3
    MaxTypedMemo = 120
    MemoLine = 135
    DefaultMemo <- MCDefaultMemo
    Sign <- MCSign
    KeyLen <- MCKeyLen
    SignatureLen = 8
    AmountBytes = 2
    MaxMemo = 120
    MaxMessage = 512
    MaxTransaction = 1024
    MaxBase64 = 512
    MemoProgram <- MCMemoProgram
    PrivateKeys <- MCPrivateKeys
    PublicOf <- MCPublicOf
    Passwords <- MCPasswords
    Orders <- MCOrders
    Blockhashes <- MCBlockhashes
    MaxWallets = 2
    MaxDamage = 1
INVARIANTS
    TypeOK
    NoWrongKey
    RefusedForAReason
    TakenIsMeant
    TransferGoesThrough
    BothBuildTheSame
    KeyOutlivesOnlyErrors
