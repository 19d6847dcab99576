SPECIFICATION BSpec
CONSTANTS
    o1 = o1
    o2 = o2
    k1 = k1
    locked = locked
    NoSeed = NoSeed
    NoKey = NoKey
    Objects <- MCObjects
    Keys <- MCKeys
    LockedKeys <- MCLockedKeys
    TypedKinds <- MCBip39
    NumWords = 3
    MaxWipes = 0
PROPERTY LeavingEnds
