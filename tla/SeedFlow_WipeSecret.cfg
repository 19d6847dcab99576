SPECIFICATION Spec
CONSTANTS
    o1 = o1
    o2 = o2
    o3 = o3
    k1 = k1
    k2 = k2
    locked = locked
    NoSeed = NoSeed
    NoKey = NoKey
    Objects <- MCObjects
    Keys <- MCKeys
    LockedKeys <- MCLockedKeys
    TypedKinds <- MCBip39
    NumWords = 2
    MaxWipes = 1
PROPERTY WipeLeavesNoSecret
