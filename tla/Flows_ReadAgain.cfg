SPECIFICATION FlowsSpec
CONSTANTS
    a1 = a1
    a2 = a2
    a3 = a3
    b1 = b1
    Shares <- MCShares
    Set <- MCSet
    Needed <- MCNeeded
    ShareLengths = {2, 3}
    DefaultLength = 3
    singleSig = singleSig
    multiSig = multiSig
    oddSig = oddSig
    Psbts = {singleSig, multiSig, oddSig}
    Seeds = {s1, s2}
    Wifs = {w1}
    Wallets = {d1}
    CardKey = CardKey
    Reading <- MCReading
    Confirms <- MCConfirms
    MaxOutputs = 2
    MaxWipes = 1
    Ins = {i1, i2}
    Pubs = {p1, p2}
    MaxExtra = 1
    MaxLimit = 3
    OtherKey = OtherKey
    singleAddr = singleAddr
    multiAddr = multiAddr
    longText = longText
    shortText = shortText
    NoData = NoData
    NoAddress = NoAddress
    WorkSeeds <- MCSeeds
    Descriptors = {d1}
    CardSeed = CardKey
    Addresses <- MCAddresses
    Kind <- MCKind
    Owner <- MCOwner
    Texts <- MCTexts
    Pages <- MCPages
    NoSeed = NoSeed
    NoText = NoText
    MaxDepth = 5
    Codes <- MCCodes
    NoCode = NoCode
    Tests <- MCTests
    Inside <- MCInside
    KeyOf <- MCKeyOf
    Pieces = {"k"}
    MaxPieces = 1
    Enabled = {"wif"}
    Scanned <- MCScanned
    Urs = {"ur", "other", "huge"}
    MaxSeqLen = 4
    FragmentCount <- MCFragmentCount
    Preference = "prompt"
    NoType = NoData
    NoUr = NoData
    WipeBound = 1
    NoMessage = NoMessage
    MessageKeys = {g1, g2}
    Protected = {g1}
    Incoming <- MCIncoming
    NoGpgKey = NoGpgKey
    g1 = g1
    g2 = g2
    Primary = mainKey
    NoSlotKey = NoKey
    Subkeys <- MCSubkeys
    Caps <- MCCaps
    sub1 = sub1
    sub2 = sub2
    sub3 = sub3
    Pins = {adminPin}
    MaxTries = 3
    DefaultPin = DefaultPin
    NoPin = NoPin
    FileKeys = {g1, g2}
    Shipped = {g2}
    MaxVersion = 1
    Projects <- MCProjects
    Trusted <- MCTrusted
    Batch = 3
    SkipStep = 2
    MaxSkips = 2
    MaxIndex = 6
    NoIndex = NoIndex
    NoSig = NoSig
    NoProject = NoProject
    GpgSeeds <- MCSeeds
    OtherKeys = {OtherKey}
    Uids = {"u1", "u2"}
    None = NoKey
    KeyIndexes = {0, 1}
    KeyTypes = {"p256", "p384"}
    ListedTypes = {"p256"}
    GpgVersions = {"v3", "v4"}
    ThisVersion = "v4"
    MaxKeys = 1
    MaxSubkeys = 6
    MaxChanges = 2
    NoScript = NoScript
    Transactions <- MCTransactions
    MultisigWallets <- MCMultisigWallets
    NoDescriptor = NoDescriptor
    Account <- MCAccount
    Lookahead = 1
    MaxMoney = 10000
    MaxFeeRate = 15
    Clock = 550000000
    Later = 63072000
    NoShare = NoShare
    NoPsbt = NoPsbt
    NoKey = NoKey
    NoWallet = NoWallet
    NoParser = NoParser
    NoIn = NoIn
    NoPub = NoPub
SYMMETRY Symmetry
CHECK_DEADLOCK FALSE
INVARIANT ReadAgain
