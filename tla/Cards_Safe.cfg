SPECIFICATION CardsSpec
CONSTANTS
    Cards = {c1, c2}
    Dimes = {c1, c2}
    Pins = {p1, p2}
    Specters = {c1, c2}
    SlotDimes = {c1, c2}
    Keepers = {c1, c2}
    Signers = {c1, c2}
    SpecterPins = {p1, p2}
    Seeds = {p1, p2}
    Things = {t1, t2}
    Words = {t1, t2}
    DimeSlots = {t1, t2}
    Paths = {t1, t2}
    Wallets <- TwoWallets
    Texts <- OneText
    MaxTries = 1
    SpecterTries = 1
    ResetRounds = 2
    PinlessViews = {"info", "reset", "unblock"}
    MaxClaims = 2
    Space = 3
    NumSamples = 3
    AttemptsFactor = 2
    MaxFailures = 2
    Tolerated = 1
    BenchSize = 3
    NoCard = NoCard
    NoPin = NoPin
    NoSpecterPin = NoSpecterPin
    NoSeed = NoSeed
    NoKey = NoKey
    NoSigner = NoSigner
    NoDime = NoDime
    NoKeeper = NoKeeper
    NoWallet = NoWallet
    Blank = Blank
    NoId = NoId
    Empty = Empty
    Junk = Junk
    DefaultKey = DefaultKey
    None = None
SYMMETRY Symmetry
CHECK_DEADLOCK FALSE
INVARIANTS
    TypesOK
    SilentTriesBounded
    DoneMeansBackedUp
    KeysBelongToCards
    CacheLagsOnlyBySigning
    CloneIsComplete
PROPERTIES
    ResetIsTold
    ImportIsTrue
