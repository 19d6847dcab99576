SPECIFICATION FairSpec
CONSTANTS
    Views <- MCViews
    ErrorView = "Error"
    StartupViews = {"B"}
    SmartcardMenu = "A"
    IgnoresOverride = {"A", "MainMenuView"}
    Tracked <- MCTracked
    CachesCardPin = FALSE
    RacyWipe = TRUE
    MaxWipes = 1
INVARIANTS
    NoRepeats
    TopIsCurrentView
PROPERTY
    WipeWakesScreens
CHECK_DEADLOCK FALSE
