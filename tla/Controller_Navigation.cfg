SPECIFICATION HSpec
CONSTANTS
    Views <- MCViews
    ErrorView = "Error"
    StartupViews = {"B"}
    SmartcardMenu = "A"
    IgnoresOverride = {"A", "MainMenuView"}
    Tracked <- MCTracked
    CachesCardPin = FALSE
    RacyWipe = FALSE
    MaxWipes = 2
INVARIANTS
    TypeOK
    TopIsCurrentView
    SurvivesUntilWipe
PROPERTY
    ImplementsNavigation
CHECK_DEADLOCK FALSE
