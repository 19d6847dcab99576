SPECIFICATION Spec
CONSTANTS
    Views <- MCViews
    ErrorView = "Error"
    StartupViews = {"B"}
    SmartcardMenu = "A"
    IgnoresOverride = {"A", "MainMenuView"}
    Tracked <- MCOneTracked
    CachesCardPin = FALSE
    RacyWipe = TRUE
    MaxWipes = 1
INVARIANT
    LoopSurvives
CHECK_DEADLOCK FALSE
