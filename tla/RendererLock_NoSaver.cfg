SPECIFICATION FairSpec
CONSTANTS
    t1 = t1
    t2 = t2
    t3 = t3
    Toasts = {t1, t2}
    Activators = {"microsd", "main"}
    Screens = {"S", "T"}
    SaverAllowed = FALSE
INVARIANTS
    NoGhostToast
PROPERTIES
    RestoresScreen
    ToastsEnd
