SPECIFICATION ProgressSpec
CONSTANTS
    Pods = {p1}
    Names = {"a", "b"}
    Profiles = {"shop", "mail", "news"}
    Labels = {"team"}
    Views <- Steady
    None = None
    SpecChoices <- Selections
    MaxUid = 2
    MaxLag = 1
    Faults = {"api", "status", "operator", "register", "deregister", "pod", "probe", "child"}
    WantsOf <- Renamed
    Addresses = {1, 2, 3, 4}
    ChromeProfile <- Chromes
    LabelsOf <- NoLabels
    Early <- Started
    MaxMishaps = 3
INVARIANTS EarnedUnlessLost TrueUnlessLost
PROPERTIES StatusConverges KnownUnlessLost RecordsUnlessLost ForgetsUnlessLost
CHECK_DEADLOCK FALSE
