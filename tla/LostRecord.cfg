SPECIFICATION ProgressSpec
CONSTANTS
    Pods = {p1}
    Names = {"a"}
    Profiles = {"shop"}
    Labels = {"team"}
    Views <- Steady
    None = None
    SpecChoices <- JustOne
    MaxUid = 1
    MaxLag = 1
    Faults = {}
    WantsOf <- Kept
    Addresses = {1, 3}
    ChromeProfile <- Chromes
    LabelsOf <- NoLabels
    Early <- Started
    MaxMishaps = 3
PROPERTY RemovedAreDeregistered
CHECK_DEADLOCK FALSE
