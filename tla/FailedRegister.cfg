SPECIFICATION Spec
CONSTANTS
    Pods = {p1}
    Names = {"a"}
    Profiles = {"shop"}
    Labels = {"team"}
    Views <- Steady
    None = None
    SpecChoices <- JustOne
    MaxUid = 1
    MaxLag = 1
    Faults = {"register"}
PROPERTY RecordsOnlyRegistered
CHECK_DEADLOCK FALSE
