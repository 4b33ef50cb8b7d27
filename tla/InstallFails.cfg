SPECIFICATION Spec
CONSTANTS
    Pods = {p1}
    Profiles = {"default", "shop"}
    BrowserName = "shop"
    Endpoints = {1}
    Extensions = {x}
    None = None
    SpecChoices <- ExtendedSpec
    MaxUid = 1
    MaxLag = 1
    Faults = {"http"}
PROPERTY FailedInstallIsNonFatal
CHECK_DEADLOCK FALSE
