SPECIFICATION Spec
CONSTANTS
    Pods = {p1}
    Profiles = {"default", "shop"}
    BrowserName = "shop"
    Endpoints = {1}
    Extensions = {}
    None = None
    SpecChoices <- PolicySpecs
    MaxUid = 2
    MaxLag = 1
    Faults = {}
INVARIANT RunsOnKeptVolume
CHECK_DEADLOCK FALSE
