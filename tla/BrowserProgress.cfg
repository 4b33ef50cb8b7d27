SPECIFICATION ProgressSpec
CONSTANTS
    Pods = {p1}
    Profiles = {"default", "shop"}
    BrowserName = "shop"
    Endpoints = {1, 2}
    Extensions = {x}
    None = None
    SpecChoices <- ProgressSpecs
    MaxUid = 2
    MaxLag = 1
    MaxMishaps = 3
    Faults = {"api", "http"}
PROPERTIES Converges ImplementsContract
CHECK_DEADLOCK FALSE
