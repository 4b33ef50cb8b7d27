SPECIFICATION Spec
CONSTANTS
    Pods = {p1}
    Profiles = {"default", "shop"}
    BrowserName = "shop"
    Endpoints = {e1, e2}
    Extensions = {x}
    None = None
    SpecChoices <- DiscoverySpecs
    MaxUid = 1
    MaxLag = 1
    Faults = {"http"}
SYMMETRY EndpointSymmetry
PROPERTIES NoNeedlessRestart StatusFollowsSpec
CHECK_DEADLOCK FALSE
