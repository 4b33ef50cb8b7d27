SPECIFICATION Spec
CONSTANTS
    Pods = {p1}
    Profiles = {"default", "shop"}
    BrowserName = "shop"
    Endpoints = {1}
    Extensions = {}
    None = None
    SpecChoices <- LifecycleSpecs
    MaxUid = 2
    MaxLag = 2
    Faults = {"api", "http"}
INVARIANTS TypeOK IInv ClaimInv NoLostWakeup
PROPERTIES ChildrenOfLiveBrowser VolumeDeletedOnRequest DeleteReclaims ImplementsContract
CHECK_DEADLOCK FALSE
