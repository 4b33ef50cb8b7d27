SPECIFICATION Spec
CONSTANTS
    Pods = {p1}
    Names = {"a"}
    Profiles = {"shop"}
    Labels = {"team"}
    Views <- Steady
    None = None
    SpecChoices <- Selections
    MaxUid = 2
    MaxLag = 2
    Faults = {"api", "status", "register", "deregister", "pod", "probe", "operator"}
INVARIANTS TypeOK IInv NoLostWakeup
PROPERTY ChildrenOfLiveController
CHECK_DEADLOCK FALSE
