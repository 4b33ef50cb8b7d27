SPECIFICATION Spec
CONSTANTS
    BrowserSpecs <- OneBrowser
    ControllerSpecs <- OneController
    MaxUid = 2
    MaxLag = 1
    MaxMishaps = 4
    None = None
INVARIANTS SharedInv NeverSplit
PROPERTIES StatusOfHolder OneServed
CHECK_DEADLOCK FALSE
