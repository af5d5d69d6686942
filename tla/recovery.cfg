SPECIFICATION Spec
CONSTANTS
    g = g
    a = a
    b = b
    c = c
    Nil = Nil
    Root = g
    Ledgers <- MCLedgers
    Parent <- MCParent
    Held <- MCHeld
    MaxViews = 1
    MaxFaults = 1
    StopFaults = 0
    Stops = {"main", "callback"}
INVARIANTS
    NothingStranded
    StopProgresses
PROPERTIES
    FrontierSpec
    QuietAfterStop
CHECK_DEADLOCK FALSE
