SPECIFICATION MCSpec
CONSTANTS
    Nodes = {a, b, c}
    Observers = {}
    RawTimes = {14, 15, 26}
    Resolution = 10
    Freshness = 2
    MaxFaults = 1
SYMMETRY Symmetry
INVARIANT SettlesWithin
PROPERTY UnanimityIsStable
