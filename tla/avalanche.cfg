SPECIFICATION Spec
CONSTANTS
    Peers = {p1, p2, p3, p4, p5}
    Percents = {0, 50, 85, 200}
    MinRounds = 2
    StalledRounds = 4
SYMMETRY PeerSymmetry
INVARIANTS Settles StallIsLate
PROPERTY StallHolds
