SPECIFICATION Spec
CONSTANTS
    Validators = {a, b, c}
    Self = a
    Scores = {127, 128, 231}
    VotesTimeout = 2
    MajorityTimeout = 3
    MinTrusted = 2
    Periods = 4
    MaxChanges = 2
SYMMETRY Symmetry
\* A behaviour ends with the last flag ledger of the bound.
CHECK_DEADLOCK FALSE
INVARIANT VotesApply
INVARIANT GracePeriod
PROPERTY QuorumReachable
PROPERTY VotesCounted
