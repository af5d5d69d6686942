SPECIFICATION Spec
CONSTANTS
    p = p
    q = q
    a = a
    b = b
    l0 = l0
    l1 = l1
    Nil = Nil
    Peers = {p, q}
    Txs = {a}
    Ledgers = {l0, l1}
    Messages <- TrustMessages
    OurSets <- ClosingFull
    Thresholds = {50, 95}
    TrustChanges <- TrustViews
    SeqLeave = 3
    RecentPerNode = 2
    MaxEpoch = 1
    SignFails = FALSE
    BuildFails = TRUE
    SwitchFails = TRUE
INVARIANTS NoResurrection RoundOnParent VotesSigned
