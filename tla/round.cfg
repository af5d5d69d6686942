SPECIFICATION Spec
CONSTANTS
    p = p
    q = q
    a = a
    b = b
    l0 = l0
    l1 = l1
    Nil = Nil
    Peers = {p, q}
    Txs = {a, b}
    Ledgers = {l0, l1}
    Messages <- RoundMessages
    OurSets <- Closing
    Thresholds = {50, 95}
    TrustChanges <- AllTrusted
    SeqLeave = 3
    RecentPerNode = 1
    MaxEpoch = 0
    SignFails = TRUE
    BuildFails = FALSE
    SwitchFails = TRUE
INVARIANTS TallyExact VotersLive VotesMatchPositions OurVoteMatchesSet DisputesComplete
