SPECIFICATION Spec
CONSTANTS
    Nodes = {1, 2}
    Messages <- DblMessages
    Configs <- DblConfigs
    Threads = {t1}
    LedgerSeq <- DblSeq
    Candidates = {}
    HashOfSeq <- DblHash
    Early = 1
    Wall = 1
    SetExpires = 5
    MaxTime = 7
    MaxStall = 1
    SeqFloors = {}
    Pins = {}
    Retention = 1
    NoVal = NoVal
INVARIANTS OneVotePerSeq AccusedSigned
