SPECIFICATION FairSpec
CONSTANTS
    Nodes = {1, 2}
    Messages <- FinMessages
    Configs <- FinConfigs
    Threads = {t1, t2}
    LedgerSeq <- FinSeq
    Candidates = {}
    HashOfSeq <- FinHash
    Early = 1
    Wall = 2
    SetExpires = 3
    MaxTime = 1
    MaxStall = 1
    SeqFloors = {}
    Pins = {}
    Retention = 1
    NoVal = NoVal
INVARIANTS TypeOK DrainResponsible ReportedOnce FinalBacked SteeringComplete
PROPERTY QueueDrains
