SPECIFICATION Spec
CONSTANTS
    Nodes = {1}
    Messages <- RetMessages
    Configs <- RetConfigs
    Threads = {t1}
    LedgerSeq <- RetSeq
    Candidates = {2}
    HashOfSeq <- RetHash
    Early = 1
    Wall = 1
    SetExpires = 2
    MaxTime = 4
    MaxStall = 1
    SeqFloors = {3}
    Pins <- RetPins
    Retention = 0
    NoVal = NoVal
INVARIANTS RetainedFloor SteeringSound PublicationFence
