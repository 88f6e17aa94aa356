SPECIFICATION FairSpec
CONSTANTS
    Mbufs = {m1, m2, m3}
    RingCap = 1
    TxDescs = 2
    BurstTxWrite = 2
    Setups <- MCSetups
    Dsts = {"host3", "host4", "far"}
    MaxPkts = 4
INVARIANTS
    MbufOwnedOnce
    OrderKept
    MacOfOutPort
PROPERTIES
    EveryPacketSettles
    BackpressureClears
