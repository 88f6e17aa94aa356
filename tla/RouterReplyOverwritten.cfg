SPECIFICATION Spec
CONSTANTS
    Mbufs = {m1, m2}
    RingCap = 1
    TxDescs = 1
    BurstTxWrite = 1
    Setups <- MCAnswering
    Dsts = {"far"}
    MaxPkts = 2
INVARIANT TransmitsWhatWasSent
