SPECIFICATION Spec
CONSTANTS
    AlignLog2 = 2
    SlLog2 = 2
    FlMax = 7
    PoolBytes = 120
    Sizes = {1, 20, 41}
    Aligns = {4, 16}
    MaxLive = 4
INVARIANTS
    HeapIntact
    CallersKeepMemory
    SearchComplete
    EmptyHeapIsWhole
