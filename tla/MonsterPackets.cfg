\* Is every monster in each broadcast?
SPECIFICATION Spec
CONSTANTS
    MaxCount = 4
    RespawnTime = 3
    Hits = 2
    BufferSize = 3
INVARIANT EveryMonsterSent
