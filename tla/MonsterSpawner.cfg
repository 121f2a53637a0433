\* A spawner of four monsters; the buffer holds three.
SPECIFICATION FairSpec
CONSTANTS
    MaxCount = 4
    RespawnTime = 3
    Hits = 2
    BufferSize = 3
INVARIANTS
    PoolAccounted
    CountsAgree
    IndexAgrees
    PacketsCover
PROPERTIES
    RespawnsOnTime
    QuietRefills
    PoolSpec
