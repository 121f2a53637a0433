SPECIFICATION Spec
CONSTANTS
    u1 = u1
    u2 = u2
    m1 = m1
    None = None
    Unset = Unset
    Users = {u1, u2}
    Monsters = {m1}
    SectionCountX = 3
    SectionCountY = 2
    AttackUpdates = 2
    MaxRequests = 4
CONSTANTS
    Places <- MCPlaces
    SpawnPlaces <- MCSpawnPlaces
INVARIANTS
    AliveListed
    SettledUsersFound
    AttackHasTarget
    AttackTimed
CHECK_DEADLOCK FALSE
SYMMETRY Alike
