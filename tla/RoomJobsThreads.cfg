\* One worker, as RoomManager::Init creates: is a room's state its own?
SPECIFICATION Spec
CONSTANTS
    NRooms = 1
    Posters = {p1}
    Ticker = ticker
    Workers = {w1}
    MaxJobs = 2
INVARIANT OneThreadInRoom
CHECK_DEADLOCK FALSE
