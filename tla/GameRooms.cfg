\* Two clients, one of which also chats, a room for one and a room for two.
SPECIFICATION Spec
CONSTANTS
    Clients = {c1, c2}
    Chatters = {c2}
    r1 = r1
    r2 = r2
    Rooms <- MCRooms
    None = None
    PacketThreads = {t1, t2}
    MaxEnterSize <- MCMaxEnterSize
SYMMETRY MCSymmetry
INVARIANTS
    RoomHolds
    AnswersHold
    NewcomersKnown
    OneAnswerComing
    ViewsSettle
PROPERTY ServiceSpec
