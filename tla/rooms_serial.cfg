SPECIFICATION FairSpec
CONSTANTS
    BridgedRooms = {r1, r2, r3}
    MatrixRoomIds = {m1, m2, m3}
    ChannelIds = {c1, c2}
    DmChannelIds = {d1}
    GeneratedIds = {i1, i2}
    None = None
    Handlers = {h1}
    Traffic = {"link", "webhook", "unlink", "invite", "dm", "private", "rename", "restart"}
INVARIANTS
    TypeOK
    OneToOne
    RestartInvisible
PROPERTY RowsLive
