SPECIFICATION Spec
CONSTANTS
    BridgedRooms = {r1, r2, r3}
    MatrixRoomIds = {m1, m2}
    ChannelIds = {c1}
    DmChannelIds = {d1}
    GeneratedIds = {i1, i2}
    None = None
    Handlers = {h1, h2}
    Traffic = {"link", "relink", "unlink", "upgrade", "invite", "reopen", "dm", "metrics", "restart", "rtmFails", "drainFails", "saveFails", "loadFails"}
SYMMETRY Symmetry
INVARIANTS
    IndexSound
CHECK_DEADLOCK FALSE
