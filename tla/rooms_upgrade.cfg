SPECIFICATION Spec
CONSTANTS
    BridgedRooms = {r1, r2, r3}
    MatrixRoomIds = {m1, m2}
    ChannelIds = {c1, c2}
    DmChannelIds = {d1}
    GeneratedIds = {i1, i2}
    None = None
    Handlers = {h1}
    Traffic = {"link", "unlink", "upgrade", "restart"}
SYMMETRY Symmetry
INVARIANT CleanMatchesRow
CHECK_DEADLOCK FALSE
