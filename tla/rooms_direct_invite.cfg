SPECIFICATION Spec
CONSTANTS
    BridgedRooms = {r1, r2, r3}
    MatrixRoomIds = {m1, m2}
    ChannelIds = {c1}
    DmChannelIds = {d1, d2}
    GeneratedIds = {i1, i2}
    None = None
    Handlers = {h1}
    Traffic = {"invite", "reinvite"}
SYMMETRY Symmetry
INVARIANT OneToOne
CHECK_DEADLOCK FALSE
