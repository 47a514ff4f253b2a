SPECIFICATION Spec
CONSTANTS
    BridgedRooms = {r1, r2, r3}
    MatrixRoomIds = {m1, m2, m3}
    ChannelIds = {c1, c2}
    DmChannelIds = {}
    GeneratedIds = {i1, i2}
    None = None
    Handlers = {h1, h2}
    Traffic = {"link", "webhook", "unlink", "private", "rename", "restart", "starting", "early"}
SYMMETRY Symmetry
INVARIANTS
    ChannelIndexSoundUnlessRelinked
    SavedOrSaving
CHECK_DEADLOCK FALSE
