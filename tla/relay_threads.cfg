SPECIFICATION Spec
CONSTANTS
    Handlers = {h1, h2}
    Streams = {s1}
    Privacy = {FALSE}
    RecentMax = 2
    MaxTs = 3
    MaxEvents = 3
    Traffic = {"message", "thread"}
SYMMETRY Symmetry
INVARIANT ListsComplete
CHECK_DEADLOCK FALSE
