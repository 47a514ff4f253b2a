SPECIFICATION Spec
CONSTANTS
    Handlers = {h1, h2}
    Streams = {s1, s2}
    Privacy = {TRUE}
    RecentMax = 2
    MaxTs = 3
    MaxEvents = 3
    Traffic = {"thread", "slackEdit", "delete", "redact", "refusals"}
SYMMETRY Symmetry
INVARIANTS
    InOrder
    ThreadsHold
    DeletionsReach
CHECK_DEADLOCK FALSE
