SPECIFICATION FairSpec
CONSTANTS
    Handlers = {h1, h2}
    Streams = {s1, s2}
    Privacy = {FALSE}
    RecentMax = 1
    MaxTs = 2
    MaxEvents = 2
    Traffic = {"message", "puppet", "thread", "edit", "slackEdit", "lostAnswers", "sendFails", "lookupFails", "redact"}
INVARIANTS
    TypeOK
    CopiesRecorded
    AtMostOnce
    NotOverRedacted
PROPERTY LockMoves
CHECK_DEADLOCK FALSE
