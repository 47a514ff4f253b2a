SPECIFICATION Spec
CONSTANTS
    m1 = m1  m2 = m2
    tokA = tokA  tokB = tokB  tokBad = tokBad
    slackA = slackA  slackB = slackB
    MatrixUsers = {m1, m2}
    OldItems = {1, 2, 3, 4, 5, 6, 7, 8}
    Tokens = {tokA, tokB, tokBad}
    SlackTeams = {slackA, slackB}
    TeamOfToken <- TeamsOfTokens
    Found <- Installed
    MaxImports = 1
    Senders = {s1, s2}
    Lines = {"misused", "help", "link", "leave"}
    MaxCommands = 4
    None = None
INVARIANTS
    TypeOK
    SchemaWhole
    UpgradeKept
    Imported
    CommandsInOrder
    RepliesTrue
PROPERTIES
    ComesUp
    EveryoneAnswered
CHECK_DEADLOCK FALSE
