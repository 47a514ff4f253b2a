SPECIFICATION Spec
CONSTANTS
    u1 = u1  u2 = u2  t1 = t1  t2 = t2  t3 = t3
    s1 = s1  s2 = s2  r1 = r1  r2 = r2  r3 = r3
    Users = {u1, u2}
    Teams = {t1, t2, t3}
    SlackUsers = {s1, s2}
    MatrixRoomIds = {r1, r2, r3}
    Handlers = {h1, h2}
    Links = {l1, l2, l3}
    TeamLimit = 1
    RoomLimit = 1
    Worlds <- MCWorlds
    None = None
SYMMETRY Symmetry
INVARIANTS
    TypeOK
    LogoutHolds
    PuppetsCurrent
    PuppetsConnected
    RoomsKeepTeam
    TokenCurrent
    Quotas
    StreamsBounded
    BlockedSilent
PROPERTY KeepsTheBook
CHECK_DEADLOCK FALSE
