SPECIFICATION Spec
CONSTANTS
    u1 = u1  u2 = u2  c1 = c1  c2 = c2  m1 = m1  n1 = n1  n2 = n2  bot = bot
    Folk = {u1, u2, bot}
    Bot = bot
    Names = {n1, n2}
    Objects = {o1, o2, o3, o4}
    Channels = {c1, c2}
    MatrixUsers = {m1}
    Handlers = {h1, h2}
    Worlds <- MCWorlds
    None = None
SYMMETRY Symmetry
INVARIANTS
    TypeOK
    NamesFollow
    MembersPresent
    RoomsClean
    DeletedUnlinked
    ActiveWhenIn
    OneAdminRoom
CHECK_DEADLOCK FALSE
