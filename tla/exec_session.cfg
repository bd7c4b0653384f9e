CONSTANTS
    Conns = {c1, c2, c3}
    Sessions = {s1}
    Procs = {p1, p2}
    None = None
SPECIFICATION FairSpec
CHECK_DEADLOCK FALSE
INVARIANTS TypeOK OneOwner ExpiryFenced NotificationsPrivate GoneIsQuiet
PROPERTIES DetachedSettles
