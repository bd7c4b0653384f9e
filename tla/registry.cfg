CONSTANTS
    Spawners = {s1, s2}
    Releasers = {r1}
    Threads = {root, t1, t2}
    RootThread = root
    Paths = {p1}
    Names <- MCNames
    Formatted <- MCFormatted
    MaxThreads = 1
    MaxResets = 1
    KindSets <- MCKindSets
    None = None
SPECIFICATION Spec
SYMMETRY Symmetry
INVARIANTS TypeOK ReservationsOwned SlotsReturned NicknamesDistinct IndInv OpenAgentsWithinLimit
