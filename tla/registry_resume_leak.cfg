CONSTANTS
    Spawners = {s1, s2}
    Releasers = {r1}
    Threads = {root, t1, t2}
    RootThread = root
    Paths = {p1}
    Names <- MCPlainNames
    Formatted <- MCFormatted
    MaxThreads = 2
    MaxResets = 0
    KindSets = {{"spawnV1", "resume"}}
    None = None
SPECIFICATION Spec
SYMMETRY Symmetry
INVARIANT SlotsExact
