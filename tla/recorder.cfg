CONSTANTS
    MaxCmds = 4
    ChannelCap = 2
    Leftovers = {"none", "part", "bare"}
    MaxFaults = 2
    MaxCrashes = 1
SPECIFICATION FairSpec
CHECK_DEADLOCK FALSE
INVARIANTS TypeOK FileInOrder DamageBounded
PROPERTIES ImplementsDurableLog BarriersAnswered
