CONSTANTS
    MaxCmds = 4
    ChannelCap = 2
    Leftovers = {"none", "part", "bare"}
    MaxFaults = 2
    MaxCrashes = 1

SPECIFICATION Spec
CHECK_DEADLOCK FALSE

INVARIANT ConfirmedIsReadable
