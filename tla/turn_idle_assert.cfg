CONSTANTS
    Ops = {"user", "idle"}
    MaxOps = 2
    MaxFuel = 1
    MidPoll = {}
SPECIFICATION Spec
INVARIANTS StartAsserts
