CONSTANTS
    Ops = {"user", "inject"}
    MaxOps = 2
    MaxFuel = 1
    MidPoll = {}
SPECIFICATION Spec
INVARIANTS NoStrandedInput
