CONSTANTS
    Ops = {"user", "steer", "trigger", "interrupt", "shell", "shutdown"}
    MaxOps = 3
    MaxFuel = 1
    MidPoll = {"begin", "record"}
SPECIFICATION Spec
INVARIANTS TypeOK TurnEventsWellFormed OneTaskRunning ActiveTaskRuns StartAsserts NoStrandedInput NotWedged LoopInv
