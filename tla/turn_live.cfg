CONSTANTS
    Ops = {"user", "mail", "trigger", "inject", "idle", "guard", "compact", "review", "interrupt", "shutdown"}
    MaxOps = 2
    MaxFuel = 1
    MidPoll = {"record"}
SPECIFICATION FairSpec
INVARIANTS ActiveTaskRuns
  
