SPECIFICATION Spec
CONSTANTS
    Tasks = {"one", "two"}
    BadTask = BadTask
    Uavs <- MCUavs
    Dt <- MCDt
    Increments = {1}
    Waiting = 1
    MaxConns = 1
    MaxCalls = 3
    MaxStarts = 1
INVARIANT
    StepsAsAsked
