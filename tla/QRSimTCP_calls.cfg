SPECIFICATION Spec
CONSTANTS
    Tasks = {"one", "two"}
    BadTask = BadTask
    Uavs <- MCUavs
    Dt <- MCDt
    Increments = {1}
    Waiting = 1
    MaxConns = 2
    MaxCalls = 3
    MaxStarts = 2
INVARIANTS
    TypeOK
    CleanPipe
    InitializedMeansLoaded
    ParamsAgree
PROPERTIES
    NothingRolledBack
    InOrderAtMostOnce
    CallsReturn
