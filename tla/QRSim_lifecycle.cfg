SPECIFICATION Spec
CONSTANTS
    Tasks = {"solo", "duo", "plume"}
    Par <- MCPar
    NoTask = NoTask
    MaxPlatforms = 2
    MaxT = 2
    MaxFailedInits = 1
INVARIANTS
    TypeOK
    ReadyToStep
    StreamsOwned
    SeededState
PROPERTY
    NothingRolledBack
