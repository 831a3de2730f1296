SPECIFICATION Spec
CONSTANTS
    Tasks = {"search"}
    Par <- MCPar
    NoTask = NoTask
    MaxPlatforms = 2
    MaxT = 4
    MaxFailedInits = 1
INVARIANTS
    SeededState
