SPECIFICATION Spec
CONSTANTS
    N = 2
    People = {"ann", "bob"}
    Counts = {1, 2}
    TaskDt = 2
    AreaDt = 2
INVARIANTS
    TypeOK
    EveryFindAccounted
    NoFindLost
PROPERTY
    SettledOnce
